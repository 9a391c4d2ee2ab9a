---------------------------- MODULE StorageProofs ----------------------------
(***************************************************************************)
(* Proofs about what is stored, in two layers that no action joins.        *)
(*                                                                         *)
(* SdStorage, for cards of any capacities, requests of any size, any bound *)
(* of blocks in a command and any numbers of retries: a read that succeeds *)
(* is whole, a handle that says it is initialized is backed by a running   *)
(* host, the ladder of modes is never left, and each step is a step of     *)
(* StorageSpec or invisible to it.                                         *)
(*                                                                         *)
(* FatVolume and FatFs, for volumes of any size: what a write changes in   *)
(* the images of the card, what an image stays sound under, FatInd, and    *)
(* that the start of every call, every look at the directory and what      *)
(* comes of it keep it.                                                    *)
(* FatFsProofs goes on from here.                                          *)
(***************************************************************************)
EXTENDS SdStorage, FatInv, TLAPS, FiniteSetTheorems, WellFoundedInduction

Idle == {"boot", "idle", "ended"}
Identifying  == {"init_ident", "init_csd", "init_bus"}
Initializing == {"initialize", "init_retry", "init_host", "init_done", "initialized"}
                   \cup Identifying
Transferring == {"rw", "io_error"}

(* Who called whom: what is true of the request and of the mount while a   *)
(* call, or an initialization inside it, is in progress.                   *)
StackOK ==
    /\ pc \in Idle <=> op = "none"
    /\ op = "mount" \/ pc = "boot" => ~last.ok /\ ~sd_mounted
    /\ pc = "f_mount" => op = "mount"
    /\ pc \in Initializing /\ caller = "mount" => op = "mount"
    /\ pc \in Initializing /\ caller # "mount" => req[2] > 0
    /\ op = "read" => sd_mounted
    /\ op = "read" /\ pc # "rw_begin" =>
          req \in Requests /\ up0 /\ req[1] + req[2] <= cnt0

(* What each step of an initialization may rely on, and what it leaves     *)
(* behind: a mode to try, a running host, a handle that is initialized     *)
(* exactly when the step before said so.                                   *)
SessionOK ==
    /\ pc \in Identifying =>
          card_clock_enabled /\ ~clock_stopped /\ power /\ ~initialized
    /\ pc = "init_bus" => sec_cnt # 0
    /\ pc = "init_host" \/ pc \in Identifying => sd_mode # SD_INIT_FAIL
    /\ pc \in {"init_done", "initialized"} /\ res => initialized /\ sd_mode # SD_INIT_FAIL
    /\ pc = "init_retry" /\ power_cycle => sd_mode # SD_INIT_FAIL
    /\ pc \in Transferring => initialized /\ (~first_reinit => sd_mode # SD_INIT_FAIL)
    /\ pc = "f_mount" /\ res => initialized

IInv ==
    /\ TypeOK /\ StackOK /\ SessionOK
    /\ TransferConsistent /\ ReadWhole /\ HandleBacked

(* What a shutdown leaves of the flags of the host. *)
LEMMA StorageEndFlags ==
    ASSUME Flags, StorageEnd \/ UNCHANGED <<host, power, card, initialized>>
    PROVE  /\ clock_stopped' \in BOOLEAN /\ card_clock_enabled' \in BOOLEAN
           /\ power' \in BOOLEAN /\ initialized' \in BOOLEAN
<1>1. CASE StorageEnd  BY <1>1, Zenon DEF Flags, StorageEnd, EndOk, EndFails,
   host
<1>2. CASE UNCHANGED <<host, power, card, initialized>>
  BY <1>2, Zenon DEF Flags, host
<1> QED  BY <1>1, <1>2

(* Steps: the user pulls or inserts a card. *)
LEMMA HardwareInv ==
    ASSUME IInv, Remove \/ Insert
    PROVE  IInv'
<1>0. /\ TypeOK /\ StackOK /\ SessionOK
      /\ TransferConsistent /\ ReadWhole /\ HandleBacked
  BY DEF IInv
<1>1. CASE Remove
  <2>1. Flags'
    BY <1>0, <1>1, Zenon DEF TypeOK, Flags, Remove, CardRemoved, sdVars,
       handle, host, xferVars, history, control
  <2>2. TypeOK'
    BY <1>0, <1>1, <2>1, StorageAssumption DEF TypeOK, SessionOK,
       TransferConsistent, Modes, SD_INIT_FAIL, SD_UHS_SDR104,
       SD_DEFAULT_SPEED, Initializing, Remove, CardRemoved, sdVars, handle,
       host, xferVars, history, control
  <2>3. StackOK' /\ SessionOK' /\ HandleBacked'
    BY <1>0, <1>1, StorageAssumption DEF TypeOK, StackOK, SessionOK,
       HandleBacked, TransferConsistent, Idle, Identifying, Initializing,
       Transferring, SD_INIT_FAIL, SD_UHS_SDR104, SD_DEFAULT_SPEED, Remove,
       CardRemoved, sdVars, handle, host, xferVars, history, control
  <2>4. TransferConsistent' /\ ReadWhole'
    BY <1>0, <1>1, StorageAssumption DEF TypeOK, StackOK,
       TransferConsistent, ReadWhole, Idle, Identifying, Initializing,
       Remove, CardRemoved, sdVars, handle, host, xferVars, history, control
  <2> QED  BY <2>2, <2>3, <2>4 DEF IInv
<1>2. CASE Insert
  <2>1. Flags'
    BY <1>0, <1>2, Zenon DEF TypeOK, Flags, Insert, CardInserted, sdVars,
       handle, host, xferVars, history, control
  <2>2. TypeOK'
    BY <1>0, <1>2, <2>1, StorageAssumption DEF TypeOK, SessionOK,
       TransferConsistent, Modes, SD_INIT_FAIL, SD_UHS_SDR104,
       SD_DEFAULT_SPEED, Initializing, Insert, CardInserted, sdVars, handle,
       host, xferVars, history, control
  <2>3. StackOK' /\ SessionOK' /\ HandleBacked'
    BY <1>0, <1>2, StorageAssumption DEF TypeOK, StackOK, SessionOK,
       HandleBacked, TransferConsistent, Idle, Identifying, Initializing,
       Transferring, SD_INIT_FAIL, SD_UHS_SDR104, SD_DEFAULT_SPEED, Insert,
       CardInserted, sdVars, handle, host, xferVars, history, control
  <2>4. TransferConsistent' /\ ReadWhole'
    BY <1>0, <1>2, StorageAssumption DEF TypeOK, StackOK,
       TransferConsistent, ReadWhole, Idle, Identifying, Initializing,
       Insert, CardInserted, sdVars, handle, host, xferVars, history, control
  <2> QED  BY <2>2, <2>3, <2>4 DEF IInv
<1> QED  BY <1>1, <1>2

(* Steps: sd_init_retry and sdmmc_storage_init_sd. *)
LEMMA InitInv ==
    ASSUME IInv, InitRetry \/ InitHost \/ InitFails \/ InitIdent \/
           InitCsd \/ InitBus
    PROVE  IInv'
<1>0. /\ TypeOK /\ StackOK /\ SessionOK
      /\ TransferConsistent /\ ReadWhole /\ HandleBacked
  BY DEF IInv
<1>1. CASE InitRetry
  <2>0. /\ clock_stopped' \in BOOLEAN /\ card_clock_enabled' \in BOOLEAN
        /\ power' \in BOOLEAN /\ initialized' \in BOOLEAN
    BY <1>0, <1>1, StorageEndFlags DEF TypeOK, InitRetry, host
  <2>1. Flags'
    BY <1>0, <1>1, <2>0, Zenon DEF TypeOK, Flags, InitRetry, NextMode, host,
       slot, xferVars, history
  <2>2. TypeOK'
    BY <1>0, <1>1, <2>1, StorageAssumption DEF TypeOK, SessionOK,
       TransferConsistent, Modes, SD_INIT_FAIL, SD_UHS_SDR104,
       SD_DEFAULT_SPEED, Initializing, InitRetry, NextMode, StorageEnd,
       EndOk, EndFails, host, slot, xferVars, history
  <2>3. StackOK' /\ SessionOK' /\ HandleBacked'
    BY <1>0, <1>1, StorageAssumption DEF TypeOK, StackOK, SessionOK,
       HandleBacked, TransferConsistent, Idle, Identifying, Initializing,
       Transferring, SD_INIT_FAIL, SD_UHS_SDR104, SD_DEFAULT_SPEED,
       InitRetry, NextMode, StorageEnd, EndOk, EndFails, host, slot, xferVars,
       history
  <2>4. TransferConsistent' /\ ReadWhole'
    BY <1>0, <1>1, StorageAssumption DEF TypeOK, StackOK,
       TransferConsistent, ReadWhole, Idle, Identifying, Initializing,
       InitRetry, NextMode, StorageEnd, EndOk, EndFails, host, slot, xferVars,
       history
  <2> QED  BY <2>2, <2>3, <2>4 DEF IInv
<1>2. CASE InitHost
  <2>1. Flags'
    BY <1>0, <1>2, Zenon DEF TypeOK, Flags, InitHost, HostAbsent, HostStarts,
       InitReturn, slot, history
  <2>2. TypeOK'
    BY <1>0, <1>2, <2>1, StorageAssumption DEF TypeOK, SessionOK,
       TransferConsistent, Modes, SD_INIT_FAIL, SD_UHS_SDR104,
       SD_DEFAULT_SPEED, Initializing, InitHost, HostAbsent, HostStarts,
          InitReturn, slot, history
  <2>3. StackOK' /\ SessionOK' /\ HandleBacked'
    BY <1>0, <1>2, StorageAssumption DEF TypeOK, StackOK, SessionOK,
       HandleBacked, TransferConsistent, Idle, Identifying, Initializing,
       Transferring, SD_INIT_FAIL, SD_UHS_SDR104, SD_DEFAULT_SPEED,
       InitHost, HostAbsent, HostStarts, InitReturn, slot, history
  <2>4. TransferConsistent' /\ ReadWhole'
    BY <1>0, <1>2, StorageAssumption DEF TypeOK, StackOK,
       TransferConsistent, ReadWhole, Idle, Identifying, Initializing,
       InitHost, HostAbsent, HostStarts, InitReturn, slot, history
  <2> QED  BY <2>2, <2>3, <2>4 DEF IInv
<1>3. CASE InitFails
  <2>1. Flags'
    BY <1>0, <1>3, Zenon DEF TypeOK, Flags, InitFails, InitGivenUp, InitReturn,
       handle, host, hwVars, xferVars, history, slot
  <2>2. TypeOK'
    BY <1>0, <1>3, <2>1, StorageAssumption DEF TypeOK, SessionOK,
       TransferConsistent, Modes, SD_INIT_FAIL, SD_UHS_SDR104,
       SD_DEFAULT_SPEED, Initializing, InitFails, InitGivenUp, InitReturn,
       handle, host, hwVars, xferVars, history, slot
  <2>3. StackOK' /\ SessionOK' /\ HandleBacked'
    BY <1>0, <1>3, StorageAssumption DEF TypeOK, StackOK, SessionOK,
       HandleBacked, TransferConsistent, Idle, Identifying, Initializing,
       Transferring, SD_INIT_FAIL, SD_UHS_SDR104, SD_DEFAULT_SPEED,
       InitFails, InitGivenUp, InitReturn, handle, host, hwVars, xferVars,
          history, slot
  <2>4. TransferConsistent' /\ ReadWhole'
    BY <1>0, <1>3, StorageAssumption DEF TypeOK, StackOK,
       TransferConsistent, ReadWhole, Idle, Identifying, Initializing,
       InitFails, InitGivenUp, InitReturn, handle, host, hwVars, xferVars,
          history, slot
  <2> QED  BY <2>2, <2>3, <2>4 DEF IInv
<1>4. CASE InitIdent
  <2>1. Flags'
    BY <1>0, <1>4, Zenon DEF TypeOK, Flags, InitIdent, CardIdentified, sdVars,
       handle, host, slot, xferVars, history
  <2>2. TypeOK'
    BY <1>0, <1>4, <2>1, StorageAssumption DEF TypeOK, SessionOK,
       TransferConsistent, Modes, SD_INIT_FAIL, SD_UHS_SDR104,
       SD_DEFAULT_SPEED, Initializing, InitIdent, CardIdentified, sdVars,
       handle, host, slot, xferVars, history
  <2>3. StackOK' /\ SessionOK' /\ HandleBacked'
    BY <1>0, <1>4, StorageAssumption DEF TypeOK, StackOK, SessionOK,
       HandleBacked, TransferConsistent, Idle, Identifying, Initializing,
       Transferring, SD_INIT_FAIL, SD_UHS_SDR104, SD_DEFAULT_SPEED,
       InitIdent, CardIdentified, sdVars, handle, host, slot, xferVars, history
  <2>4. TransferConsistent' /\ ReadWhole'
    BY <1>0, <1>4, StorageAssumption DEF TypeOK, StackOK,
       TransferConsistent, ReadWhole, Idle, Identifying, Initializing,
       InitIdent, CardIdentified, sdVars, handle, host, slot, xferVars, history
  <2> QED  BY <2>2, <2>3, <2>4 DEF IInv
<1>5. CASE InitCsd
  <2>1. Flags'
    BY <1>0, <1>5, Zenon DEF TypeOK, Flags, InitCsd, sdVars, host, hwVars,
       xferVars, history, slot
  <2>2. TypeOK'
    BY <1>0, <1>5, <2>1, StorageAssumption DEF TypeOK, SessionOK,
       TransferConsistent, Modes, SD_INIT_FAIL, SD_UHS_SDR104,
       SD_DEFAULT_SPEED, Initializing, InitCsd, sdVars, host, hwVars,
       xferVars, history, slot
  <2>3. StackOK' /\ SessionOK' /\ HandleBacked'
    BY <1>0, <1>5, StorageAssumption DEF TypeOK, StackOK, SessionOK,
       HandleBacked, TransferConsistent, Idle, Identifying, Initializing,
       Transferring, SD_INIT_FAIL, SD_UHS_SDR104, SD_DEFAULT_SPEED, InitCsd,
       sdVars, host, hwVars, xferVars, history, slot
  <2>4. TransferConsistent' /\ ReadWhole'
    BY <1>0, <1>5, StorageAssumption DEF TypeOK, StackOK,
       TransferConsistent, ReadWhole, Idle, Identifying, Initializing,
       InitCsd, sdVars, host, hwVars, xferVars, history, slot
  <2> QED  BY <2>2, <2>3, <2>4 DEF IInv
<1>6. CASE InitBus
  <2>1. Flags'
    BY <1>0, <1>6, Zenon DEF TypeOK, Flags, InitBus, CardReady, InitReturn,
       host, slot, xferVars, history
  <2>2. TypeOK'
    BY <1>0, <1>6, <2>1, StorageAssumption DEF TypeOK, SessionOK,
       TransferConsistent, Modes, SD_INIT_FAIL, SD_UHS_SDR104,
       SD_DEFAULT_SPEED, Initializing, InitBus, CardReady, InitReturn, host,
       slot, xferVars, history
  <2>3. StackOK' /\ SessionOK' /\ HandleBacked'
    BY <1>0, <1>6, StorageAssumption DEF TypeOK, StackOK, SessionOK,
       HandleBacked, TransferConsistent, Idle, Identifying, Initializing,
       Transferring, SD_INIT_FAIL, SD_UHS_SDR104, SD_DEFAULT_SPEED, InitBus,
       CardReady, InitReturn, host, slot, xferVars, history
  <2>4. TransferConsistent' /\ ReadWhole'
    BY <1>0, <1>6, StorageAssumption DEF TypeOK, StackOK,
       TransferConsistent, ReadWhole, Idle, Identifying, Initializing,
       InitBus, CardReady, InitReturn, host, slot, xferVars, history
  <2> QED  BY <2>2, <2>3, <2>4 DEF IInv
<1> QED  BY <1>1, <1>2, <1>3, <1>4, <1>5, <1>6

(* Steps: sd_initialize. *)
LEMMA LadderInv ==
    ASSUME IInv, Initialize \/ InitializeOk \/ InitializeLower \/
           InitializeGiveUp
    PROVE  IInv'
<1>0. /\ TypeOK /\ StackOK /\ SessionOK
      /\ TransferConsistent /\ ReadWhole /\ HandleBacked
  BY DEF IInv
<1>1. CASE Initialize
  <2>0. /\ clock_stopped' \in BOOLEAN /\ card_clock_enabled' \in BOOLEAN
        /\ power' \in BOOLEAN /\ initialized' \in BOOLEAN
    BY <1>0, <1>1, StorageEndFlags DEF TypeOK, Initialize, host
  <2>1. Flags'
    BY <1>0, <1>1, <2>0, Zenon DEF TypeOK, Flags, Initialize, sdVars, host,
       slot, xferVars, history
  <2>2. TypeOK'
    BY <1>0, <1>1, <2>1, StorageAssumption DEF TypeOK, SessionOK,
       TransferConsistent, Modes, SD_INIT_FAIL, SD_UHS_SDR104,
       SD_DEFAULT_SPEED, Initializing, Initialize, StorageEnd, EndOk, EndFails,
       sdVars, host, slot, xferVars, history
  <2>3. StackOK' /\ SessionOK' /\ HandleBacked'
    BY <1>0, <1>1, StorageAssumption DEF TypeOK, StackOK, SessionOK,
       HandleBacked, TransferConsistent, Idle, Identifying, Initializing,
       Transferring, SD_INIT_FAIL, SD_UHS_SDR104, SD_DEFAULT_SPEED,
       Initialize, StorageEnd, EndOk, EndFails, sdVars, host, slot, xferVars,
       history
  <2>4. TransferConsistent' /\ ReadWhole'
    BY <1>0, <1>1, StorageAssumption DEF TypeOK, StackOK,
       TransferConsistent, ReadWhole, Idle, Identifying, Initializing,
       Initialize, StorageEnd, EndOk, EndFails, sdVars, host, slot, xferVars,
       history
  <2> QED  BY <2>2, <2>3, <2>4 DEF IInv
<1>2. CASE InitializeOk
  <2>1. Flags'
    BY <1>0, <1>2, Zenon DEF TypeOK, Flags, InitializeOk, InInitialize,
       sdVars, handle, host, hwVars, xferVars, history, slot
  <2>2. TypeOK'
    BY <1>0, <1>2, <2>1, StorageAssumption DEF TypeOK, SessionOK,
       TransferConsistent, Modes, SD_INIT_FAIL, SD_UHS_SDR104,
       SD_DEFAULT_SPEED, Initializing, InitializeOk, InInitialize, sdVars,
       handle, host, hwVars, xferVars, history, slot
  <2>3. StackOK' /\ SessionOK' /\ HandleBacked'
    BY <1>0, <1>2, StorageAssumption DEF TypeOK, StackOK, SessionOK,
       HandleBacked, TransferConsistent, Idle, Identifying, Initializing,
       Transferring, SD_INIT_FAIL, SD_UHS_SDR104, SD_DEFAULT_SPEED,
       InitializeOk, InInitialize, sdVars, handle, host, hwVars, xferVars,
       history, slot
  <2>4. TransferConsistent' /\ ReadWhole'
    BY <1>0, <1>2, StorageAssumption DEF TypeOK, StackOK,
       TransferConsistent, ReadWhole, Idle, Identifying, Initializing,
       InitializeOk, InInitialize, sdVars, handle, host, hwVars, xferVars,
       history, slot
  <2> QED  BY <2>2, <2>3, <2>4 DEF IInv
<1>3. CASE InitializeLower
  <2>1. Flags'
    BY <1>0, <1>3, Zenon DEF TypeOK, Flags, InitializeLower, InInitialize,
       sdVars, handle, host, hwVars, xferVars, history, slot
  <2>2. TypeOK'
    BY <1>0, <1>3, <2>1, StorageAssumption DEF TypeOK, SessionOK,
       TransferConsistent, Modes, SD_INIT_FAIL, SD_UHS_SDR104,
       SD_DEFAULT_SPEED, Initializing, InitializeLower, InInitialize,
       sdVars, handle, host, hwVars, xferVars, history, slot
  <2>3. StackOK' /\ SessionOK' /\ HandleBacked'
    BY <1>0, <1>3, StorageAssumption DEF TypeOK, StackOK, SessionOK,
       HandleBacked, TransferConsistent, Idle, Identifying, Initializing,
       Transferring, SD_INIT_FAIL, SD_UHS_SDR104, SD_DEFAULT_SPEED,
       InitializeLower, InInitialize, sdVars, handle, host, hwVars,
       xferVars, history, slot
  <2>4. TransferConsistent' /\ ReadWhole'
    BY <1>0, <1>3, StorageAssumption DEF TypeOK, StackOK,
       TransferConsistent, ReadWhole, Idle, Identifying, Initializing,
       InitializeLower, InInitialize, sdVars, handle, host, hwVars,
       xferVars, history, slot
  <2> QED  BY <2>2, <2>3, <2>4 DEF IInv
<1>4. CASE InitializeGiveUp
  <2>1. Flags'
    BY <1>0, <1>4, Zenon DEF TypeOK, Flags, InitializeGiveUp, InInitialize,
       StorageEnd, EndOk, EndFails, slot, xferVars, history, host
  <2>2. TypeOK'
    BY <1>0, <1>4, <2>1, StorageAssumption DEF TypeOK, SessionOK,
       TransferConsistent, Modes, SD_INIT_FAIL, SD_UHS_SDR104,
       SD_DEFAULT_SPEED, Initializing, InitializeGiveUp, InInitialize,
       StorageEnd, EndOk, EndFails, slot, xferVars, history, host
  <2>3. StackOK' /\ SessionOK' /\ HandleBacked'
    BY <1>0, <1>4, StorageAssumption DEF TypeOK, StackOK, SessionOK,
       HandleBacked, TransferConsistent, Idle, Identifying, Initializing,
       Transferring, SD_INIT_FAIL, SD_UHS_SDR104, SD_DEFAULT_SPEED,
       InitializeGiveUp, InInitialize, StorageEnd, EndOk, EndFails, slot,
       xferVars, history, host
  <2>4. TransferConsistent' /\ ReadWhole'
    BY <1>0, <1>4, StorageAssumption DEF TypeOK, StackOK,
       TransferConsistent, ReadWhole, Idle, Identifying, Initializing,
       InitializeGiveUp, InInitialize, StorageEnd, EndOk, EndFails, slot,
       xferVars, history, host
  <2> QED  BY <2>2, <2>3, <2>4 DEF IInv
<1> QED  BY <1>1, <1>2, <1>3, <1>4

(* Steps: the transfer, but for its begin and its successful attempts. *)
LEMMA TransferInv ==
    ASSUME IInv, TryFails \/ HandleIoError \/ Reinit \/ ReadFails
    PROVE  IInv'
<1>0. /\ TypeOK /\ StackOK /\ SessionOK
      /\ TransferConsistent /\ ReadWhole /\ HandleBacked
  BY DEF IInv
<1>1. CASE TryFails
  <2>1. Flags'
    BY <1>0, <1>1, Zenon DEF TypeOK, Flags, TryFails, sdVars, handle, host,
       hwVars, history, slot
  <2>2. TypeOK'
    BY <1>0, <1>1, <2>1, StorageAssumption DEF TypeOK, SessionOK,
       TransferConsistent, Modes, SD_INIT_FAIL, SD_UHS_SDR104,
       SD_DEFAULT_SPEED, Initializing, TryFails, sdVars, handle, host,
       hwVars, history, slot
  <2>3. StackOK' /\ SessionOK' /\ HandleBacked'
    BY <1>0, <1>1, StorageAssumption DEF TypeOK, StackOK, SessionOK,
       HandleBacked, TransferConsistent, Idle, Identifying, Initializing,
       Transferring, SD_INIT_FAIL, SD_UHS_SDR104, SD_DEFAULT_SPEED,
       TryFails, sdVars, handle, host, hwVars, history, slot
  <2>4. TransferConsistent' /\ ReadWhole'
    BY <1>0, <1>1, StorageAssumption DEF TypeOK, StackOK,
       TransferConsistent, ReadWhole, Idle, Identifying, Initializing,
       TryFails, sdVars, handle, host, hwVars, history, slot
  <2> QED  BY <2>2, <2>3, <2>4 DEF IInv
<1>2. CASE HandleIoError
  <2>1. Flags'
    BY <1>0, <1>2, Zenon DEF TypeOK, Flags, HandleIoError, sdVars, handle,
       host, hwVars, xferVars, history, slot
  <2>2. TypeOK'
    BY <1>0, <1>2, <2>1, StorageAssumption DEF TypeOK, SessionOK,
       TransferConsistent, Modes, SD_INIT_FAIL, SD_UHS_SDR104,
       SD_DEFAULT_SPEED, Initializing, HandleIoError, sdVars, handle, host,
       hwVars, xferVars, history, slot
  <2>3. StackOK' /\ SessionOK' /\ HandleBacked'
    BY <1>0, <1>2, StorageAssumption DEF TypeOK, StackOK, SessionOK,
       HandleBacked, TransferConsistent, Idle, Identifying, Initializing,
       Transferring, SD_INIT_FAIL, SD_UHS_SDR104, SD_DEFAULT_SPEED,
       HandleIoError, sdVars, handle, host, hwVars, xferVars, history, slot
  <2>4. TransferConsistent' /\ ReadWhole'
    BY <1>0, <1>2, StorageAssumption DEF TypeOK, StackOK,
       TransferConsistent, ReadWhole, Idle, Identifying, Initializing,
       HandleIoError, sdVars, handle, host, hwVars, xferVars, history, slot
  <2> QED  BY <2>2, <2>3, <2>4 DEF IInv
<1>3. CASE Reinit
  <2>1. Flags'
    BY <1>0, <1>3, Zenon DEF TypeOK, Flags, Reinit, ReinitReturned,
       RestartTransfer, sdVars, handle, host, hwVars, history, slot
  <2>2. TypeOK'
    BY <1>0, <1>3, <2>1, StorageAssumption DEF TypeOK, SessionOK,
       TransferConsistent, Modes, SD_INIT_FAIL, SD_UHS_SDR104,
       SD_DEFAULT_SPEED, Initializing, Reinit, ReinitReturned,
       RestartTransfer, sdVars, handle, host, hwVars, history, slot
  <2>3. StackOK' /\ SessionOK' /\ HandleBacked'
    BY <1>0, <1>3, StorageAssumption DEF TypeOK, StackOK, SessionOK,
       HandleBacked, TransferConsistent, Idle, Identifying, Initializing,
       Transferring, SD_INIT_FAIL, SD_UHS_SDR104, SD_DEFAULT_SPEED, Reinit,
       ReinitReturned, RestartTransfer, sdVars, handle, host, hwVars,
       history, slot
  <2>4. TransferConsistent' /\ ReadWhole'
    BY <1>0, <1>3, StorageAssumption DEF TypeOK, StackOK,
       TransferConsistent, ReadWhole, Idle, Identifying, Initializing,
       Reinit, ReinitReturned, RestartTransfer, sdVars, handle, host,
       hwVars, history, slot
  <2> QED  BY <2>2, <2>3, <2>4 DEF IInv
<1>4. CASE ReadFails
  <2>1. Flags'
    BY <1>0, <1>4, Zenon DEF TypeOK, Flags, ReadFails, ReinitReturned,
       Return, sdVars, handle, host, hwVars, xferVars, slot
  <2>5. last' = last \/ last' = [request |-> req, ok |-> FALSE]
    BY <1>4, Zenon DEF ReadFails, Return
  <2>6. last' \in [request : Nat \X Nat, ok : BOOLEAN]
    <3>1. CASE last' = last  BY <1>0, <3>1 DEF TypeOK
    <3>2. CASE last' = [request |-> req, ok |-> FALSE]  BY <1>0, <3>2 DEF
       TypeOK
    <3> QED  BY <2>5, <3>1, <3>2
  <2>2. TypeOK'
    BY <1>0, <1>4, <2>1, <2>6, StorageAssumption DEF TypeOK, SessionOK,
       TransferConsistent, Modes, SD_INIT_FAIL, SD_UHS_SDR104,
       SD_DEFAULT_SPEED, Initializing, ReadFails, ReinitReturned, Return,
       sdVars, handle, host, hwVars, xferVars, slot
  <2>3. StackOK' /\ SessionOK' /\ HandleBacked'
    BY <1>0, <1>4, StorageAssumption DEF TypeOK, StackOK, SessionOK,
       HandleBacked, TransferConsistent, Idle, Identifying, Initializing,
       Transferring, SD_INIT_FAIL, SD_UHS_SDR104, SD_DEFAULT_SPEED,
       ReadFails, ReinitReturned, Return, sdVars, handle, host, hwVars,
       xferVars, slot
  <2>4. TransferConsistent' /\ ReadWhole'
    BY <1>0, <1>4, StorageAssumption DEF TypeOK, StackOK,
       TransferConsistent, ReadWhole, Idle, Identifying, Initializing,
       ReadFails, ReinitReturned, Return, sdVars, handle, host, hwVars,
       xferVars, slot
  <2> QED  BY <2>2, <2>3, <2>4 DEF IInv
<1> QED  BY <1>1, <1>2, <1>3, <1>4

(* Steps: the calls of main.c. *)
LEMMA CallInv ==
    ASSUME IInv, sd_mount \/ MountInitialized \/ f_mount \/
           sdmmc_storage_read \/ sd_end
    PROVE  IInv'
<1>0. /\ TypeOK /\ StackOK /\ SessionOK
      /\ TransferConsistent /\ ReadWhole /\ HandleBacked
  BY DEF IInv
<1>1. CASE sd_mount
  <2>1. Flags'
    BY <1>0, <1>1, Zenon DEF TypeOK, Flags, sd_mount, sdVars, handle, host,
       hwVars, xferVars, history, slot
  <2>2. TypeOK'
    BY <1>0, <1>1, <2>1, StorageAssumption DEF TypeOK, SessionOK,
       TransferConsistent, Modes, SD_INIT_FAIL, SD_UHS_SDR104,
       SD_DEFAULT_SPEED, Initializing, sd_mount, sdVars, handle, host,
       hwVars, xferVars, history, slot
  <2>3. StackOK' /\ SessionOK' /\ HandleBacked'
    BY <1>0, <1>1, StorageAssumption DEF TypeOK, StackOK, SessionOK,
       HandleBacked, TransferConsistent, Idle, Identifying, Initializing,
       Transferring, SD_INIT_FAIL, SD_UHS_SDR104, SD_DEFAULT_SPEED,
       sd_mount, sdVars, handle, host, hwVars, xferVars, history, slot
  <2>4. TransferConsistent' /\ ReadWhole'
    BY <1>0, <1>1, StorageAssumption DEF TypeOK, StackOK,
       TransferConsistent, ReadWhole, Idle, Identifying, Initializing,
       sd_mount, sdVars, handle, host, hwVars, xferVars, history, slot
  <2> QED  BY <2>2, <2>3, <2>4 DEF IInv
<1>2. CASE MountInitialized
  <2>1. Flags'
    BY <1>0, <1>2, Zenon DEF TypeOK, Flags, MountInitialized, sdVars,
       handle, host, hwVars, xferVars, history, slot
  <2>2. TypeOK'
    BY <1>0, <1>2, <2>1, StorageAssumption DEF TypeOK, SessionOK,
       TransferConsistent, Modes, SD_INIT_FAIL, SD_UHS_SDR104,
       SD_DEFAULT_SPEED, Initializing, MountInitialized, sdVars, handle,
       host, hwVars, xferVars, history, slot
  <2>3. StackOK' /\ SessionOK' /\ HandleBacked'
    BY <1>0, <1>2, StorageAssumption DEF TypeOK, StackOK, SessionOK,
       HandleBacked, TransferConsistent, Idle, Identifying, Initializing,
       Transferring, SD_INIT_FAIL, SD_UHS_SDR104, SD_DEFAULT_SPEED,
       MountInitialized, sdVars, handle, host, hwVars, xferVars, history,
       slot
  <2>4. TransferConsistent' /\ ReadWhole'
    BY <1>0, <1>2, StorageAssumption DEF TypeOK, StackOK,
       TransferConsistent, ReadWhole, Idle, Identifying, Initializing,
       MountInitialized, sdVars, handle, host, hwVars, xferVars, history,
       slot
  <2> QED  BY <2>2, <2>3, <2>4 DEF IInv
<1>3. CASE f_mount
  <2>1. Flags'
    BY <1>0, <1>3, Zenon DEF TypeOK, Flags, f_mount, handle, host, hwVars,
       xferVars, history, slot
  <2>2. TypeOK'
    BY <1>0, <1>3, <2>1, StorageAssumption DEF TypeOK, SessionOK,
       TransferConsistent, Modes, SD_INIT_FAIL, SD_UHS_SDR104,
       SD_DEFAULT_SPEED, Initializing, f_mount, handle, host, hwVars,
       xferVars, history, slot
  <2>3. StackOK' /\ SessionOK' /\ HandleBacked'
    BY <1>0, <1>3, StorageAssumption DEF TypeOK, StackOK, SessionOK,
       HandleBacked, TransferConsistent, Idle, Identifying, Initializing,
       Transferring, SD_INIT_FAIL, SD_UHS_SDR104, SD_DEFAULT_SPEED, f_mount,
       handle, host, hwVars, xferVars, history, slot
  <2>4. TransferConsistent' /\ ReadWhole'
    BY <1>0, <1>3, StorageAssumption DEF TypeOK, StackOK,
       TransferConsistent, ReadWhole, Idle, Identifying, Initializing,
       f_mount, handle, host, hwVars, xferVars, history, slot
  <2> QED  BY <2>2, <2>3, <2>4 DEF IInv
<1>4. CASE sdmmc_storage_read
  <2>1. Flags'
    BY <1>0, <1>4, Zenon DEF TypeOK, Flags, sdmmc_storage_read, sdVars,
       handle, host, hwVars, xferVars, history, slot
  <2>2. TypeOK'
    BY <1>0, <1>4, <2>1, StorageAssumption DEF TypeOK, SessionOK,
       TransferConsistent, Modes, SD_INIT_FAIL, SD_UHS_SDR104,
       SD_DEFAULT_SPEED, Initializing, sdmmc_storage_read, sdVars, handle,
       host, hwVars, xferVars, history, slot
  <2>3. StackOK' /\ SessionOK' /\ HandleBacked'
    BY <1>0, <1>4, StorageAssumption DEF TypeOK, StackOK, SessionOK,
       HandleBacked, TransferConsistent, Idle, Identifying, Initializing,
       Transferring, SD_INIT_FAIL, SD_UHS_SDR104, SD_DEFAULT_SPEED,
       sdmmc_storage_read, sdVars, handle, host, hwVars, xferVars, history,
       slot
  <2>4. TransferConsistent' /\ ReadWhole'
    BY <1>0, <1>4, StorageAssumption DEF TypeOK, StackOK,
       TransferConsistent, ReadWhole, Idle, Identifying, Initializing,
       sdmmc_storage_read, sdVars, handle, host, hwVars, xferVars, history,
       slot
  <2> QED  BY <2>2, <2>3, <2>4 DEF IInv
<1>5. CASE sd_end
  <2>1. Flags'
    BY <1>0, <1>5, Zenon DEF TypeOK, Flags, sd_end, StorageEnd, EndOk,
       EndFails, host, slot, xferVars, history
  <2>2. TypeOK'
    BY <1>0, <1>5, <2>1, StorageAssumption DEF TypeOK, SessionOK,
       TransferConsistent, Modes, SD_INIT_FAIL, SD_UHS_SDR104,
       SD_DEFAULT_SPEED, Initializing, sd_end, StorageEnd, EndOk, EndFails,
       host, slot, xferVars, history
  <2>3. StackOK' /\ SessionOK' /\ HandleBacked'
    BY <1>0, <1>5, StorageAssumption DEF TypeOK, StackOK, SessionOK,
       HandleBacked, TransferConsistent, Idle, Identifying, Initializing,
       Transferring, SD_INIT_FAIL, SD_UHS_SDR104, SD_DEFAULT_SPEED, sd_end,
       StorageEnd, EndOk, EndFails, host, slot, xferVars, history
  <2>4. TransferConsistent' /\ ReadWhole'
    BY <1>0, <1>5, StorageAssumption DEF TypeOK, StackOK,
       TransferConsistent, ReadWhole, Idle, Identifying, Initializing,
       sd_end, StorageEnd, EndOk, EndFails, host, slot, xferVars, history
  <2> QED  BY <2>2, <2>3, <2>4 DEF IInv
<1> QED  BY <1>1, <1>2, <1>3, <1>4, <1>5

LEMMA ReadBeginInv ==
    ASSUME IInv, NEW r \in Requests \cup {<<0, 1>>}, ReadBegin(r),
           (op = "read" /\ r \in Requests) \/ op = "mount"
    PROVE  IInv'
<1>0. /\ TypeOK /\ StackOK /\ SessionOK
      /\ TransferConsistent /\ ReadWhole /\ HandleBacked
  BY DEF IInv
<1>1. r \in Nat \X (Nat \ {0})  BY StorageAssumption
<1>2. /\ req' = r /\ req' \in Nat \X Nat
      /\ sct_off' = r[1] /\ sct_total' = r[2] /\ bbuf' = 0
      /\ first_reinit' = TRUE /\ retries' = RETRIES /\ fresh' = {}
      /\ up0' = initialized /\ cnt0' = sec_cnt
      /\ UNCHANGED <<sd_mode, sd_init_done, sd_mounted, insertion_event,
                     initialized, sec_cnt, clock_stopped, card_clock_enabled,
                     inserted, card_cnt, power, card, caller, power_cycle>>
  BY <1>1 DEF ReadBegin, sdVars, handle, host, hwVars, slot
<1>3. CASE Refused(r) /\ op = "mount"
  <2>1. res' = FALSE /\ pc' = "f_mount" /\ UNCHANGED <<op, last>>
    BY <1>3 DEF ReadBegin, Return
  <2>2. Flags'  BY <1>0, <1>2, <2>1, Zenon DEF TypeOK, Flags
  <2>3. TypeOK'  BY <1>0, <1>1, <1>2, <2>1, <2>2, StorageAssumption DEF TypeOK
  <2>4. StackOK' /\ SessionOK' /\ HandleBacked'
    BY <1>0, <1>2, <1>3, <2>1 DEF TypeOK, StackOK, SessionOK, HandleBacked,
       ReadBegin, Idle, Initializing, Identifying, Transferring
  <2>5. TransferConsistent' /\ ReadWhole'
    BY <2>1 DEF TransferConsistent, ReadWhole
  <2> QED  BY <2>3, <2>4, <2>5 DEF IInv
<1>4. CASE Refused(r) /\ op = "read"
  <2>1. /\ res' = FALSE /\ pc' = "idle" /\ op' = "none"
        /\ last' = [request |-> r, ok |-> FALSE]
    BY <1>4 DEF ReadBegin, Return
  <2>2. Flags'  BY <1>0, <1>2, <2>1, Zenon DEF TypeOK, Flags
  <2>3. last' \in [request : Nat \X Nat, ok : BOOLEAN] /\ last'.ok = FALSE
    BY <1>1, <2>1
  <2>4. TypeOK'
    BY <1>0, <1>1, <1>2, <2>1, <2>2, <2>3, StorageAssumption DEF TypeOK
  <2>5. StackOK' /\ SessionOK' /\ HandleBacked'
    BY <1>0, <1>2, <1>4, <2>1 DEF TypeOK, StackOK, SessionOK, HandleBacked,
       ReadBegin, Idle, Initializing, Identifying, Transferring
  <2>6. TransferConsistent' /\ ReadWhole'
    BY <2>1, <2>3 DEF TransferConsistent, ReadWhole
  <2> QED  BY <2>4, <2>5, <2>6 DEF IInv
<1>5. CASE ~Refused(r)
  <2>1. /\ pc' = "rw" /\ UNCHANGED <<res, op, last>>
    BY <1>5 DEF ReadBegin
  <2>2. Flags'  BY <1>0, <1>2, <2>1, Zenon DEF TypeOK, Flags
  <2>3. TypeOK'  BY <1>0, <1>1, <1>2, <2>1, <2>2, StorageAssumption DEF TypeOK
  <2>4. initialized /\ r[1] + r[2] <= sec_cnt
    BY <1>0, <1>1, <1>5, StorageAssumption DEF Refused, TypeOK, Flags
  <2>5. StackOK' /\ SessionOK' /\ HandleBacked'
    BY <1>0, <1>2, <2>1, <2>4 DEF TypeOK, StackOK, SessionOK, HandleBacked,
       ReadBegin, Idle, Initializing, Identifying, Transferring
  <2>6. TransferConsistent' /\ ReadWhole'
    BY <1>1, <1>2, <2>1, StorageAssumption DEF TransferConsistent, ReadWhole
  <2> QED  BY <2>3, <2>5, <2>6 DEF IInv
<1> QED  BY <1>3, <1>4, <1>5

(* One attempt moves the offset, the remainder and the buffer together.    *)
LEMMA TryOkInv ==
    ASSUME IInv, TryOk
    PROVE  IInv'
<1>0. /\ TypeOK /\ StackOK /\ SessionOK
      /\ TransferConsistent /\ ReadWhole /\ HandleBacked
  BY DEF IInv
<1>1. /\ pc = "rw" /\ req \in Nat \X Nat /\ sct_off \in Nat /\ sct_total \in Nat \ {0}
      /\ bbuf \in Nat /\ fresh \subseteq Nat
      /\ sct_off = req[1] + bbuf /\ bbuf + sct_total = req[2]
      /\ 0 .. (bbuf - 1) \subseteq fresh
  BY <1>0 DEF TryOk, TypeOK, TransferConsistent
<1>2. Chunk \in 1 .. sct_total
  BY <1>1, StorageAssumption DEF Chunk, Smaller
<1>3. /\ sct_off' = sct_off + Chunk /\ sct_total' = sct_total - Chunk
      /\ bbuf' = bbuf + Chunk /\ retries' = RETRIES
      /\ UNCHANGED <<sd_mode, sd_init_done, sd_mounted, insertion_event,
                     initialized, sec_cnt, clock_stopped, card_clock_enabled,
                     inserted, card_cnt, power, card, caller, power_cycle, req,
                     first_reinit, up0, cnt0>>
      /\ fresh' = (fresh \ Filled) \cup FilledRight
  BY DEF TryOk, sdVars, handle, host, hwVars, slot
<1>4. Filled = bbuf .. (bbuf + Chunk - 1)
  <2>1. ASSUME NEW b \in bbuf .. (bbuf + Chunk - 1) PROVE b \in Filled
    <3>1. b - bbuf \in 0 .. (Chunk - 1) /\ b = bbuf + (b - bbuf)
      BY <1>1, <1>2
    <3> QED  BY <3>1 DEF Filled
  <2>2. ASSUME NEW b \in Filled PROVE b \in bbuf .. (bbuf + Chunk - 1)
    BY <1>1, <1>2 DEF Filled
  <2> QED  BY <2>1, <2>2
<1>5. FilledRight = Filled
  BY <1>1, <1>2, <1>4 DEF FilledRight
<1> HIDE DEF Chunk
<1>6. 0 .. (bbuf' - 1) \subseteq fresh' /\ fresh' \subseteq Nat
  BY <1>1, <1>2, <1>3, <1>4, <1>5
<1>7. CASE sct_total' # 0
  <2>1. UNCHANGED <<pc, op, res, last>>  BY <1>7 DEF TryOk
  <2>2. Flags'  BY <1>0, <1>3, <2>1, Zenon DEF TypeOK, Flags
  <2>3. TypeOK'
    BY <1>0, <1>1, <1>2, <1>3, <1>6, <2>1, <2>2, StorageAssumption DEF TypeOK
  <2>4. StackOK' /\ SessionOK' /\ HandleBacked'
    BY <1>0, <1>1, <1>3, <2>1 DEF StackOK, SessionOK, HandleBacked,
       Idle, Initializing, Identifying, Transferring
  <2>5. TransferConsistent' /\ ReadWhole'
    BY <1>1, <1>2, <1>3, <1>6, <1>7, <2>1, StorageAssumption
       DEF TransferConsistent, ReadWhole
  <2> QED  BY <2>3, <2>4, <2>5 DEF IInv
<1>8. CASE sct_total' = 0 /\ op = "mount"
  <2>1. res' = TRUE /\ pc' = "f_mount" /\ UNCHANGED <<op, last>>
    BY <1>8 DEF TryOk, Return
  <2>2. Flags'  BY <1>0, <1>3, <2>1, Zenon DEF TypeOK, Flags
  <2>3. TypeOK'
    BY <1>0, <1>1, <1>2, <1>3, <1>6, <2>1, <2>2, StorageAssumption DEF TypeOK
  <2>4. StackOK' /\ SessionOK' /\ HandleBacked'
    BY <1>0, <1>1, <1>3, <1>8, <2>1 DEF StackOK, SessionOK, HandleBacked,
       Idle, Initializing, Identifying, Transferring
  <2>5. TransferConsistent' /\ ReadWhole'
    BY <2>1 DEF TransferConsistent, ReadWhole
  <2> QED  BY <2>3, <2>4, <2>5 DEF IInv
<1>9. CASE sct_total' = 0 /\ op # "mount"
  <2>1. /\ res' = TRUE /\ pc' = "idle" /\ op' = "none"
        /\ last' = [request |-> req, ok |-> TRUE]
    BY <1>9 DEF TryOk, Return
  <2>2. Flags'  BY <1>0, <1>3, <2>1, Zenon DEF TypeOK, Flags
  <2>3. last' \in [request : Nat \X Nat, ok : BOOLEAN]
    BY <1>1, <2>1
  <2>4. TypeOK'
    BY <1>0, <1>1, <1>2, <1>3, <1>6, <2>1, <2>2, <2>3, StorageAssumption DEF
       TypeOK
  <2>5. StackOK' /\ SessionOK' /\ HandleBacked'
    BY <1>0, <1>1, <1>3, <1>9, <2>1 DEF StackOK, SessionOK, HandleBacked,
       Idle, Initializing, Identifying, Transferring
  <2>6. bbuf' = req[2] /\ last'.request = req
    BY <1>1, <1>2, <1>3, <1>9, <2>1
  <2>7. TransferConsistent' /\ ReadWhole'
    BY <1>6, <2>1, <2>6 DEF TransferConsistent, ReadWhole
  <2> QED  BY <2>4, <2>5, <2>7 DEF IInv
<1> QED  BY <1>7, <1>8, <1>9

LEMMA InitInvariant == Init => IInv
<1> SUFFICES ASSUME Init PROVE IInv
  OBVIOUS
<1>1. Flags  BY Zenon DEF Init, Flags
<1>2. TypeOK
  BY <1>1 DEF Init, TypeOK, Modes, SD_INIT_FAIL, SD_UHS_SDR104,
     SD_DEFAULT_SPEED
<1>3. StackOK /\ SessionOK /\ HandleBacked
  BY DEF Init, StackOK, SessionOK, HandleBacked, Idle, Initializing,
     Identifying, Transferring
<1>4. TransferConsistent /\ ReadWhole
  BY DEF Init, TransferConsistent, ReadWhole
<1> QED  BY <1>2, <1>3, <1>4 DEF IInv

LEMMA StepInv ==
    ASSUME IInv, [Next]_vars
    PROVE  IInv'
<1>1. CASE Remove \/ Insert  BY <1>1, HardwareInv
<1>2. CASE Init_sd  BY <1>2, InitInv DEF Init_sd
<1>3. CASE Ladder  BY <1>3, LadderInv DEF Ladder
<1>4. CASE Transfer
  <2>1. ASSUME NEW r \in Requests, op = "read", ReadBegin(r) PROVE IInv'
    BY <2>1, ReadBeginInv
  <2>2. ASSUME op = "mount", ReadBegin(<<0, 1>>) PROVE IInv'
    BY <2>2, ReadBeginInv
  <2> QED  BY <1>4, <2>1, <2>2, TryOkInv, TransferInv DEF Transfer
<1>5. CASE Mounting \/ sd_mount \/ sdmmc_storage_read \/ sd_end
  BY <1>5, CallInv DEF Mounting
<1>6. CASE UNCHANGED vars
  <2>1. Flags'
    BY <1>6, Zenon DEF IInv, TypeOK, Flags, vars, sdVars, handle, host, hwVars,
       slot, control, xferVars, history
  <2>2. TypeOK' /\ StackOK' /\ SessionOK' /\ HandleBacked'
    BY <1>6, <2>1 DEF IInv, TypeOK, StackOK, SessionOK, HandleBacked, vars,
       sdVars, handle, host, hwVars, slot, control, xferVars, history
  <2>3. TransferConsistent' /\ ReadWhole'
    BY <1>6 DEF IInv, TransferConsistent, ReadWhole, vars, control, xferVars,
       history
  <2> QED  BY <2>2, <2>3 DEF IInv
<1> QED  BY <1>1, <1>2, <1>3, <1>4, <1>5, <1>6 DEF Next, Running, User

THEOREM Invariance == Spec => []IInv
<1>1. Init => IInv  BY InitInvariant
<1>2. IInv /\ [Next]_vars => IInv'  BY StepInv
<1> QED  BY <1>1, <1>2, PTL DEF Spec

(* The variables have their types; sd_mode, which sd_init_retry counts     *)
(* down, never leaves the ladder.                                          *)
THEOREM TypeCorrect == Spec => []TypeOK
<1>1. IInv => TypeOK  BY DEF IInv
<1> QED  BY <1>1, Invariance, PTL

(* A read of sdmmc_storage_read that returns 1 has filled the caller's     *)
(* buffer in one session, and an initialized handle has a running host and *)
(* a powered slot that sd_end will shut down.                              *)
THEOREM SessionIsSound == Spec => []SessionSound
<1>1. IInv => SessionSound  BY DEF IInv, SessionSound
<1> QED  BY <1>1, Invariance, PTL

(***************************************************************************)
(* The refinement.                                                         *)
(***************************************************************************)
(* The variables of StorageSpec, as upSeen, cntSeen and phase map them.    *)
seen == <<upSeen, cntSeen, last, phase>>

(* Whatever a call does inside is hidden from its caller.                  *)
LEMMA Hidden ==
    ASSUME IInv, op' = op, UNCHANGED <<up0, cnt0, last, sd_mounted>>,
           op \in {"mount", "read"}, pc \notin {"rw_begin", "boot", "ended"},
           pc' \notin {"rw_begin", "boot", "ended"}
    PROVE  UNCHANGED seen
BY DEF seen, upSeen, cntSeen, phase

LEMMA InnerSteps ==
    ASSUME IInv, Init_sd \/ Ladder \/ TryFails \/ HandleIoError \/ Reinit
    PROVE  UNCHANGED seen
<1>1. /\ op' = op /\ UNCHANGED <<up0, cnt0, last, sd_mounted>>
  BY DEF Init_sd, Ladder, InitRetry, InitHost, HostAbsent, HostStarts,
     InitFails, InitGivenUp, InitIdent, CardIdentified, InitCsd, InitBus,
     CardReady, Initialize, InitializeOk, InitializeLower, InitializeGiveUp,
     TryFails, HandleIoError, Reinit, sdVars, control, history
<1>2. pc \in Initializing \cup Transferring /\ pc' \in Initializing \cup Transferring
  BY DEF Init_sd, Ladder, InitRetry, InitHost, HostAbsent, HostStarts,
     InitFails, InitGivenUp, InitIdent, CardIdentified, InitCsd, InitBus,
     CardReady, InitReturn, Initialize, InitializeOk, InitializeLower,
     InitializeGiveUp, TryFails, HandleIoError, Reinit, ReinitReturned,
     Initializing, Transferring, Identifying
<1>3. op \in {"mount", "read"}
  BY <1>2 DEF IInv, TypeOK, StackOK, Idle, Initializing, Transferring,
     Identifying
<1> QED
  BY <1>1, <1>2, <1>3, Hidden DEF Initializing, Transferring, Identifying

(* A read that returns, whatever happened to the handle on the way.        *)
LEMMA Returning ==
    ASSUME IInv, IInv', NEW ok \in BOOLEAN, op = "read", pc # "rw_begin",
           pc' = "idle", op' = "none", last' = [request |-> req, ok |-> ok],
           UNCHANGED <<sd_mounted, initialized, sec_cnt>>, ok => initialized
    PROVE  API!SpecNext
<1>1. /\ req \in Requests /\ up0 /\ req[1] + req[2] <= cnt0 /\ sd_mounted
      /\ pc \notin {"boot", "ended"}
  BY DEF IInv, StackOK, Idle
<1>2. /\ upSeen = up0 /\ cntSeen = cnt0 /\ phase = "mounted"
      /\ upSeen' = initialized /\ cntSeen' = sec_cnt /\ phase' = "mounted"
  BY <1>1 DEF upSeen, cntSeen, phase
<1>3. initialized \in BOOLEAN /\ sec_cnt \in Counts \cup {0}
      /\ (initialized => sec_cnt \in Counts)
  BY DEF IInv, TypeOK, Flags, HandleBacked
<1>4. API!Read(req[1], req[2], ok)
  BY <1>1, <1>2, <1>3 DEF API!Read, API!ReadOk, API!ReadFail, API!Fits
<1>5. API!SpecRead(req, ok)
  BY <1>2, <1>4 DEF API!SpecRead
<1> QED  BY <1>1, <1>5 DEF API!SpecNext

LEMMA ReadBeginSteps ==
    ASSUME IInv, NEW r, ReadBegin(r),
           (op = "read" /\ r \in Requests) \/ op = "mount"
    PROVE  [API!SpecNext]_seen
<1>1. pc = "rw_begin" /\ UNCHANGED <<sd_mounted, initialized, sec_cnt>>
      /\ up0' = initialized /\ cnt0' = sec_cnt
  BY DEF ReadBegin, sdVars, handle
<1>2. CASE op = "mount"
  BY <1>1, <1>2 DEF ReadBegin, Return, seen, upSeen, cntSeen, phase
<1>3. CASE op = "read" /\ r \in Requests /\ ~Refused(r)
  BY <1>1, <1>3 DEF ReadBegin, seen, upSeen, cntSeen, phase
<1>4. CASE op = "read" /\ r \in Requests /\ Refused(r)
  <2>1. pc' = "idle" /\ op' = "none" /\ last' = [request |-> r, ok |-> FALSE]
    BY <1>4 DEF ReadBegin, Return
  <2>2. sd_mounted  BY <1>4 DEF IInv, StackOK
  <2>3. /\ upSeen = initialized /\ cntSeen = sec_cnt /\ phase = "mounted"
        /\ upSeen' = initialized /\ cntSeen' = sec_cnt /\ phase' = "mounted"
    BY <1>1, <1>4, <2>1, <2>2 DEF upSeen, cntSeen, phase
  <2>4. ~API!Fits(r[1], r[2])
    BY <1>4, <2>3, StorageAssumption DEF API!Fits, Refused, IInv, TypeOK
  <2>5. API!Read(r[1], r[2], FALSE)
    BY <2>3, <2>4 DEF API!Read, API!ReadFail
  <2>6. API!SpecRead(r, FALSE)
    BY <2>1, <2>3, <2>5 DEF API!SpecRead
  <2> QED  BY <1>4, <2>6 DEF API!SpecNext
<1> QED  BY <1>2, <1>3, <1>4

LEMMA MountSteps ==
    ASSUME IInv, IInv', Mounting
    PROVE  [API!SpecNext]_seen
<1>1. /\ op = "mount" /\ ~sd_mounted /\ UNCHANGED <<initialized, sec_cnt, last>>
      /\ pc' \notin {"boot", "ended"}
  BY DEF Mounting, MountInitialized, f_mount, IInv, StackOK, Initializing,
     Identifying, sdVars, handle, history
<1>2. CASE op' = "mount"
  BY <1>1, <1>2 DEF seen, upSeen, cntSeen, phase
<1>3. CASE op' # "mount"
  <2>1. op' = "none" /\ pc' = "idle"
    BY <1>1, <1>3 DEF Mounting, MountInitialized, f_mount
  <2>2. /\ phase = "boot" /\ upSeen' = initialized /\ cntSeen' = sec_cnt
        /\ phase' = IF sd_mounted' THEN "mounted" ELSE "unmounted"
    BY <1>1, <2>1 DEF upSeen, cntSeen, phase
  <2>3. initialized \in BOOLEAN /\ sec_cnt \in Counts \cup {0}
        /\ (initialized => sec_cnt \in Counts)
    BY DEF IInv, TypeOK, Flags, HandleBacked
  <2>4. sd_mounted' => initialized
    BY <1>1 DEF Mounting, MountInitialized, f_mount, sdVars, IInv, SessionOK
  <2>5. CASE sd_mounted'
    <3>1. API!SpecMount(TRUE)
      BY <1>1, <2>2, <2>3, <2>4, <2>5 DEF API!SpecMount
    <3> QED  BY <3>1 DEF API!SpecNext
  <2>6. CASE ~sd_mounted'
    <3>1. API!SpecMount(FALSE)
      BY <1>1, <2>2, <2>3, <2>6 DEF API!SpecMount
    <3> QED  BY <3>1 DEF API!SpecNext
  <2> QED  BY <2>5, <2>6
<1> QED  BY <1>2, <1>3

LEMMA UserSteps ==
    ASSUME IInv, User
    PROVE  [API!SpecNext]_seen
<1>1. CASE Remove \/ Insert
  <2>1. UNCHANGED <<sd_mounted, initialized, sec_cnt, pc, op, up0, cnt0, last>>
    BY <1>1 DEF Remove, CardRemoved, Insert, CardInserted, sdVars, handle,
       control, history
  <2> QED  BY <2>1 DEF seen, upSeen, cntSeen, phase
<1>2. CASE sd_mount
  BY <1>2 DEF sd_mount, sdVars, handle, history, seen, upSeen, cntSeen, phase
<1>3. CASE sdmmc_storage_read
  <2>1. op = "none"  BY <1>3 DEF sdmmc_storage_read, IInv, StackOK, Idle
  <2> QED
    BY <1>3, <2>1 DEF sdmmc_storage_read, sdVars, handle, history, seen,
       upSeen, cntSeen, phase
<1>4. CASE sd_end
  <2>1. op = "none"  BY <1>4 DEF sd_end, IInv, StackOK, Idle
  <2>2. pc = "idle" /\ pc' = "ended" /\ UNCHANGED <<op, sec_cnt, last>>
    BY <1>4 DEF sd_end, history
  <2>3. initialized' \in {initialized, FALSE}
    BY <1>4 DEF sd_end, StorageEnd, EndOk, EndFails
  <2>4. /\ phase \in {"mounted", "unmounted"} /\ phase' = "ended"
        /\ upSeen = initialized /\ upSeen' = initialized' /\ cntSeen' = cntSeen
    BY <2>1, <2>2 DEF phase, upSeen, cntSeen
  <2>5. API!SpecEnd  BY <2>2, <2>3, <2>4 DEF API!SpecEnd
  <2> QED  BY <2>5 DEF API!SpecNext
<1> QED  BY <1>1, <1>2, <1>3, <1>4 DEF User

LEMMA ReturnSteps ==
    ASSUME IInv, IInv', TryOk \/ ReadFails
    PROVE  [API!SpecNext]_seen
<1>1. /\ pc \in Transferring \cup Initializing
      /\ UNCHANGED <<sd_mounted, initialized, sec_cnt, up0, cnt0>>
  BY DEF TryOk, ReadFails, ReinitReturned, sdVars, handle, Transferring,
     Initializing
<1>2. op \in {"mount", "read"}
  BY <1>1 DEF IInv, TypeOK, StackOK, Idle, Initializing, Transferring,
     Identifying
<1>3. CASE pc' = "idle"
  <2>1. op = "read" /\ op' = "none"
    BY <1>1, <1>2, <1>3 DEF TryOk, ReadFails, Return, Transferring,
       Initializing, Identifying
  <2>2. CASE TryOk
    <3>1. last' = [request |-> req, ok |-> TRUE] /\ initialized
      BY <1>3, <2>1, <2>2 DEF TryOk, Return, IInv, SessionOK, Transferring
    <3> QED  BY <1>1, <1>3, <2>1, <3>1, Returning DEF Transferring,
       Initializing, Identifying
  <2>3. CASE ReadFails
    <3>1. last' = [request |-> req, ok |-> FALSE]
      BY <1>3, <2>1, <2>3 DEF ReadFails, Return
    <3> QED  BY <1>1, <1>3, <2>1, <3>1, Returning DEF Transferring,
       Initializing, Identifying
  <2> QED  BY <2>2, <2>3
<1>4. CASE pc' # "idle"
  <2>1. op' = op /\ last' = last /\ pc' \notin {"rw_begin", "boot", "ended"}
    BY <1>1, <1>2, <1>4 DEF TryOk, ReadFails, Return
  <2> QED
    BY <1>1, <1>2, <2>1, Hidden DEF Transferring, Initializing, Identifying
<1> QED  BY <1>3, <1>4

LEMMA StepImplements ==
    ASSUME IInv, IInv', [Next]_vars
    PROVE  [API!SpecNext]_seen
<1>1. CASE Init_sd \/ Ladder  BY <1>1, InnerSteps
<1>2. CASE Transfer
  BY <1>2, InnerSteps, ReturnSteps, ReadBeginSteps DEF Transfer
<1>3. CASE Mounting  BY <1>3, MountSteps
<1>4. CASE User  BY <1>4, UserSteps
<1>5. CASE UNCHANGED vars
  BY <1>5 DEF vars, sdVars, handle, control, history, seen, upSeen, cntSeen,
     phase
<1> QED  BY <1>1, <1>2, <1>3, <1>4, <1>5 DEF Next, Running

(* Seen from its callers, the retries, the ladder and the restarts of a    *)
(* transfer are StorageSpec: every call of main.c (sd_mount,               *)
(* sdmmc_storage_read, sd_end) is one of its steps, taken at the return.   *)
THEOREM ImplementsSpec == Spec => ImplementsStorageSpec
<1>1. Init => API!SpecInit
  BY DEF Init, API!SpecInit, API!NoRead, upSeen, cntSeen, phase
<1>2. IInv /\ [Next]_vars => [API!SpecNext]_(API!specVars)
  BY StepInv, StepImplements DEF seen, API!specVars
<1> QED
  BY <1>1, <1>2, Invariance, PTL DEF Spec, ImplementsStorageSpec,
     API!AbstractSpec

(***************************************************************************)
(* Images, and what changes them.                                          *)
(***************************************************************************)
Imgs == [fat : [Clusters -> Links], dir : [1 .. Slots -> DirEntries],
         data : [Clusters -> Sectorful]]

Put(d, s, x) == [d EXCEPT ![s] = x]

SetFat(v, c, x)  == [fat |-> Put(v.fat, c, x), dir |-> v.dir, data |-> v.data]
SetDir(v, i, x)  == [fat |-> v.fat, dir |-> Put(v.dir, i, x), data |-> v.data]
SetData(v, c, x) == [fat |-> v.fat, dir |-> v.dir, data |-> Put(v.data, c, x)]

IsDisk(d) == d = [s \in Sectors |-> d[s]] /\ \A s \in Sectors : Holds(s, d[s])
Mirrored(d) == \A s \in FatSectors : d[s] = d[Mirror(s)]

Windowed == FatSectors \cup DirSectors

(***************************************************************************)
(* Records of FatVolume.                                                   *)
(***************************************************************************)
Rec(disk0, win, winsect, wflag, last_clst, fsi_flag, res0, val, fuse, fault, off) ==
    [disk |-> disk0, win |-> win, winsect |-> winsect, wflag |-> wflag,
     last_clst |-> last_clst, fsi_flag |-> fsi_flag, res |-> res0, val |-> val,
     fuse |-> fuse, fault |-> fault, off |-> off]
DiskOf(m) == m.disk
WinOf(m) == m.win
SectOf(m) == m.winsect
FlagOf(m) == m.wflag
HintOf(m) == m.last_clst
InfoOf(m) == m.fsi_flag
ResOf(m) == m.res
ValOf(m) == m.val
FuseOf(m) == m.fuse
FaultOf(m) == m.fault
OffOf(m) == m.off

IsRec(m) ==
    m = Rec(DiskOf(m), WinOf(m), SectOf(m), FlagOf(m), HintOf(m), InfoOf(m), ResOf(m),
            ValOf(m), FuseOf(m), FaultOf(m), OffOf(m))

Shaped(m) ==
    /\ IsRec(m) /\ OffOf(m) \in BOOLEAN /\ FuseOf(m) \in -1 .. 3
    /\ FaultOf(m) \in {"none", "lost", "done", "power"}
    /\ FaultOf(m) = "none" => FuseOf(m) = -1
    /\ HintOf(m) \in Int

Over(d, m) == IF FlagOf(m) THEN Put(d, SectOf(m), WinOf(m)) ELSE d
Card(m) == Img(DiskOf(m))
Seen(m) == Img(Over(DiskOf(m), m))

WindowSound(m) ==
    /\ SectOf(m) \in Sectors \cup {NoSector}
    /\ FlagOf(m) \in BOOLEAN
    /\ FlagOf(m) => SectOf(m) \in Windowed /\ Holds(SectOf(m), WinOf(m))
    /\ ~FlagOf(m) /\ SectOf(m) \in Windowed => WinOf(m) = DiskOf(m)[SectOf(m)]

SoundRec(m) == Shaped(m) /\ IsDisk(DiskOf(m)) /\ (~OffOf(m) => WindowSound(m))

(* From m to w the driver saw images of V, and the card holds one of them  *)
(* or still what it did.                                                   *)
Passes(m, w, V) ==
    /\ SoundRec(w)
    /\ Card(w) = Card(m) \/ (~OffOf(m) /\ Card(w) \in V)
    /\ ~OffOf(w) => ~OffOf(m) /\ Seen(w) \in V
    /\ FaultOf(w) = FaultOf(m)
    /\ FuseOf(m) = -1 => FuseOf(w) = -1 /\ OffOf(w) = OffOf(m)
    /\ FaultOf(m) = "none" /\ Mirrored(DiskOf(m)) => Mirrored(DiskOf(w))

(* What each update of a record leaves. *)
Fields(w, disk0, win, winsect, wflag, last_clst, fsi_flag, res0, val, fuse, fault, off) ==
    /\ IsRec(w)
    /\ DiskOf(w) = disk0 /\ WinOf(w) = win /\ SectOf(w) = winsect /\ FlagOf(w) = wflag
    /\ HintOf(w) = last_clst /\ InfoOf(w) = fsi_flag /\ ResOf(w) = res0 /\ ValOf(w) = val
    /\ FuseOf(w) = fuse /\ FaultOf(w) = fault /\ OffOf(w) = off

(* A record of FatVolume has the fields it was made of.                    *)
LEMMA RecFields ==
    ASSUME NEW d, NEW win, NEW s, NEW f, NEW l, NEW n, NEW r, NEW v, NEW u, NEW t, NEW o,
           NEW w, w = Rec(d, win, s, f, l, n, r, v, u, t, o)
    PROVE  Fields(w, d, win, s, f, l, n, r, v, u, t, o)
BY DEF Fields, Rec, IsRec, DiskOf, WinOf, SectOf, FlagOf, HintOf, InfoOf, ResOf, ValOf, FuseOf,
       FaultOf, OffOf

(* A record with another result is the same but for it.                    *)
LEMMA UpdOk ==
    ASSUME NEW m, IsRec(m), NEW w, w = Ok(m)
    PROVE  Fields(w, DiskOf(m), WinOf(m), SectOf(m), FlagOf(m), HintOf(m), InfoOf(m),
                  "OK", ValOf(m), FuseOf(m), FaultOf(m), OffOf(m))
<1>1. w = Rec(DiskOf(m), WinOf(m), SectOf(m), FlagOf(m), HintOf(m), InfoOf(m),
             "OK", ValOf(m), FuseOf(m), FaultOf(m), OffOf(m))
  BY DEF IsRec, Rec, Ok
<1> QED  BY <1>1, RecFields

(* A record with another result is the same but for it.                    *)
LEMMA UpdFail ==
    ASSUME NEW m, IsRec(m), NEW x, NEW w, w = Fail(m, x)
    PROVE  Fields(w, DiskOf(m), WinOf(m), SectOf(m), FlagOf(m), HintOf(m), InfoOf(m),
                  x, ValOf(m), FuseOf(m), FaultOf(m), OffOf(m))
<1>1. w = Rec(DiskOf(m), WinOf(m), SectOf(m), FlagOf(m), HintOf(m), InfoOf(m),
             x, ValOf(m), FuseOf(m), FaultOf(m), OffOf(m))
  BY DEF IsRec, Rec, Fail
<1> QED  BY <1>1, RecFields

(* A record with another fuse is the same but for it.                      *)
LEMMA UpdFuse ==
    ASSUME NEW m, IsRec(m), NEW x, NEW w, w = [m EXCEPT !.fuse = x]
    PROVE  Fields(w, DiskOf(m), WinOf(m), SectOf(m), FlagOf(m), HintOf(m), InfoOf(m),
                  ResOf(m), ValOf(m), x, FaultOf(m), OffOf(m))
<1>1. w = Rec(DiskOf(m), WinOf(m), SectOf(m), FlagOf(m), HintOf(m), InfoOf(m),
             ResOf(m), ValOf(m), x, FaultOf(m), OffOf(m))
  BY DEF IsRec, Rec
<1> QED  BY <1>1, RecFields

(* A record with another card is the same but for it.                      *)
LEMMA UpdDisk ==
    ASSUME NEW m, IsRec(m), NEW x, NEW w, w = [m EXCEPT !.disk = x]
    PROVE  Fields(w, x, WinOf(m), SectOf(m), FlagOf(m), HintOf(m), InfoOf(m),
                  ResOf(m), ValOf(m), FuseOf(m), FaultOf(m), OffOf(m))
<1>1. w = Rec(x, WinOf(m), SectOf(m), FlagOf(m), HintOf(m), InfoOf(m),
             ResOf(m), ValOf(m), FuseOf(m), FaultOf(m), OffOf(m))
  BY DEF IsRec, Rec
<1> QED  BY <1>1, RecFields

(* A record with another sector of the card is the same but for it.        *)
LEMMA UpdSector ==
    ASSUME NEW m, IsRec(m), NEW x, NEW y, NEW w, w = [m EXCEPT !.disk[x] = y]
    PROVE  Fields(w, Put(DiskOf(m), x, y), WinOf(m), SectOf(m), FlagOf(m), HintOf(m), InfoOf(m),
                  ResOf(m), ValOf(m), FuseOf(m), FaultOf(m), OffOf(m))
<1> PICK e : e = Put(DiskOf(m), x, y) OBVIOUS
<1>1. w = [m EXCEPT !.disk = e]  BY DEF DiskOf, Put
<1> QED  BY <1>1, UpdDisk

(* A record with another power is the same but for it.                     *)
LEMMA UpdOff ==
    ASSUME NEW m, IsRec(m), NEW x, NEW w, w = [m EXCEPT !.off = x]
    PROVE  Fields(w, DiskOf(m), WinOf(m), SectOf(m), FlagOf(m), HintOf(m), InfoOf(m),
                  ResOf(m), ValOf(m), FuseOf(m), FaultOf(m), x)
<1>1. w = Rec(DiskOf(m), WinOf(m), SectOf(m), FlagOf(m), HintOf(m), InfoOf(m),
             ResOf(m), ValOf(m), FuseOf(m), FaultOf(m), x)
  BY DEF IsRec, Rec
<1> QED  BY <1>1, RecFields

(* A record with another window's flag is the same but for it.             *)
LEMMA UpdFlag ==
    ASSUME NEW m, IsRec(m), NEW x, NEW w, w = [m EXCEPT !.wflag = x]
    PROVE  Fields(w, DiskOf(m), WinOf(m), SectOf(m), x, HintOf(m), InfoOf(m),
                  ResOf(m), ValOf(m), FuseOf(m), FaultOf(m), OffOf(m))
<1>1. w = Rec(DiskOf(m), WinOf(m), SectOf(m), x, HintOf(m), InfoOf(m),
             ResOf(m), ValOf(m), FuseOf(m), FaultOf(m), OffOf(m))
  BY DEF IsRec, Rec
<1> QED  BY <1>1, RecFields

(* A record with another window's sector is the same but for it.           *)
LEMMA UpdSect ==
    ASSUME NEW m, IsRec(m), NEW x, NEW w, w = [m EXCEPT !.winsect = x]
    PROVE  Fields(w, DiskOf(m), WinOf(m), x, FlagOf(m), HintOf(m), InfoOf(m),
                  ResOf(m), ValOf(m), FuseOf(m), FaultOf(m), OffOf(m))
<1>1. w = Rec(DiskOf(m), WinOf(m), x, FlagOf(m), HintOf(m), InfoOf(m),
             ResOf(m), ValOf(m), FuseOf(m), FaultOf(m), OffOf(m))
  BY DEF IsRec, Rec
<1> QED  BY <1>1, RecFields

(* A record with another window is the same but for it.                    *)
LEMMA UpdWin ==
    ASSUME NEW m, IsRec(m), NEW x, NEW w, w = [m EXCEPT !.win = x]
    PROVE  Fields(w, DiskOf(m), x, SectOf(m), FlagOf(m), HintOf(m), InfoOf(m),
                  ResOf(m), ValOf(m), FuseOf(m), FaultOf(m), OffOf(m))
<1>1. w = Rec(DiskOf(m), x, SectOf(m), FlagOf(m), HintOf(m), InfoOf(m),
             ResOf(m), ValOf(m), FuseOf(m), FaultOf(m), OffOf(m))
  BY DEF IsRec, Rec
<1> QED  BY <1>1, RecFields

(* A record with another window and its sector is the same but for it.     *)
LEMMA UpdWindow ==
    ASSUME NEW m, IsRec(m), NEW x, NEW y, NEW w, w = [m EXCEPT !.winsect = x, !.win = y]
    PROVE  Fields(w, DiskOf(m), y, x, FlagOf(m), HintOf(m), InfoOf(m),
                  ResOf(m), ValOf(m), FuseOf(m), FaultOf(m), OffOf(m))
<1> PICK a : a = [m EXCEPT !.winsect = x] OBVIOUS
<1>1. w = [a EXCEPT !.win = y]  OBVIOUS
<1>2. Fields(a, DiskOf(m), WinOf(m), x, FlagOf(m), HintOf(m), InfoOf(m),
             ResOf(m), ValOf(m), FuseOf(m), FaultOf(m), OffOf(m))
  BY UpdSect
<1>3. IsRec(a)  BY <1>2 DEF Fields
<1>4. Fields(w, DiskOf(a), y, SectOf(a), FlagOf(a), HintOf(a), InfoOf(a),
             ResOf(a), ValOf(a), FuseOf(a), FaultOf(a), OffOf(a))
  BY ONLY <1>1, <1>3, UpdWin
<1> QED  BY ONLY <1>2, <1>4 DEF Fields

(* A record with another value is the same but for it.                     *)
LEMMA UpdVal ==
    ASSUME NEW m, IsRec(m), NEW x, NEW w, w = [m EXCEPT !.val = x]
    PROVE  Fields(w, DiskOf(m), WinOf(m), SectOf(m), FlagOf(m), HintOf(m), InfoOf(m),
                  ResOf(m), x, FuseOf(m), FaultOf(m), OffOf(m))
<1>1. w = Rec(DiskOf(m), WinOf(m), SectOf(m), FlagOf(m), HintOf(m), InfoOf(m),
             ResOf(m), x, FuseOf(m), FaultOf(m), OffOf(m))
  BY DEF IsRec, Rec
<1> QED  BY <1>1, RecFields

(* A record with another FSInfo flag is the same but for it.               *)
LEMMA UpdInfo ==
    ASSUME NEW m, IsRec(m), NEW x, NEW w, w = [m EXCEPT !.fsi_flag = x]
    PROVE  Fields(w, DiskOf(m), WinOf(m), SectOf(m), FlagOf(m), HintOf(m), x,
                  ResOf(m), ValOf(m), FuseOf(m), FaultOf(m), OffOf(m))
<1>1. w = Rec(DiskOf(m), WinOf(m), SectOf(m), FlagOf(m), HintOf(m), x,
             ResOf(m), ValOf(m), FuseOf(m), FaultOf(m), OffOf(m))
  BY DEF IsRec, Rec
<1> QED  BY <1>1, RecFields

(* A record with another hint is the same but for it.                      *)
LEMMA UpdHint ==
    ASSUME NEW m, IsRec(m), NEW x, NEW w, w = [m EXCEPT !.last_clst = x]
    PROVE  Fields(w, DiskOf(m), WinOf(m), SectOf(m), FlagOf(m), x, InfoOf(m),
                  ResOf(m), ValOf(m), FuseOf(m), FaultOf(m), OffOf(m))
<1>1. w = Rec(DiskOf(m), WinOf(m), SectOf(m), FlagOf(m), x, InfoOf(m),
             ResOf(m), ValOf(m), FuseOf(m), FaultOf(m), OffOf(m))
  BY DEF IsRec, Rec
<1> QED  BY <1>1, RecFields

(* What an access does. *)
LEMMA BurnShape ==
    ASSUME NEW m, Shaped(m), NEW b, b = Burn(m)
    PROVE  /\ IsRec(b) /\ FuseOf(b) \in -1 .. 3
           /\ FuseOf(m) = -1 => FuseOf(b) = -1
           /\ FaultOf(m) = "none" => FuseOf(b) = -1
           /\ DiskOf(b) = DiskOf(m) /\ WinOf(b) = WinOf(m) /\ SectOf(b) = SectOf(m)
           /\ FlagOf(b) = FlagOf(m) /\ HintOf(b) = HintOf(m) /\ InfoOf(b) = InfoOf(m)
           /\ ResOf(b) = ResOf(m) /\ ValOf(b) = ValOf(m)
           /\ FaultOf(b) = FaultOf(m) /\ OffOf(b) = OffOf(m)
           /\ Shaped(b)
<1> PICK u : u = IF FuseOf(m) > 0 THEN FuseOf(m) - 1 ELSE -1 OBVIOUS
<1>1. IsRec(m) /\ FuseOf(m) \in -1 .. 3 /\ (FaultOf(m) = "none" => FuseOf(m) = -1)
  BY DEF Shaped
<1>2. b = [m EXCEPT !.fuse = u]  BY DEF Burn, FuseOf
<1>3. Fields(b, DiskOf(m), WinOf(m), SectOf(m), FlagOf(m), HintOf(m), InfoOf(m),
              ResOf(m), ValOf(m), u, FaultOf(m), OffOf(m))
  BY ONLY <1>1, <1>2, UpdFuse
<1>4. u \in -1 .. 3 /\ (FuseOf(m) = -1 => u = -1)  BY ONLY <1>1, u = IF FuseOf(m) > 0 THEN FuseOf(m) - 1 ELSE -1
<1>5. /\ IsRec(b) /\ FuseOf(b) = u
      /\ DiskOf(b) = DiskOf(m) /\ WinOf(b) = WinOf(m) /\ SectOf(b) = SectOf(m)
      /\ FlagOf(b) = FlagOf(m) /\ HintOf(b) = HintOf(m) /\ InfoOf(b) = InfoOf(m)
      /\ ResOf(b) = ResOf(m) /\ ValOf(b) = ValOf(m)
      /\ FaultOf(b) = FaultOf(m) /\ OffOf(b) = OffOf(m)
  BY ONLY <1>3 DEF Fields
<1> QED  BY <1>1, <1>4, <1>5 DEF Shaped

(* disk_write: the sector is written or it is not; no fault, no failure;   *)
(* with the power off nothing changes and nothing fails.                   *)
LEMMA DiskWrite ==
    ASSUME NEW m, Shaped(m), NEW s, NEW x, NEW w, w = disk_write(m, s, x)
    PROVE  /\ Shaped(w)
           /\ WinOf(w) = WinOf(m) /\ SectOf(w) = SectOf(m) /\ FlagOf(w) = FlagOf(m)
           /\ HintOf(w) = HintOf(m) /\ InfoOf(w) = InfoOf(m)
           /\ ValOf(w) = ValOf(m) /\ FaultOf(w) = FaultOf(m)
           /\ DiskOf(w) = DiskOf(m) \/ DiskOf(w) = Put(DiskOf(m), s, x)
           /\ OffOf(m) => OffOf(w) /\ DiskOf(w) = DiskOf(m) /\ ResOf(w) = "OK"
           /\ OffOf(w) /\ ~OffOf(m) => ResOf(w) = "OK" /\ DiskOf(w) = DiskOf(m)
           /\ ~OffOf(w) /\ ResOf(w) = "OK" => DiskOf(w) = Put(DiskOf(m), s, x)
           /\ FuseOf(m) = -1 => FuseOf(w) = -1 /\ ResOf(w) = "OK" /\ OffOf(w) = OffOf(m)
<1> PICK b : b = Burn(m) OBVIOUS
<1> PICK d : d = Put(DiskOf(m), s, x) OBVIOUS
<1>0. /\ IsRec(m) /\ OffOf(m) \in BOOLEAN /\ FuseOf(m) \in -1 .. 3 /\ HintOf(m) \in Int
      /\ FaultOf(m) \in {"none", "lost", "done", "power"}
      /\ FaultOf(m) = "none" => FuseOf(m) = -1
  BY DEF Shaped
<1>1. /\ IsRec(b) /\ FuseOf(b) \in -1 .. 3
      /\ FuseOf(m) = -1 => FuseOf(b) = -1
      /\ FaultOf(m) = "none" => FuseOf(b) = -1
      /\ DiskOf(b) = DiskOf(m) /\ WinOf(b) = WinOf(m) /\ SectOf(b) = SectOf(m)
      /\ FlagOf(b) = FlagOf(m) /\ HintOf(b) = HintOf(m) /\ InfoOf(b) = InfoOf(m)
      /\ ResOf(b) = ResOf(m) /\ ValOf(b) = ValOf(m)
      /\ FaultOf(b) = FaultOf(m) /\ OffOf(b) = OffOf(m)
  BY ONLY BurnShape, Shaped(m), b = Burn(m)
<1>2. \E y \in {m, b}, e \in {DiskOf(m), d}, r \in {"OK", "DISK_ERR"} :
        /\ Fields(w, e, WinOf(m), SectOf(m), FlagOf(m), HintOf(m), InfoOf(m), r, ValOf(m),
                   FuseOf(y), FaultOf(m), OffOf(w))
        /\ OffOf(w) \in BOOLEAN /\ (OffOf(m) => OffOf(w) /\ e = DiskOf(m) /\ r = "OK")
        /\ OffOf(w) /\ ~OffOf(m) => r = "OK" /\ e = DiskOf(m)
        /\ ~OffOf(w) /\ r = "OK" => e = d
        /\ FuseOf(m) = -1 => r = "OK" /\ OffOf(w) = OffOf(m)
  <2>1. CASE OffOf(m)
    <3>1. w = Ok(m)  BY <2>1 DEF disk_write, OffOf
    <3>2. Fields(w, DiskOf(m), WinOf(m), SectOf(m), FlagOf(m), HintOf(m), InfoOf(m), "OK", ValOf(m),
                  FuseOf(m), FaultOf(m), OffOf(m))
      BY ONLY <1>0, <3>1, UpdOk
    <3> QED  BY ONLY <1>0, <2>1, <3>2 DEF Fields
  <2>2. CASE ~OffOf(m) /\ FuseOf(m) # 0
    <3>1. w = Ok([b EXCEPT !.disk[s] = x])  BY <2>2 DEF disk_write, OffOf, FuseOf, Strikes
    <3> PICK c : c = [b EXCEPT !.disk[s] = x] OBVIOUS
    <3>2. Fields(c, d, WinOf(m), SectOf(m), FlagOf(m), HintOf(m), InfoOf(m), ResOf(m), ValOf(m),
                  FuseOf(b), FaultOf(m), OffOf(m))
      BY ONLY <1>1, UpdSector, c = [b EXCEPT !.disk[s] = x], d = Put(DiskOf(m), s, x) DEF Fields
    <3>3. Fields(w, d, WinOf(m), SectOf(m), FlagOf(m), HintOf(m), InfoOf(m), "OK", ValOf(m),
                  FuseOf(b), FaultOf(m), OffOf(m))
      BY ONLY <3>1, <3>2, UpdOk, c = [b EXCEPT !.disk[s] = x] DEF Fields
    <3> QED  BY ONLY <1>0, <2>2, <3>3 DEF Fields
  <2>3. CASE ~OffOf(m) /\ FuseOf(m) = 0 /\ FaultOf(m) = "lost"
    <3>1. w = Fail(b, "DISK_ERR")  BY <2>3 DEF disk_write, OffOf, FuseOf, FaultOf, Strikes
    <3>2. Fields(w, DiskOf(m), WinOf(m), SectOf(m), FlagOf(m), HintOf(m), InfoOf(m), "DISK_ERR", ValOf(m),
                  FuseOf(b), FaultOf(m), OffOf(m))
      BY ONLY <1>1, <3>1, UpdFail DEF Fields
    <3> QED  BY ONLY <1>0, <2>3, <3>2 DEF Fields
  <2>4. CASE ~OffOf(m) /\ FuseOf(m) = 0 /\ FaultOf(m) = "done"
    <3>1. w = Fail([b EXCEPT !.disk[s] = x], "DISK_ERR")
      BY <2>4 DEF disk_write, OffOf, FuseOf, FaultOf, Strikes
    <3> PICK c : c = [b EXCEPT !.disk[s] = x] OBVIOUS
    <3>2. Fields(c, d, WinOf(m), SectOf(m), FlagOf(m), HintOf(m), InfoOf(m), ResOf(m), ValOf(m),
                  FuseOf(b), FaultOf(m), OffOf(m))
      BY ONLY <1>1, UpdSector, c = [b EXCEPT !.disk[s] = x], d = Put(DiskOf(m), s, x) DEF Fields
    <3>3. Fields(w, d, WinOf(m), SectOf(m), FlagOf(m), HintOf(m), InfoOf(m), "DISK_ERR", ValOf(m),
                  FuseOf(b), FaultOf(m), OffOf(m))
      BY ONLY <3>1, <3>2, UpdFail, c = [b EXCEPT !.disk[s] = x] DEF Fields
    <3> QED  BY ONLY <1>0, <2>4, <3>3 DEF Fields
  <2>5. CASE ~OffOf(m) /\ FuseOf(m) = 0 /\ FaultOf(m) = "power"
    <3>1. w = [Ok(b) EXCEPT !.off = TRUE]  BY <2>5 DEF disk_write, OffOf, FuseOf, FaultOf, Strikes
    <3> PICK c : c = Ok(b) OBVIOUS
    <3>2. Fields(c, DiskOf(m), WinOf(m), SectOf(m), FlagOf(m), HintOf(m), InfoOf(m), "OK", ValOf(m),
                  FuseOf(b), FaultOf(m), OffOf(m))
      BY ONLY <1>1, UpdOk, c = Ok(b) DEF Fields
    <3>3. Fields(w, DiskOf(m), WinOf(m), SectOf(m), FlagOf(m), HintOf(m), InfoOf(m), "OK", ValOf(m),
                  FuseOf(b), FaultOf(m), TRUE)
      BY ONLY <3>1, <3>2, UpdOff, c = Ok(b) DEF Fields
    <3>4. OffOf(m) = FALSE  BY <1>0, <2>5
    <3>5. OffOf(w) = TRUE  BY <3>3 DEF Fields
    <3>6. Fields(w, DiskOf(m), WinOf(m), SectOf(m), FlagOf(m), HintOf(m), InfoOf(m), "OK", ValOf(m),
                 FuseOf(b), FaultOf(m), OffOf(w))
      BY ONLY <3>3, <3>5
    <3>7. OffOf(w) \in BOOLEAN  BY ONLY <3>5, Zenon
    <3>8. OffOf(w) /\ ~OffOf(m)  BY ONLY <3>4, <3>5
    <3>9. FuseOf(m) # -1  BY ONLY <2>5
    <3> WITNESS b \in {m, b}, DiskOf(m) \in {DiskOf(m), d}, "OK" \in {"OK", "DISK_ERR"}
    <3> QED  BY ONLY <3>6, <3>7, <3>8, <3>9
  <2> QED  BY ONLY <1>0, <2>1, <2>2, <2>3, <2>4, <2>5
<1>3. PICK y \in {m, b}, e \in {DiskOf(m), d}, r \in {"OK", "DISK_ERR"} :
        /\ Fields(w, e, WinOf(m), SectOf(m), FlagOf(m), HintOf(m), InfoOf(m), r, ValOf(m),
                   FuseOf(y), FaultOf(m), OffOf(w))
        /\ OffOf(w) \in BOOLEAN /\ (OffOf(m) => OffOf(w) /\ e = DiskOf(m) /\ r = "OK")
        /\ OffOf(w) /\ ~OffOf(m) => r = "OK" /\ e = DiskOf(m)
        /\ ~OffOf(w) /\ r = "OK" => e = d
        /\ FuseOf(m) = -1 => r = "OK" /\ OffOf(w) = OffOf(m)
  BY <1>2
<1>4. /\ IsRec(w) /\ DiskOf(w) = e /\ WinOf(w) = WinOf(m) /\ SectOf(w) = SectOf(m)
      /\ FlagOf(w) = FlagOf(m) /\ HintOf(w) = HintOf(m) /\ InfoOf(w) = InfoOf(m)
      /\ ResOf(w) = r /\ ValOf(w) = ValOf(m) /\ FuseOf(w) = FuseOf(y)
      /\ FaultOf(w) = FaultOf(m)
  BY ONLY <1>3 DEF Fields
<1>5. Shaped(w)  BY <1>0, <1>1, <1>3, <1>4 DEF Shaped
<1> QED  BY <1>0, <1>1, <1>3, <1>4, <1>5

(* The sectors of the FAT, the directory, the clusters and FSInfo are not  *)
(* each other's.                                                           *)
LEMMA SectorKinds ==
    /\ \A c \in Clusters : FatSector(c) \in FatSectors /\ FatSector(c)[1] = "fat"
    /\ \A i \in 1 .. Slots : DirSector(i) \in DirSectors
    /\ \A s \in FatSectors : s[1] = "fat" /\ s = <<"fat", s[2]>> /\ Mirror(s)[1] = "fat2"
    /\ \A s \in DirSectors : s[1] = "dir"
    /\ \A c \in Clusters : DataSector(c)[1] = "data"
    /\ InfoSector[1] = "info" /\ NoSector[1] = "none"
    /\ \A s, t \in FatSectors : Mirror(s) = Mirror(t) => s = t
    /\ \A c, e \in Clusters : DataSector(c) = DataSector(e) => c = e
<1>1. \A c \in Clusters : FatSector(c) \in FatSectors /\ FatSector(c)[1] = "fat"
  BY DEF FatSectors, FatSector
<1>2. \A i \in 1 .. Slots : DirSector(i) \in DirSectors
  BY DEF DirSectors
<1>3. \A s \in FatSectors : s[1] = "fat" /\ s = <<"fat", s[2]>> /\ Mirror(s)[1] = "fat2"
  BY DEF FatSectors, FatSector, Mirror
<1>4. \A s \in DirSectors : s[1] = "dir"
  BY DEF DirSectors, DirSector
<1>5. \A c \in Clusters : DataSector(c)[1] = "data"
  BY DEF DataSector
<1>6. InfoSector[1] = "info" /\ NoSector[1] = "none"
  BY DEF InfoSector, NoSector
<1>7. ASSUME NEW s \in FatSectors, NEW t \in FatSectors, Mirror(s) = Mirror(t)  PROVE s = t
  <2>1. s[2] = t[2]  BY <1>7 DEF Mirror
  <2> QED  BY <2>1, <1>3
<1>8. \A c, e \in Clusters : DataSector(c) = DataSector(e) => c = e
  BY DEF DataSector
<1> QED  BY <1>1, <1>2, <1>3, <1>4, <1>5, <1>6, <1>7, <1>8

(* A sector that is none of those the image is made of.                    *)
LEMMA ImgOther ==
    ASSUME NEW d, IsDisk(d), NEW s \in Sectors, NEW x,
           s[1] \in {"fat2", "info"}
    PROVE  Img(Put(d, s, x)) = Img(d)
<1> PICK d2 : d2 = Put(d, s, x) OBVIOUS
<1>1. \A t : t[1] \notin {"fat2", "info"} /\ t \in Sectors => d2[t] = d[t]
  BY DEF IsDisk, Put
<1>2. \A c \in Clusters : FatOf(d2, c) = FatOf(d, c)
  BY <1>1, SectorKinds DEF FatOf, Sectors
<1>3. \A i \in 1 .. Slots : EntryOf(d2, i) = EntryOf(d, i)
  BY <1>1, SectorKinds DEF EntryOf, Sectors
<1>4. \A c \in Clusters : d2[DataSector(c)] = d[DataSector(c)]
  BY <1>1, SectorKinds DEF Sectors
<1> QED  BY <1>2, <1>3, <1>4 DEF Img

(* A write to a cluster's sector changes that cluster in the image.        *)
LEMMA ImgData ==
    ASSUME NEW d, IsDisk(d), NEW k \in Clusters, NEW x
    PROVE  Img(Put(d, DataSector(k), x)) = SetData(Img(d), k, x)
<1> PICK d2 : d2 = Put(d, DataSector(k), x) OBVIOUS
<1>0. DataSector(k) \in Sectors  BY DEF Sectors
<1>1. \A t \in Sectors : d2[t] = IF t = DataSector(k) THEN x ELSE d[t]
  BY <1>0 DEF IsDisk, Put
<1>2. \A c \in Clusters : FatOf(d2, c) = FatOf(d, c)
  <2> TAKE c \in Clusters
  <2>1. FatSector(c) \in Sectors /\ FatSector(c) # DataSector(k)  BY SectorKinds DEF Sectors
  <2> QED  BY <2>1, <1>1 DEF FatOf
<1>3. \A i \in 1 .. Slots : EntryOf(d2, i) = EntryOf(d, i)
  <2> TAKE i \in 1 .. Slots
  <2>1. DirSector(i) \in Sectors /\ DirSector(i) # DataSector(k)  BY SectorKinds DEF Sectors
  <2> QED  BY <2>1, <1>1 DEF EntryOf
<1>4. \A c \in Clusters : d2[DataSector(c)] = IF c = k THEN x ELSE d[DataSector(c)]
  <2> TAKE c \in Clusters
  <2>1. DataSector(c) \in Sectors /\ (DataSector(c) = DataSector(k) => c = k)
    BY SectorKinds DEF Sectors
  <2> QED  BY <2>1, <1>1
<1>5. Img(d2).fat = Img(d).fat /\ Img(d2).dir = Img(d).dir  BY <1>2, <1>3 DEF Img
<1>6. Img(d2).data = Put(Img(d).data, k, x)  BY <1>4 DEF Img, Put
<1>7. Img(d2) = [fat |-> Img(d2).fat, dir |-> Img(d2).dir, data |-> Img(d2).data]
  BY DEF Img
<1> QED  BY <1>5, <1>6, <1>7 DEF SetData

(* A FAT entry set in its sector is set in the image.                      *)
LEMMA ImgFat ==
    ASSUME NEW d, IsDisk(d), NEW k \in Clusters, NEW x
    PROVE  Img(Put(d, FatSector(k), Put(d[FatSector(k)], k, x))) = SetFat(Img(d), k, x)
<1> PICK s : s = FatSector(k) OBVIOUS
<1> PICK y : y = Put(d[s], k, x) OBVIOUS
<1> PICK d2 : d2 = Put(d, s, y) OBVIOUS
<1>0. s \in Sectors /\ s \in FatSectors /\ s[1] = "fat"  BY SectorKinds DEF Sectors
<1>1. \A t \in Sectors : d2[t] = IF t = s THEN y ELSE d[t]
  BY <1>0 DEF IsDisk, Put
<1>2. \A c \in Clusters : FatOf(d2, c) = IF c = k THEN x ELSE FatOf(d, c)
  <2> TAKE c \in Clusters
  <2>1. FatSector(c) \in Sectors  BY SectorKinds DEF Sectors
  <2>2. CASE FatSector(c) = s
    <3>1. d[s] \in FatContents(s)  BY <1>0 DEF IsDisk, Holds
    <3>2. y[c] = IF c = k THEN x ELSE d[s][c]  BY <3>1, <2>2 DEF FatContents, Put
    <3> QED  BY <3>2, <2>2, <1>0, <1>1 DEF FatOf
  <2>3. CASE FatSector(c) # s  BY <2>1, <2>3, <1>1 DEF FatOf
  <2> QED  BY <2>2, <2>3
<1>3. \A i \in 1 .. Slots : EntryOf(d2, i) = EntryOf(d, i)
  <2> TAKE i \in 1 .. Slots
  <2>1. DirSector(i) \in Sectors /\ DirSector(i) # s  BY <1>0, SectorKinds DEF Sectors
  <2> QED  BY <2>1, <1>1 DEF EntryOf
<1>4. \A c \in Clusters : d2[DataSector(c)] = d[DataSector(c)]
  <2> TAKE c \in Clusters
  <2>1. DataSector(c) \in Sectors /\ DataSector(c) # s  BY <1>0, SectorKinds DEF Sectors
  <2> QED  BY <2>1, <1>1
<1>5. Img(d2).data = Img(d).data /\ Img(d2).dir = Img(d).dir  BY <1>3, <1>4 DEF Img
<1>6. Img(d2).fat = Put(Img(d).fat, k, x)  BY <1>2 DEF Img, Put
<1>7. Img(d2) = [fat |-> Img(d2).fat, dir |-> Img(d2).dir, data |-> Img(d2).data]
  BY DEF Img
<1> QED  BY <1>5, <1>6, <1>7 DEF SetFat

(* A directory entry set in its sector is set in the image.                *)
LEMMA ImgDir ==
    ASSUME NEW d, IsDisk(d), NEW k \in 1 .. Slots, NEW x
    PROVE  Img(Put(d, DirSector(k), Put(d[DirSector(k)], k, x))) = SetDir(Img(d), k, x)
<1> PICK s : s = DirSector(k) OBVIOUS
<1> PICK y : y = Put(d[s], k, x) OBVIOUS
<1> PICK d2 : d2 = Put(d, s, y) OBVIOUS
<1>0. s \in Sectors /\ s \in DirSectors /\ s[1] = "dir"  BY SectorKinds DEF Sectors
<1>1. \A t \in Sectors : d2[t] = IF t = s THEN y ELSE d[t]
  BY <1>0 DEF IsDisk, Put
<1>2. \A i \in 1 .. Slots : EntryOf(d2, i) = IF i = k THEN x ELSE EntryOf(d, i)
  <2> TAKE i \in 1 .. Slots
  <2>1. DirSector(i) \in Sectors  BY SectorKinds DEF Sectors
  <2>2. CASE DirSector(i) = s
    <3>1. d[s] \in DirContents(s)  BY <1>0 DEF IsDisk, Holds
    <3>2. y[i] = IF i = k THEN x ELSE d[s][i]  BY <3>1, <2>2 DEF DirContents, Put
    <3> QED  BY <3>2, <2>2, <1>0, <1>1 DEF EntryOf
  <2>3. CASE DirSector(i) # s  BY <2>1, <2>3, <1>1 DEF EntryOf
  <2> QED  BY <2>2, <2>3
<1>3. \A c \in Clusters : FatOf(d2, c) = FatOf(d, c)
  <2> TAKE c \in Clusters
  <2>1. FatSector(c) \in Sectors /\ FatSector(c) # s  BY <1>0, SectorKinds DEF Sectors
  <2> QED  BY <2>1, <1>1 DEF FatOf
<1>4. \A c \in Clusters : d2[DataSector(c)] = d[DataSector(c)]
  <2> TAKE c \in Clusters
  <2>1. DataSector(c) \in Sectors /\ DataSector(c) # s  BY <1>0, SectorKinds DEF Sectors
  <2> QED  BY <2>1, <1>1
<1>5. Img(d2).data = Img(d).data /\ Img(d2).fat = Img(d).fat  BY <1>3, <1>4 DEF Img
<1>6. Img(d2).dir = Put(Img(d).dir, k, x)  BY <1>2 DEF Img, Put
<1>7. Img(d2) = [fat |-> Img(d2).fat, dir |-> Img(d2).dir, data |-> Img(d2).data]
  BY DEF Img
<1> QED  BY <1>5, <1>6, <1>7 DEF SetDir

(* The image of a card is an image.                                        *)
LEMMA ImgType ==
    ASSUME NEW d, IsDisk(d)
    PROVE  Img(d) \in Imgs
<1>1. \A c \in Clusters : FatOf(d, c) \in Links
  <2> TAKE c \in Clusters
  <2>1. FatSector(c) \in Sectors /\ FatSector(c) \in FatSectors  BY SectorKinds DEF Sectors
  <2>2. d[FatSector(c)] \in FatContents(FatSector(c))  BY <2>1 DEF IsDisk, Holds
  <2> QED  BY <2>2 DEF FatContents, FatOf
<1>2. \A i \in 1 .. Slots : EntryOf(d, i) \in DirEntries
  <2> TAKE i \in 1 .. Slots
  <2>1. DirSector(i) \in Sectors /\ DirSector(i) \in DirSectors  BY SectorKinds DEF Sectors
  <2>2. d[DirSector(i)] \in DirContents(DirSector(i))  BY <2>1 DEF IsDisk, Holds
  <2> QED  BY <2>2 DEF DirContents, EntryOf
<1>3. \A c \in Clusters : d[DataSector(c)] \in Sectorful
  BY DEF IsDisk, Holds, Sectors
<1> QED  BY <1>1, <1>2, <1>3 DEF Img, Imgs
(***************************************************************************)
(* Windows.                                                                *)
(***************************************************************************)
LEMMA HoldsKinds ==
    /\ \A s \in FatSectors : \A x : Holds(s, x) <=> x \in FatContents(s)
    /\ \A s \in DirSectors : \A x : Holds(s, x) <=> x \in DirContents(s)
    /\ \A s \in FatSectors : \A x : Holds(Mirror(s), x) <=> x \in FatContents(s)
    /\ \A c \in Clusters : \A x : Holds(DataSector(c), x) <=> x \in Sectorful
    /\ \A x : Holds(InfoSector, x) <=> x \in Int
<1>1. \A s \in FatSectors : \A x : Holds(s, x) <=> x \in FatContents(s)
  BY SectorKinds DEF Holds
<1>2. \A s \in DirSectors : \A x : Holds(s, x) <=> x \in DirContents(s)
  BY SectorKinds DEF Holds
<1>3. \A s \in FatSectors : \A x : Holds(Mirror(s), x) <=> x \in FatContents(s)
  BY SectorKinds DEF Holds
<1>4. \A c \in Clusters : \A x : Holds(DataSector(c), x) <=> x \in Sectorful
  BY SectorKinds DEF Holds
<1>5. \A x : Holds(InfoSector, x) <=> x \in Int
  BY SectorKinds DEF Holds
<1> QED  BY <1>1, <1>2, <1>3, <1>4, <1>5

(* A card with one sector rewritten is a card.                             *)
LEMMA DiskSet ==
    ASSUME NEW d, IsDisk(d), NEW s \in Sectors, NEW x, Holds(s, x)
    PROVE  /\ IsDisk(Put(d, s, x))
           /\ Put(d, s, x)[s] = x
           /\ \A t \in Sectors : t # s => Put(d, s, x)[t] = d[t]
BY DEF IsDisk, Put

(* The card with the window over it is a card.                             *)
LEMMA OverDisk ==
    ASSUME NEW m, SoundRec(m), OffOf(m) = FALSE
    PROVE  /\ IsDisk(Over(DiskOf(m), m))
           /\ SectOf(m) \in Windowed => Over(DiskOf(m), m)[SectOf(m)] = WinOf(m)
           /\ SectOf(m) \in Windowed => Over(DiskOf(m), m) = Put(DiskOf(m), SectOf(m), WinOf(m))
<1>0. IsDisk(DiskOf(m)) /\ WindowSound(m)  BY DEF SoundRec
<1>1. CASE FlagOf(m)
  BY <1>0, <1>1, DiskSet DEF Over, WindowSound, Windowed, Sectors
<1>2. CASE ~FlagOf(m)
  <2>1. IsDisk(Over(DiskOf(m), m))  BY <1>0, <1>2 DEF Over
  <2>2. SectOf(m) \in Windowed => Over(DiskOf(m), m)[SectOf(m)] = WinOf(m)
    BY <1>0, <1>2 DEF Over, WindowSound
  <2>3. SectOf(m) \in Windowed => DiskOf(m) = Put(DiskOf(m), SectOf(m), WinOf(m))
    BY <1>0, <1>2 DEF WindowSound, IsDisk, Put, Windowed, Sectors
  <2> QED  BY <2>1, <2>2, <2>3, <1>2 DEF Over
<1> QED  BY <1>1, <1>2, <1>0 DEF WindowSound

(* The card behind a sound record has an image, and so has the view.       *)
LEMMA SeenType ==
    ASSUME NEW m, SoundRec(m)
    PROVE  Card(m) \in Imgs /\ (~OffOf(m) => Seen(m) \in Imgs)
<1>1. IsDisk(DiskOf(m)) /\ OffOf(m) \in BOOLEAN  BY DEF SoundRec, Shaped
<1>2. Card(m) \in Imgs  BY <1>1, ImgType DEF Card
<1>3. OffOf(m) = FALSE => IsDisk(Over(DiskOf(m), m))  BY OverDisk
<1>4. OffOf(m) = FALSE => Seen(m) \in Imgs  BY <1>3, ImgType DEF Seen
<1> QED  BY <1>1, <1>2, <1>4

(* Two parts of a step, one after the other.                               *)
LEMMA PassesTrans ==
    ASSUME NEW a, NEW b, NEW c, NEW V, NEW W, Passes(a, b, V), Passes(b, c, W), V \subseteq W
    PROVE  Passes(a, c, W)
BY DEF Passes

(* A part of a step may be said to pass through more images.               *)
LEMMA PassesWiden ==
    ASSUME NEW a, NEW b, NEW V, NEW W, Passes(a, b, V), V \subseteq W
    PROVE  Passes(a, b, W)
BY DEF Passes

(* To do nothing is to pass through the view as it is.                     *)
LEMMA PassesSelf ==
    ASSUME NEW m, SoundRec(m)
    PROVE  Passes(m, m, {Seen(m)})
BY DEF Passes

(* Fields that no property depends on. *)
LEMMA PassesResult ==
    ASSUME NEW a, NEW m, NEW w, NEW V, Passes(a, m, V), IsRec(w),
           DiskOf(w) = DiskOf(m), WinOf(w) = WinOf(m), SectOf(w) = SectOf(m), FlagOf(w) = FlagOf(m),
           FuseOf(w) = FuseOf(m), FaultOf(w) = FaultOf(m), OffOf(w) = OffOf(m), HintOf(w) \in Int
    PROVE  Passes(a, w, V) /\ Seen(w) = Seen(m)
<1>1. SoundRec(w)
  BY DEF Passes, SoundRec, Shaped, WindowSound
<1>2. Card(w) = Card(m) /\ Seen(w) = Seen(m)
  BY DEF Card, Seen, Over
<1> QED  BY <1>1, <1>2 DEF Passes

(* A result that is set changes nothing else.                              *)
LEMMA OkShape ==
    ASSUME NEW m, IsRec(m), NEW r, NEW w, w = Fail(m, r) \/ w = Ok(m)
    PROVE  /\ IsRec(w) /\ (w = Ok(m) => ResOf(w) = "OK") /\ (w = Fail(m, r) => ResOf(w) = r)
           /\ DiskOf(w) = DiskOf(m) /\ WinOf(w) = WinOf(m) /\ SectOf(w) = SectOf(m)
           /\ FlagOf(w) = FlagOf(m) /\ HintOf(w) = HintOf(m) /\ InfoOf(w) = InfoOf(m)
           /\ ValOf(w) = ValOf(m) /\ FuseOf(w) = FuseOf(m) /\ FaultOf(w) = FaultOf(m)
           /\ OffOf(w) = OffOf(m)
<1>1. CASE w = Ok(m)
  <2>1. ResOf(w) = "OK"  BY <1>1, UpdOk DEF Fields
  <2>2. w = Fail(m, r) => r = "OK"
    BY <1>1, <2>1, UpdFail DEF Fields
  <2> QED  BY <1>1, <2>1, <2>2, UpdOk DEF Fields
<1>2. CASE w = Fail(m, r)
  <2>1. ResOf(w) = r  BY <1>2, UpdFail DEF Fields
  <2>2. w = Ok(m) => r = "OK"
    BY <1>2, <2>1, UpdOk DEF Fields
  <2> QED  BY <1>2, <2>1, <2>2, UpdFail DEF Fields
<1> QED  BY <1>1, <1>2

(* With power lost nothing happens any more. *)
(* The second FAT. *)
LEMMA ReflectOff ==
    ASSUME NEW m, Shaped(m), OffOf(m) = TRUE, NEW s, NEW w, w = Reflect(m, s)
    PROVE  /\ Shaped(w) /\ OffOf(w) /\ DiskOf(w) = DiskOf(m) /\ FaultOf(w) = FaultOf(m) /\ ResOf(w) = "OK"
           /\ ValOf(w) = ValOf(m) /\ FlagOf(w) = FlagOf(m)
           /\ HintOf(w) = HintOf(m) /\ InfoOf(w) = InfoOf(m)
           /\ FuseOf(m) = -1 => FuseOf(w) = -1
<1>1. CASE s \notin FatSectors
  <2>1. w = Ok(m)  BY <1>1 DEF Reflect
  <2> QED  BY <2>1, OkShape DEF Shaped
<1>2. CASE s \in FatSectors
  <2> PICK a : a = disk_write(m, Mirror(s), WinOf(m)) OBVIOUS
  <2>1. w = Ok(a)  BY <1>2 DEF Reflect, WinOf
  <2>2. /\ Shaped(a) /\ OffOf(a) /\ DiskOf(a) = DiskOf(m) /\ FaultOf(a) = FaultOf(m)
        /\ ValOf(a) = ValOf(m) /\ FlagOf(a) = FlagOf(m)
        /\ HintOf(a) = HintOf(m) /\ InfoOf(a) = InfoOf(m)
        /\ FuseOf(m) = -1 => FuseOf(a) = -1
    BY ONLY DiskWrite, Shaped(m), OffOf(m) = TRUE, a = disk_write(m, Mirror(s), WinOf(m))
  <2>3. IsRec(a) /\ HintOf(a) \in Int  BY <2>2 DEF Shaped
  <2> QED  BY <2>1, <2>2, <2>3, OkShape DEF Shaped
<1> QED  BY <1>1, <1>2

(* Reflect writes the second FAT at most: neither the card's first FAT nor *)
(* the view changes.                                                       *)
LEMMA ReflectSound ==
    ASSUME NEW m, SoundRec(m), OffOf(m) = FALSE, FlagOf(m) = FALSE, NEW s \in Windowed, SectOf(m) = s,
           WinOf(m) = DiskOf(m)[s],
           NEW w, w = Reflect(m, s)
    PROVE  /\ Passes(m, w, {Seen(m)})
           /\ ResOf(w) = "OK" /\ ValOf(w) = ValOf(m) /\ FlagOf(w) = FlagOf(m) /\ SectOf(w) = SectOf(m)
           /\ WinOf(w) = WinOf(m) /\ HintOf(w) = HintOf(m) /\ InfoOf(w) = InfoOf(m)
           /\ Card(w) = Card(m)
           /\ DiskOf(w) = DiskOf(m) \/ (s \in FatSectors /\ DiskOf(w) = Put(DiskOf(m), Mirror(s), WinOf(m)))
           /\ FuseOf(m) = -1 /\ s \in FatSectors => DiskOf(w) = Put(DiskOf(m), Mirror(s), WinOf(m))
<1>0. Shaped(m) /\ IsRec(m) /\ IsDisk(DiskOf(m)) /\ OffOf(m) \in BOOLEAN  BY DEF SoundRec, Shaped
<1>1. CASE s \notin FatSectors
  <2>1. w = Ok(m)  BY <1>1 DEF Reflect
  <2>2. Passes(m, w, {Seen(m)})  BY <1>0, <2>1, OkShape, PassesSelf, PassesResult DEF Shaped
  <2> QED  BY <1>0, <1>1, <2>1, <2>2, OkShape DEF Card
<1>2. CASE s \in FatSectors
  <2> PICK a : a = disk_write(m, Mirror(s), WinOf(m)) OBVIOUS
  <2>1. w = Ok(a)  BY <1>2 DEF Reflect, WinOf
  <2>2. /\ Shaped(a) /\ IsRec(a)
        /\ WinOf(a) = WinOf(m) /\ SectOf(a) = SectOf(m) /\ FlagOf(a) = FlagOf(m)
        /\ HintOf(a) = HintOf(m) /\ InfoOf(a) = InfoOf(m)
        /\ ValOf(a) = ValOf(m) /\ FaultOf(a) = FaultOf(m)
        /\ DiskOf(a) = DiskOf(m) \/ DiskOf(a) = Put(DiskOf(m), Mirror(s), WinOf(m))
        /\ ~OffOf(a) /\ ResOf(a) = "OK" => DiskOf(a) = Put(DiskOf(m), Mirror(s), WinOf(m))
        /\ FuseOf(m) = -1 => FuseOf(a) = -1 /\ ResOf(a) = "OK" /\ OffOf(a) = OffOf(m)
    BY ONLY <1>0, DiskWrite, a = disk_write(m, Mirror(s), WinOf(m)) DEF Shaped
  <2>3. Mirror(s) \in Sectors /\ Mirror(s)[1] = "fat2" /\ s \in Sectors /\ s # Mirror(s)
    BY <1>2, SectorKinds DEF Sectors
  <2>4. Holds(s, WinOf(m))  BY <1>0, <2>3 DEF IsDisk
  <2>5. Holds(Mirror(s), WinOf(m))  BY <1>2, <2>4, HoldsKinds
  <2>6. IsDisk(DiskOf(a))  BY <2>2, <2>3, <2>5, <1>0, DiskSet
  <2>7. Img(DiskOf(a)) = Img(DiskOf(m))  BY <2>2, <2>3, <1>0, ImgOther
  <2>8. DiskOf(a)[s] = DiskOf(m)[s]  BY ONLY <2>2, <2>3, <2>5, <1>0, DiskSet
  <2>9. SoundRec(a)
    BY <2>2, <2>6, <2>8 DEF SoundRec, WindowSound
  <2>10. Card(a) = Card(m) /\ Seen(a) = Seen(m)
    BY <2>7, <2>2 DEF Card, Seen, Over
  <2>11. FaultOf(m) = "none" /\ Mirrored(DiskOf(m)) => Mirrored(DiskOf(a))
    <3> SUFFICES ASSUME FaultOf(m) = "none", Mirrored(DiskOf(m)), NEW t \in FatSectors
                 PROVE  DiskOf(a)[t] = DiskOf(a)[Mirror(t)]
      BY DEF Mirrored
    <3>1. DiskOf(a) = Put(DiskOf(m), Mirror(s), WinOf(m))  BY <2>2, <1>0 DEF Shaped
    <3>2. t \in Sectors /\ Mirror(t) \in Sectors /\ t # Mirror(s) /\ (Mirror(t) = Mirror(s) => t = s)
      BY <1>2, SectorKinds DEF Sectors
    <3>3. DiskOf(m)[t] = DiskOf(m)[Mirror(t)]  BY DEF Mirrored
    <3> QED  BY <3>1, <3>2, <3>3, <2>3, <2>5, <1>0, DiskSet
  <2>12. Passes(m, a, {Seen(m)})
    BY <2>9, <2>10, <2>11, <2>2 DEF Passes
  <2>13. Passes(m, w, {Seen(m)}) /\ Seen(w) = Seen(a)
    BY <2>1, <2>2, <2>12, OkShape, PassesResult DEF Shaped
  <2> QED  BY <2>13, <2>10, <2>1, <2>2, <1>2, OkShape DEF Card
<1> QED  BY <1>1, <1>2

(* A sector written, and reflected if it is of the FAT, leaves the FATs    *)
(* the same.                                                               *)
LEMMA ReflectMirrors ==
    ASSUME NEW d, IsDisk(d), Mirrored(d), NEW s \in Windowed, NEW x, Holds(s, x),
           NEW e, e = IF s \in FatSectors THEN Put(Put(d, s, x), Mirror(s), x)
                      ELSE Put(d, s, x)
    PROVE  Mirrored(e)
<1> SUFFICES ASSUME NEW t \in FatSectors
             PROVE  e[t] = e[Mirror(t)]
  BY DEF Mirrored
<1> PICK b : b = Put(d, s, x) OBVIOUS
<1>1. /\ t \in Sectors /\ Mirror(t) \in Sectors /\ s \in Sectors /\ s # Mirror(t)
      /\ s \in DirSectors => t # s
      /\ d[t] = d[Mirror(t)]
  BY SectorKinds DEF Windowed, Sectors, Mirrored
<1>2. /\ IsDisk(b) /\ b[s] = x
      /\ \A u \in Sectors : u # s => b[u] = d[u]
  BY <1>1, DiskSet, b = Put(d, s, x)
<1>3. CASE s \notin FatSectors
  BY <1>1, <1>2, <1>3 DEF Windowed
<1>4. CASE s \in FatSectors
  <2>1. /\ Mirror(s) \in Sectors /\ t # Mirror(s) /\ (Mirror(t) = Mirror(s) => t = s)
        /\ Holds(Mirror(s), x)
    BY <1>4, SectorKinds, HoldsKinds DEF Sectors
  <2>2. e = Put(b, Mirror(s), x)  BY <1>4
  <2>3. e[Mirror(s)] = x /\ \A u \in Sectors : u # Mirror(s) => e[u] = b[u]
    BY ONLY <2>1, <2>2, <1>2, DiskSet
  <2> QED  BY <1>1, <1>2, <2>1, <2>3
<1> QED  BY <1>3, <1>4

(* sync_window: the card gets what the driver sees. *)
LEMMA SyncSound ==
    ASSUME NEW m, SoundRec(m), NEW w, w = sync_window(m)
    PROVE  /\ Passes(m, w, {Seen(m)})
           /\ ValOf(w) = ValOf(m) /\ HintOf(w) = HintOf(m) /\ InfoOf(w) = InfoOf(m)
           /\ ~OffOf(w) /\ ResOf(w) = "OK" =>
                 /\ ~FlagOf(w) /\ SectOf(w) = SectOf(m) /\ WinOf(w) = WinOf(m)
                 /\ Card(w) = Seen(m)
           /\ OffOf(w) => ResOf(w) = "OK"
           /\ FuseOf(m) = -1 => ResOf(w) = "OK"
<1>0. Shaped(m) /\ IsRec(m) /\ IsDisk(DiskOf(m)) /\ OffOf(m) \in BOOLEAN
      /\ (~OffOf(m) => WindowSound(m))
  BY DEF SoundRec, Shaped
<1>1. CASE ~FlagOf(m)
  <2>1. w = Ok(m)  BY <1>1 DEF sync_window, FlagOf
  <2>2. Passes(m, w, {Seen(m)})  BY <1>0, <2>1, OkShape, PassesSelf, PassesResult DEF Shaped
  <2> QED  BY <1>0, <1>1, <2>1, <2>2, OkShape DEF Card, Seen, Over
<1>2. CASE FlagOf(m)
  <2> PICK s : s = SectOf(m) OBVIOUS
  <2> PICK a : a = disk_write(m, s, WinOf(m)) OBVIOUS
  <2> PICK b : b = [a EXCEPT !.wflag = FALSE] OBVIOUS
  <2> PICK c : c = Reflect(b, SectOf(b)) OBVIOUS
  <2>1. w = IF ResOf(a) = "OK" THEN c ELSE a
    BY <1>2 DEF sync_window, Then, FlagOf, SectOf, WinOf, ResOf
  <2>2. /\ Shaped(a) /\ IsRec(a)
        /\ WinOf(a) = WinOf(m) /\ SectOf(a) = s /\ FlagOf(a) = FlagOf(m)
        /\ HintOf(a) = HintOf(m) /\ InfoOf(a) = InfoOf(m)
        /\ ValOf(a) = ValOf(m) /\ FaultOf(a) = FaultOf(m)
        /\ DiskOf(a) = DiskOf(m) \/ DiskOf(a) = Put(DiskOf(m), s, WinOf(m))
        /\ OffOf(m) => OffOf(a) /\ DiskOf(a) = DiskOf(m) /\ ResOf(a) = "OK"
        /\ OffOf(a) /\ ~OffOf(m) => DiskOf(a) = DiskOf(m) /\ ResOf(a) = "OK"
        /\ ~OffOf(a) /\ ResOf(a) = "OK" => DiskOf(a) = Put(DiskOf(m), s, WinOf(m))
        /\ FuseOf(m) = -1 => FuseOf(a) = -1 /\ ResOf(a) = "OK" /\ OffOf(a) = OffOf(m)
    BY ONLY <1>0, DiskWrite, a = disk_write(m, s, WinOf(m)), s = SectOf(m) DEF Shaped
  <2>3. /\ IsRec(b) /\ FlagOf(b) = FALSE
        /\ DiskOf(b) = DiskOf(a) /\ WinOf(b) = WinOf(a) /\ SectOf(b) = SectOf(a) /\ ValOf(b) = ValOf(a)
        /\ HintOf(b) = HintOf(a) /\ InfoOf(b) = InfoOf(a)
        /\ FuseOf(b) = FuseOf(a) /\ FaultOf(b) = FaultOf(a) /\ OffOf(b) = OffOf(a)
    BY ONLY <2>2, UpdFlag, b = [a EXCEPT !.wflag = FALSE] DEF Fields
  <2>4. Shaped(b)  BY ONLY <2>2, <2>3 DEF Shaped
  <2>5. CASE OffOf(a)
    <3>1. /\ Shaped(c) /\ OffOf(c) /\ DiskOf(c) = DiskOf(b) /\ FaultOf(c) = FaultOf(b) /\ ResOf(c) = "OK"
          /\ ValOf(c) = ValOf(b)
          /\ HintOf(c) = HintOf(b) /\ InfoOf(c) = InfoOf(b)
          /\ FuseOf(b) = -1 => FuseOf(c) = -1
      BY ONLY <2>3, <2>4, <2>5, ReflectOff, c = Reflect(b, SectOf(b))
    <3>2. w = c /\ DiskOf(c) = DiskOf(m) /\ (FuseOf(m) = -1 => FuseOf(c) = -1 /\ OffOf(m))
      BY <1>0, <2>1, <2>2, <2>3, <2>5, <3>1
    <3>3. SoundRec(c)  BY <3>1, <3>2, <1>0 DEF SoundRec
    <3>4. Passes(m, c, {Seen(m)})
      BY <1>0, <3>1, <3>2, <3>3, <2>2, <2>3 DEF Passes, Card
    <3> QED  BY <3>1, <3>2, <3>4, <2>2, <2>3
  <2>6. CASE ~OffOf(a)
    <3>1. ~OffOf(m) /\ WindowSound(m) /\ s \in Windowed /\ s \in Sectors /\ Holds(s, WinOf(m))
      BY <1>0, <1>2, <2>2, <2>6 DEF WindowSound, Windowed, Sectors
    <3> PICK e : e = Put(DiskOf(m), s, WinOf(m)) OBVIOUS
    <3>2. IsDisk(e) /\ e[s] = WinOf(m)  BY <1>0, <3>1, DiskSet
    <3>3. Seen(m) = Img(e)  BY <1>2 DEF Seen, Over
    <3>4. CASE ResOf(a) # "OK"
      <4>1. Put(e, s, WinOf(m)) = e  BY <3>1, <3>2 DEF IsDisk, Put
      <4>2. Over(DiskOf(a), a) = e  BY <4>1, <2>2, <1>2 DEF Over
      <4>3. IsDisk(DiskOf(a)) /\ Card(a) \in {Card(m), Seen(m)} /\ Seen(a) = Seen(m)
        BY <4>2, <3>2, <3>3, <2>2, <1>0 DEF Card, Seen
      <4>4. WindowSound(a)  BY <2>2, <3>1, <1>2 DEF WindowSound
      <4>5. FuseOf(m) # -1  BY <2>2, <3>4
      <4>6. FaultOf(m) # "none"  BY <4>5, <1>0 DEF Shaped
      <4>7. Passes(m, a, {Seen(m)})
        BY <4>3, <4>4, <4>5, <4>6, <3>1, <2>2, <2>6 DEF Passes, SoundRec
      <4> QED  BY <4>5, <4>7, <3>4, <2>1, <2>2, <2>6
    <3>5. CASE ResOf(a) = "OK"
      <4>1. DiskOf(b) = e /\ WinOf(b) = e[s] /\ SectOf(b) = s /\ ~OffOf(b) /\ ~FlagOf(b)
        BY <2>2, <2>3, <2>6, <3>2, <3>5
      <4>0. OffOf(b) = FALSE /\ FlagOf(b) = FALSE /\ WinOf(b) = DiskOf(b)[s] /\ c = Reflect(b, s)
        BY <4>1, <2>3, <2>4 DEF Shaped
      <4>2. SoundRec(b)
        BY <4>1, <2>3, <2>4, <3>1, <3>2 DEF SoundRec, WindowSound
      <4>3. Seen(b) = Seen(m) /\ Card(b) = Seen(m)
        BY <4>1, <3>3 DEF Seen, Card, Over
      <4>4. /\ Passes(b, c, {Seen(b)})
            /\ ResOf(c) = "OK" /\ ValOf(c) = ValOf(b) /\ FlagOf(c) = FlagOf(b) /\ SectOf(c) = SectOf(b)
            /\ WinOf(c) = WinOf(b) /\ HintOf(c) = HintOf(b) /\ InfoOf(c) = InfoOf(b)
            /\ Card(c) = Card(b)
            /\ DiskOf(c) = DiskOf(b) \/ (s \in FatSectors /\ DiskOf(c) = Put(DiskOf(b), Mirror(s), WinOf(b)))
            /\ FuseOf(b) = -1 /\ s \in FatSectors => DiskOf(c) = Put(DiskOf(b), Mirror(s), WinOf(b))
        BY ONLY <4>0, <4>1, <4>2, <3>1, ReflectSound, c = Reflect(b, s)
      <4>5. w = c  BY <2>1, <3>5
      <4>6. ASSUME FaultOf(m) = "none", Mirrored(DiskOf(m))  PROVE Mirrored(DiskOf(c))
        <5>1. FuseOf(b) = -1  BY <4>6, <2>2, <2>3, <1>0 DEF Shaped
        <5>2. DiskOf(c) = IF s \in FatSectors THEN Put(Put(DiskOf(m), s, WinOf(m)), Mirror(s), WinOf(m))
                       ELSE Put(DiskOf(m), s, WinOf(m))
          BY <5>1, <4>1, <4>4, <2>2, <2>3
        <5> QED  BY <5>2, <4>6, <3>1, <1>0, ReflectMirrors
      <4>7. Passes(m, c, {Seen(m)})
        BY <4>3, <4>4, <4>6, <3>1, <2>2, <2>3 DEF Passes
      <4> QED  BY <4>1, <4>3, <4>4, <4>5, <4>7, <3>2, <2>2, <2>3
    <3> QED  BY <3>4, <3>5
  <2> QED  BY <2>5, <2>6
<1> QED  BY <1>1, <1>2, <1>0

(* disk_read leaves all but the result and the fault.                      *)
LEMMA ReadSound ==
    ASSUME NEW m, Shaped(m), NEW w, w = disk_read(m)
    PROVE  /\ Shaped(w)
           /\ DiskOf(w) = DiskOf(m) /\ WinOf(w) = WinOf(m) /\ SectOf(w) = SectOf(m)
           /\ FlagOf(w) = FlagOf(m) /\ HintOf(w) = HintOf(m) /\ InfoOf(w) = InfoOf(m)
           /\ ValOf(w) = ValOf(m) /\ FaultOf(w) = FaultOf(m) /\ OffOf(w) = OffOf(m)
           /\ FuseOf(m) = -1 => FuseOf(w) = -1 /\ ResOf(w) = "OK"
<1> PICK b : b = Burn(m) OBVIOUS
<1>0. IsRec(m)  BY DEF Shaped
<1>1. /\ IsRec(b) /\ Shaped(b)
      /\ FuseOf(m) = -1 => FuseOf(b) = -1
      /\ DiskOf(b) = DiskOf(m) /\ WinOf(b) = WinOf(m) /\ SectOf(b) = SectOf(m)
      /\ FlagOf(b) = FlagOf(m) /\ HintOf(b) = HintOf(m) /\ InfoOf(b) = InfoOf(m)
      /\ ValOf(b) = ValOf(m) /\ FaultOf(b) = FaultOf(m) /\ OffOf(b) = OffOf(m)
  BY ONLY BurnShape, Shaped(m), b = Burn(m)
<1>2. w = Ok(m) \/ w = Ok(b) \/ (w = Fail(b, "DISK_ERR") /\ FuseOf(m) = 0)
  BY DEF disk_read, Strikes, FuseOf
<1>3. PICK y : /\ y = m \/ y = b
               /\ w = Ok(y) \/ (w = Fail(y, "DISK_ERR") /\ FuseOf(m) = 0)
  BY <1>2
<1>4. IsRec(y) /\ Shaped(y)  BY <1>0, <1>1, <1>3
<1>5. /\ IsRec(w) /\ (w = Ok(y) => ResOf(w) = "OK")
      /\ DiskOf(w) = DiskOf(y) /\ WinOf(w) = WinOf(y) /\ SectOf(w) = SectOf(y)
      /\ FlagOf(w) = FlagOf(y) /\ HintOf(w) = HintOf(y) /\ InfoOf(w) = InfoOf(y)
      /\ ValOf(w) = ValOf(y) /\ FuseOf(w) = FuseOf(y) /\ FaultOf(w) = FaultOf(y)
      /\ OffOf(w) = OffOf(y)
  BY ONLY <1>3, <1>4, OkShape
<1>6. Shaped(w)  BY ONLY <1>4, <1>5 DEF Shaped
<1> QED  BY <1>1, <1>3, <1>5, <1>6

(* disk_read changes nothing the driver sees.                              *)
LEMMA ReadPasses ==
    ASSUME NEW m, SoundRec(m), NEW w, w = disk_read(m)
    PROVE  Passes(m, w, {Seen(m)}) /\ Seen(w) = Seen(m)
<1>1. /\ Shaped(w)
      /\ DiskOf(w) = DiskOf(m) /\ WinOf(w) = WinOf(m) /\ SectOf(w) = SectOf(m)
      /\ FlagOf(w) = FlagOf(m) /\ FaultOf(w) = FaultOf(m) /\ OffOf(w) = OffOf(m)
      /\ FuseOf(m) = -1 => FuseOf(w) = -1
  BY ReadSound DEF SoundRec
<1>2. SoundRec(w)  BY <1>1 DEF SoundRec, WindowSound
<1>3. Card(w) = Card(m) /\ Seen(w) = Seen(m)  BY <1>1 DEF Card, Seen, Over
<1> QED  BY <1>1, <1>2, <1>3 DEF Passes

(* LoadWindow drops a window that needs no writing: the view stays.        *)
LEMMA LoadSound ==
    ASSUME NEW m, SoundRec(m), OffOf(m) = FALSE => FlagOf(m) = FALSE,
           NEW s \in Windowed, NEW w, w = LoadWindow(m, s)
    PROVE  /\ Passes(m, w, {Seen(m)})
           /\ ValOf(w) = ValOf(m) /\ HintOf(w) = HintOf(m) /\ InfoOf(w) = InfoOf(m)
           /\ FlagOf(w) = FlagOf(m) /\ DiskOf(w) = DiskOf(m)
           /\ ResOf(w) = "OK" => SectOf(w) = s
           /\ FuseOf(m) = -1 => ResOf(w) = "OK"
<1> PICK r : r = disk_read(m) OBVIOUS
<1>1. /\ Shaped(r) /\ IsRec(r)
      /\ DiskOf(r) = DiskOf(m) /\ WinOf(r) = WinOf(m) /\ SectOf(r) = SectOf(m)
      /\ FlagOf(r) = FlagOf(m) /\ HintOf(r) = HintOf(m) /\ InfoOf(r) = InfoOf(m)
      /\ ValOf(r) = ValOf(m) /\ FaultOf(r) = FaultOf(m) /\ OffOf(r) = OffOf(m)
      /\ FuseOf(m) = -1 => FuseOf(r) = -1 /\ ResOf(r) = "OK"
  BY ReadSound DEF SoundRec, Shaped
<1>2. s \in Sectors  BY DEF Windowed, Sectors
<1>3. IsDisk(DiskOf(m)) /\ (~OffOf(m) => WindowSound(m))  BY DEF SoundRec
<1>4. \E x, y :
          /\ y \in Sectors \cup {NoSector}
          /\ Fields(w, DiskOf(r), x, y, FlagOf(r), HintOf(r), InfoOf(r),
                    ResOf(r), ValOf(r), FuseOf(r), FaultOf(r), OffOf(r))
          /\ y = NoSector \/ (y = s /\ x = DiskOf(m)[s])
          /\ ResOf(r) = "OK" => y = s
  <2>1. CASE ResOf(r) = "OK"
    <3> PICK x : x = DiskOf(m)[s] OBVIOUS
    <3>1. w = [r EXCEPT !.winsect = s, !.win = x]
      BY <2>1 DEF LoadWindow, ResOf, DiskOf
    <3>2. Fields(w, DiskOf(r), x, s, FlagOf(r), HintOf(r), InfoOf(r),
                 ResOf(r), ValOf(r), FuseOf(r), FaultOf(r), OffOf(r))
      BY ONLY <3>1, <1>1, UpdWindow
    <3> QED  BY ONLY <3>2, <1>2, x = DiskOf(m)[s]
  <2>2. CASE ResOf(r) # "OK"
    <3>1. w = [r EXCEPT !.winsect = NoSector]
      BY <2>2 DEF LoadWindow, ResOf
    <3>2. Fields(w, DiskOf(r), WinOf(r), NoSector, FlagOf(r), HintOf(r), InfoOf(r),
                 ResOf(r), ValOf(r), FuseOf(r), FaultOf(r), OffOf(r))
      BY ONLY <3>1, <1>1, UpdSect
    <3> QED  BY ONLY <3>2, <2>2
  <2> QED  BY <2>1, <2>2
<1>5. PICK x, y :
          /\ y \in Sectors \cup {NoSector}
          /\ Fields(w, DiskOf(r), x, y, FlagOf(r), HintOf(r), InfoOf(r),
                    ResOf(r), ValOf(r), FuseOf(r), FaultOf(r), OffOf(r))
          /\ y = NoSector \/ (y = s /\ x = DiskOf(m)[s])
          /\ ResOf(r) = "OK" => y = s
  BY <1>4
<1>6. /\ IsRec(w) /\ DiskOf(w) = DiskOf(m) /\ WinOf(w) = x /\ SectOf(w) = y
      /\ FlagOf(w) = FlagOf(m) /\ HintOf(w) = HintOf(m) /\ InfoOf(w) = InfoOf(m)
      /\ ResOf(w) = ResOf(r) /\ ValOf(w) = ValOf(m) /\ FuseOf(w) = FuseOf(r)
      /\ FaultOf(w) = FaultOf(m) /\ OffOf(w) = OffOf(m)
  BY ONLY <1>1, <1>5 DEF Fields
<1>7. Shaped(w)  BY ONLY <1>1, <1>6 DEF Shaped
<1>8. NoSector \notin Windowed
  BY SectorKinds DEF Windowed
<1>9. ~OffOf(w) => WindowSound(w)
  BY <1>1, <1>3, <1>5, <1>6, <1>8 DEF WindowSound, Shaped
<1>10. SoundRec(w)  BY <1>3, <1>6, <1>7, <1>9 DEF SoundRec
<1>11. Card(w) = Card(m)  BY <1>6 DEF Card
<1>12. ~OffOf(w) => Seen(w) = Seen(m)
  BY <1>1, <1>6 DEF Seen, Over, Shaped
<1>13. Passes(m, w, {Seen(m)})
  BY <1>1, <1>6, <1>10, <1>11, <1>12 DEF Passes
<1> QED  BY <1>1, <1>5, <1>6, <1>13

(* move_window leaves the view as it is, also when it fails, and a good    *)
(* one leaves the window at the sector.                                    *)
LEMMA MoveSound ==
    ASSUME NEW m, SoundRec(m), NEW s \in Windowed, NEW w, w = move_window(m, s)
    PROVE  /\ Passes(m, w, {Seen(m)})
           /\ ValOf(w) = ValOf(m) /\ HintOf(w) = HintOf(m) /\ InfoOf(w) = InfoOf(m)
           /\ ~OffOf(w) /\ ResOf(w) = "OK" => SectOf(w) = s
           /\ FuseOf(m) = -1 => ResOf(w) = "OK"
           /\ ~OffOf(w) /\ ~FlagOf(m) => ~FlagOf(w)
<1>0. Shaped(m) /\ IsRec(m) /\ OffOf(m) \in BOOLEAN /\ HintOf(m) \in Int
  BY DEF SoundRec, Shaped
<1>1. CASE s = SectOf(m)
  <2>1. w = Ok(m)  BY <1>1 DEF move_window, SectOf
  <2>2. Passes(m, w, {Seen(m)})  BY <1>0, <2>1, OkShape, PassesSelf, PassesResult
  <2> QED  BY <1>0, <1>1, <2>1, <2>2, OkShape
<1>2. CASE s # SectOf(m)
  <2> PICK a : a = sync_window(m) OBVIOUS
  <2> PICK b : b = LoadWindow(a, s) OBVIOUS
  <2>1. w = IF ResOf(a) = "OK" THEN b ELSE a
    BY <1>2 DEF move_window, Then, SectOf, ResOf
  <2>2. /\ Passes(m, a, {Seen(m)}) /\ SoundRec(a)
        /\ ValOf(a) = ValOf(m) /\ HintOf(a) = HintOf(m) /\ InfoOf(a) = InfoOf(m)
        /\ ~OffOf(a) /\ ResOf(a) = "OK" => ~FlagOf(a)
        /\ FuseOf(m) = -1 => ResOf(a) = "OK"
    BY SyncSound DEF Passes
  <2>3. CASE ResOf(a) # "OK"
    <3>1. ~FlagOf(m) => ResOf(a) = "OK"
      <4>1. ~FlagOf(m) => a = Ok(m)  BY DEF sync_window, FlagOf
      <4> QED  BY <4>1, <1>0, OkShape
    <3> QED  BY <2>1, <2>2, <2>3, <3>1
  <2>4. CASE ResOf(a) = "OK"
    <3>1. OffOf(a) = FALSE => FlagOf(a) = FALSE
      <4>1. ~OffOf(a) => FlagOf(a) \in BOOLEAN  BY <2>2 DEF SoundRec, WindowSound
      <4> QED  BY <2>2, <2>4, <4>1
    <3>2. /\ Passes(a, b, {Seen(a)})
          /\ ValOf(b) = ValOf(a) /\ HintOf(b) = HintOf(a) /\ InfoOf(b) = InfoOf(a)
          /\ FlagOf(b) = FlagOf(a)
          /\ ResOf(b) = "OK" => SectOf(b) = s
          /\ FuseOf(a) = -1 => ResOf(b) = "OK"
      BY ONLY <2>2, <3>1, LoadSound, s \in Windowed, b = LoadWindow(a, s)
    <3>3. ~OffOf(b) => ~OffOf(a)  BY <3>2 DEF Passes
    <3>4. ~OffOf(a) => Seen(a) = Seen(m)  BY <2>2 DEF Passes
    <3>5. Passes(m, b, {Seen(m)})
      BY ONLY <2>2, <3>2, <3>4 DEF Passes
    <3>6. FuseOf(m) = -1 => FuseOf(a) = -1  BY <2>2 DEF Passes
    <3> QED  BY <2>1, <2>2, <2>4, <3>1, <3>2, <3>3, <3>5, <3>6, <2>2 DEF SoundRec, Shaped
  <2> QED  BY <2>3, <2>4
<1> QED  BY <1>1, <1>2

(***************************************************************************)
(* The FAT and the directory, through the window.                          *)
(***************************************************************************)
AtSect(m, s) == OffOf(m) = FALSE => SectOf(m) = s
CanPoke(m, s, k, x) ==
    /\ SoundRec(m) /\ s \in Windowed
    /\ OffOf(m) = FALSE => SectOf(m) = s /\ Holds(s, Put(WinOf(m), k, x))

(* Poke changes what the driver sees in one place, and not the card.       *)
LEMMA PokeSound ==
    ASSUME NEW m, NEW s, NEW k, NEW x, CanPoke(m, s, k, x), NEW w, w = Poke(m, k, x)
    PROVE  /\ SoundRec(w)
           /\ DiskOf(w) = DiskOf(m) /\ Card(w) = Card(m)
           /\ ~OffOf(m) => Seen(w) = Img(Put(Over(DiskOf(m), m), s, Put(Over(DiskOf(m), m)[s], k, x)))
           /\ ResOf(w) = "OK" /\ SectOf(w) = SectOf(m)
           /\ ValOf(w) = ValOf(m) /\ HintOf(w) = HintOf(m) /\ InfoOf(w) = InfoOf(m)
           /\ FuseOf(w) = FuseOf(m) /\ FaultOf(w) = FaultOf(m) /\ OffOf(w) = OffOf(m)
<1> PICK a : a = Ok(m) OBVIOUS
<1> PICK y : y = Put(WinOf(m), k, x) OBVIOUS
<1> PICK b : b = [a EXCEPT !.win = y] OBVIOUS
<1> SUFFICES ASSUME SoundRec(m), s \in Windowed,
                    OffOf(m) = FALSE => SectOf(m) = s /\ Holds(s, Put(WinOf(m), k, x))
             PROVE  /\ SoundRec(w)
                    /\ DiskOf(w) = DiskOf(m) /\ Card(w) = Card(m)
                    /\ ~OffOf(m) => Seen(w) = Img(Put(Over(DiskOf(m), m), s, Put(Over(DiskOf(m), m)[s], k, x)))
                    /\ ResOf(w) = "OK" /\ SectOf(w) = SectOf(m)
                    /\ ValOf(w) = ValOf(m) /\ HintOf(w) = HintOf(m) /\ InfoOf(w) = InfoOf(m)
                    /\ FuseOf(w) = FuseOf(m) /\ FaultOf(w) = FaultOf(m) /\ OffOf(w) = OffOf(m)
  BY DEF CanPoke
<1>0. Shaped(m) /\ IsRec(m) /\ IsDisk(DiskOf(m)) /\ (~OffOf(m) => WindowSound(m)) /\ OffOf(m) \in BOOLEAN
  BY DEF SoundRec, Shaped
<1>1. /\ IsRec(a) /\ ResOf(a) = "OK"
      /\ DiskOf(a) = DiskOf(m) /\ WinOf(a) = WinOf(m) /\ SectOf(a) = SectOf(m)
      /\ FlagOf(a) = FlagOf(m) /\ HintOf(a) = HintOf(m) /\ InfoOf(a) = InfoOf(m)
      /\ ValOf(a) = ValOf(m) /\ FuseOf(a) = FuseOf(m) /\ FaultOf(a) = FaultOf(m)
      /\ OffOf(a) = OffOf(m)
  BY <1>0, OkShape
<1>2. w = [[a EXCEPT !.win[k] = x] EXCEPT !.wflag = TRUE]
  BY DEF Poke
<1>3. [a EXCEPT !.win[k] = x] = b
  BY <1>1 DEF WinOf, Put
<1>4. w = [b EXCEPT !.wflag = TRUE]  BY <1>2, <1>3
<1>5. Fields(b, DiskOf(a), y, SectOf(a), FlagOf(a), HintOf(a), InfoOf(a),
             ResOf(a), ValOf(a), FuseOf(a), FaultOf(a), OffOf(a))
  BY ONLY <1>1, UpdWin, b = [a EXCEPT !.win = y]
<1>6. IsRec(b)  BY <1>5 DEF Fields
<1>7. Fields(w, DiskOf(b), WinOf(b), SectOf(b), TRUE, HintOf(b), InfoOf(b),
             ResOf(b), ValOf(b), FuseOf(b), FaultOf(b), OffOf(b))
  BY ONLY <1>4, <1>6, UpdFlag
<1>8. /\ IsRec(w) /\ ResOf(w) = "OK" /\ FlagOf(w) = TRUE
      /\ DiskOf(w) = DiskOf(m) /\ WinOf(w) = y /\ SectOf(w) = SectOf(m)
      /\ HintOf(w) = HintOf(m) /\ InfoOf(w) = InfoOf(m)
      /\ ValOf(w) = ValOf(m) /\ FuseOf(w) = FuseOf(m) /\ FaultOf(w) = FaultOf(m)
      /\ OffOf(w) = OffOf(m)
  BY ONLY <1>1, <1>5, <1>7 DEF Fields
<1>9. FlagOf(w) \in BOOLEAN  BY ONLY <1>8, Zenon
<1>10. Shaped(w)  BY ONLY <1>0, <1>8 DEF Shaped
<1>11. ~OffOf(w) => WindowSound(w)
  BY <1>0, <1>8, <1>9 DEF WindowSound, Windowed, Sectors
<1>12. SoundRec(w)  BY <1>0, <1>8, <1>10, <1>11 DEF SoundRec
<1>13. Card(w) = Card(m)  BY <1>8 DEF Card
<1>14. ASSUME ~OffOf(m)
       PROVE  Seen(w) = Img(Put(Over(DiskOf(m), m), s, Put(Over(DiskOf(m), m)[s], k, x)))
  <2>0. OffOf(m) = FALSE  BY <1>14, <1>0
  <2> PICK d : d = Over(DiskOf(m), m) OBVIOUS
  <2>1. d[s] = WinOf(m) /\ d = Put(DiskOf(m), s, WinOf(m)) /\ SectOf(m) = s
    BY <2>0, OverDisk
  <2>2. Over(DiskOf(w), w) = Put(DiskOf(m), s, y)
    BY <1>8, <2>1 DEF Over
  <2>3. Put(d, s, y) = Put(DiskOf(m), s, y)
    BY <2>1 DEF Put
  <2> QED  BY <2>1, <2>2, <2>3 DEF Seen
<1> QED  BY <1>8, <1>12, <1>13, <1>14

(* An entry of the FAT poked in the window changes the view and not yet    *)
(* the card.                                                               *)
LEMMA PokeFat ==
    ASSUME NEW m, SoundRec(m), NEW c \in Clusters, AtSect(m, FatSector(c)),
           NEW x \in Links, NEW w, w = Poke(m, c, x)
    PROVE  /\ SoundRec(w)
           /\ DiskOf(w) = DiskOf(m) /\ Card(w) = Card(m)
           /\ ~OffOf(m) => Seen(w) = SetFat(Seen(m), c, x)
           /\ ResOf(w) = "OK" /\ SectOf(w) = SectOf(m)
           /\ ValOf(w) = ValOf(m) /\ HintOf(w) = HintOf(m) /\ InfoOf(w) = InfoOf(m)
           /\ FuseOf(w) = FuseOf(m) /\ FaultOf(w) = FaultOf(m) /\ OffOf(w) = OffOf(m)
<1> PICK s : s = FatSector(c) OBVIOUS
<1>0. s \in Windowed /\ s \in FatSectors /\ OffOf(m) \in BOOLEAN /\ s \in Sectors
  BY SectorKinds DEF Windowed, SoundRec, Shaped, Sectors
<1>1. ASSUME OffOf(m) = FALSE
      PROVE  Holds(s, Put(WinOf(m), c, x)) /\ IsDisk(Over(DiskOf(m), m))
  <2>1. IsDisk(Over(DiskOf(m), m)) /\ Over(DiskOf(m), m)[s] = WinOf(m)
    BY <1>0, <1>1, OverDisk DEF AtSect
  <2>2. WinOf(m) \in FatContents(s)  BY <1>0, <2>1, HoldsKinds DEF IsDisk
  <2>3. Put(WinOf(m), c, x) \in FatContents(s)  BY <2>2 DEF FatContents, Put
  <2> QED  BY <1>0, <2>1, <2>3, HoldsKinds
<1>2. CanPoke(m, s, c, x)
  BY <1>0, <1>1 DEF CanPoke, AtSect
<1>3. /\ SoundRec(w)
      /\ DiskOf(w) = DiskOf(m) /\ Card(w) = Card(m)
      /\ ~OffOf(m) => Seen(w) = Img(Put(Over(DiskOf(m), m), s, Put(Over(DiskOf(m), m)[s], c, x)))
      /\ ResOf(w) = "OK" /\ SectOf(w) = SectOf(m)
      /\ ValOf(w) = ValOf(m) /\ HintOf(w) = HintOf(m) /\ InfoOf(w) = InfoOf(m)
      /\ FuseOf(w) = FuseOf(m) /\ FaultOf(w) = FaultOf(m) /\ OffOf(w) = OffOf(m)
  BY ONLY <1>2, PokeSound, w = Poke(m, c, x)
<1>4. ~OffOf(m) => Seen(w) = SetFat(Seen(m), c, x)
  BY <1>0, <1>1, <1>3, ImgFat DEF Seen
<1> QED  BY <1>3, <1>4

(* The same for a directory entry.                                         *)
LEMMA PokeDir ==
    ASSUME NEW m, SoundRec(m), NEW i \in 1 .. Slots, AtSect(m, DirSector(i)),
           NEW x \in DirEntries, NEW w, w = Poke(m, i, x)
    PROVE  /\ SoundRec(w)
           /\ DiskOf(w) = DiskOf(m) /\ Card(w) = Card(m)
           /\ ~OffOf(m) => Seen(w) = SetDir(Seen(m), i, x)
           /\ ResOf(w) = "OK" /\ SectOf(w) = SectOf(m)
           /\ ValOf(w) = ValOf(m) /\ HintOf(w) = HintOf(m) /\ InfoOf(w) = InfoOf(m)
           /\ FuseOf(w) = FuseOf(m) /\ FaultOf(w) = FaultOf(m) /\ OffOf(w) = OffOf(m)
<1> PICK s : s = DirSector(i) OBVIOUS
<1>0. s \in Windowed /\ s \in DirSectors /\ OffOf(m) \in BOOLEAN /\ s \in Sectors
  BY SectorKinds DEF Windowed, SoundRec, Shaped, Sectors
<1>1. ASSUME OffOf(m) = FALSE
      PROVE  Holds(s, Put(WinOf(m), i, x)) /\ IsDisk(Over(DiskOf(m), m))
  <2>1. IsDisk(Over(DiskOf(m), m)) /\ Over(DiskOf(m), m)[s] = WinOf(m)
    BY <1>0, <1>1, OverDisk DEF AtSect
  <2>2. WinOf(m) \in DirContents(s)  BY <1>0, <2>1, HoldsKinds DEF IsDisk
  <2>3. Put(WinOf(m), i, x) \in DirContents(s)  BY <2>2 DEF DirContents, Put
  <2> QED  BY <1>0, <2>1, <2>3, HoldsKinds
<1>2. CanPoke(m, s, i, x)
  BY <1>0, <1>1 DEF CanPoke, AtSect
<1>3. /\ SoundRec(w)
      /\ DiskOf(w) = DiskOf(m) /\ Card(w) = Card(m)
      /\ ~OffOf(m) => Seen(w) = Img(Put(Over(DiskOf(m), m), s, Put(Over(DiskOf(m), m)[s], i, x)))
      /\ ResOf(w) = "OK" /\ SectOf(w) = SectOf(m)
      /\ ValOf(w) = ValOf(m) /\ HintOf(w) = HintOf(m) /\ InfoOf(w) = InfoOf(m)
      /\ FuseOf(w) = FuseOf(m) /\ FaultOf(w) = FaultOf(m) /\ OffOf(w) = OffOf(m)
  BY ONLY <1>2, PokeSound, w = Poke(m, i, x)
<1>4. ~OffOf(m) => Seen(w) = SetDir(Seen(m), i, x)
  BY <1>0, <1>1, <1>3, ImgDir DEF Seen
<1> QED  BY <1>3, <1>4

(* What the window shows of the image. *)
LEMMA WindowShows ==
    ASSUME NEW m, SoundRec(m), OffOf(m) = FALSE
    PROVE  /\ \A c \in Clusters : SectOf(m) = FatSector(c) => WinOf(m)[c] = Seen(m).fat[c]
           /\ \A i \in 1 .. Slots : SectOf(m) = DirSector(i) => WinOf(m)[i] = Seen(m).dir[i]
           /\ Seen(m).data = Card(m).data
           /\ SectOf(m) \in DirSectors => Seen(m).fat = Card(m).fat
           /\ FlagOf(m) = FALSE => Seen(m) = Card(m)
<1> PICK d : d = Over(DiskOf(m), m) OBVIOUS
<1>0. IsDisk(DiskOf(m)) /\ WindowSound(m) /\ Seen(m) = Img(d) /\ Card(m) = Img(DiskOf(m))
  BY DEF SoundRec, Seen, Card
<1>1. SectOf(m) \in Windowed => d[SectOf(m)] = WinOf(m) /\ d = Put(DiskOf(m), SectOf(m), WinOf(m))
  BY OverDisk
<1>2. \A c \in Clusters : SectOf(m) = FatSector(c) => WinOf(m)[c] = Seen(m).fat[c]
  <2> SUFFICES ASSUME NEW c \in Clusters, SectOf(m) = FatSector(c)
               PROVE  WinOf(m)[c] = Seen(m).fat[c]
    OBVIOUS
  <2>1. SectOf(m) \in Windowed  BY SectorKinds DEF Windowed
  <2>2. Seen(m).fat[c] = FatOf(d, c)  BY <1>0 DEF Img
  <2> QED  BY <1>1, <2>1, <2>2 DEF FatOf
<1>3. \A i \in 1 .. Slots : SectOf(m) = DirSector(i) => WinOf(m)[i] = Seen(m).dir[i]
  <2> SUFFICES ASSUME NEW i \in 1 .. Slots, SectOf(m) = DirSector(i)
               PROVE  WinOf(m)[i] = Seen(m).dir[i]
    OBVIOUS
  <2>1. SectOf(m) \in Windowed  BY SectorKinds DEF Windowed
  <2>2. Seen(m).dir[i] = EntryOf(d, i)  BY <1>0 DEF Img
  <2> QED  BY <1>1, <2>1, <2>2 DEF EntryOf
<1>4. d = DiskOf(m) \/ (SectOf(m) \in Windowed /\ d = Put(DiskOf(m), SectOf(m), WinOf(m)))
  BY <1>0 DEF Over, WindowSound
<1>5. \A t \in Sectors : t # SectOf(m) \/ SectOf(m) \notin Windowed => d[t] = DiskOf(m)[t]
  <2>1. \A t \in Sectors : t # SectOf(m) => Put(DiskOf(m), SectOf(m), WinOf(m))[t] = DiskOf(m)[t]
    BY <1>0 DEF IsDisk, Put
  <2> QED  BY <1>4, <2>1
<1>6. Seen(m).data = Card(m).data
  <2>1. \A c \in Clusters : d[DataSector(c)] = DiskOf(m)[DataSector(c)]
    <3> TAKE c \in Clusters
    <3>1. DataSector(c) \in Sectors /\ DataSector(c) \notin Windowed
      BY SectorKinds DEF Sectors, Windowed
    <3> QED  BY <1>5, <3>1
  <2> QED  BY <1>0, <2>1 DEF Img
<1>7. SectOf(m) \in DirSectors => Seen(m).fat = Card(m).fat
  <2> SUFFICES ASSUME SectOf(m) \in DirSectors PROVE Seen(m).fat = Card(m).fat
    OBVIOUS
  <2>1. \A c \in Clusters : FatOf(d, c) = FatOf(DiskOf(m), c)
    <3> TAKE c \in Clusters
    <3>1. FatSector(c) \in Sectors /\ FatSector(c) # SectOf(m)
      BY SectorKinds DEF Sectors
    <3> QED  BY <1>5, <3>1 DEF FatOf
  <2> QED  BY <1>0, <2>1 DEF Img
<1>8. FlagOf(m) = FALSE => Seen(m) = Card(m)
  BY DEF Seen, Card, Over
<1> QED  BY <1>2, <1>3, <1>6, <1>7, <1>8

(* get_fat: the entry the driver sees, or that it could not be read.       *)
LEMMA GetSound ==
    ASSUME NEW m, SoundRec(m), NEW c \in Clusters, NEW w, w = get_fat(m, c)
    PROVE  /\ Passes(m, w, {Seen(m)})
           /\ HintOf(w) = HintOf(m) /\ InfoOf(w) = InfoOf(m)
           /\ ~OffOf(w) /\ ResOf(w) = "OK" => ValOf(w) = Seen(m).fat[c] /\ SectOf(w) = FatSector(c)
           /\ ResOf(w) # "OK" => ValOf(w) = DiskError
           /\ FuseOf(m) = -1 => ResOf(w) = "OK"
           /\ ~OffOf(w) /\ ~FlagOf(m) => ~FlagOf(w)
<1> PICK a : a = move_window(m, FatSector(c)) OBVIOUS
<1> PICK x : x = IF ResOf(a) = "OK" THEN WinOf(a)[c] ELSE DiskError OBVIOUS
<1>0. FatSector(c) \in Windowed  BY SectorKinds DEF Windowed
<1>1. /\ Passes(m, a, {Seen(m)})
      /\ HintOf(a) = HintOf(m) /\ InfoOf(a) = InfoOf(m)
      /\ ~OffOf(a) /\ ResOf(a) = "OK" => SectOf(a) = FatSector(c)
      /\ FuseOf(m) = -1 => ResOf(a) = "OK"
      /\ ~OffOf(a) /\ ~FlagOf(m) => ~FlagOf(a)
  BY ONLY <1>0, SoundRec(m), MoveSound, a = move_window(m, FatSector(c))
<1>2. w = [a EXCEPT !.val = x]
  BY DEF get_fat, Entry, ResOf, WinOf
<1>3. SoundRec(a) /\ IsRec(a) /\ OffOf(a) \in BOOLEAN /\ HintOf(a) \in Int
  BY <1>1 DEF Passes, SoundRec, Shaped
<1>4. /\ IsRec(w) /\ ResOf(w) = ResOf(a) /\ ValOf(w) = x
      /\ DiskOf(w) = DiskOf(a) /\ WinOf(w) = WinOf(a) /\ SectOf(w) = SectOf(a)
      /\ FlagOf(w) = FlagOf(a) /\ HintOf(w) = HintOf(a) /\ InfoOf(w) = InfoOf(a)
      /\ FuseOf(w) = FuseOf(a) /\ FaultOf(w) = FaultOf(a) /\ OffOf(w) = OffOf(a)
  BY ONLY <1>2, <1>3, UpdVal DEF Fields
<1>5. Passes(m, w, {Seen(m)})
  BY ONLY <1>1, <1>3, <1>4, PassesResult
<1>6. OffOf(a) = FALSE => Seen(a) = Seen(m)
  BY <1>1 DEF Passes
<1>7. OffOf(a) = FALSE /\ ResOf(a) = "OK" => x = Seen(m).fat[c]
  <2> SUFFICES ASSUME OffOf(a) = FALSE, ResOf(a) = "OK" PROVE x = Seen(m).fat[c]
    OBVIOUS
  <2>1. SectOf(a) = FatSector(c)  BY <1>1
  <2>2. WinOf(a)[c] = Seen(a).fat[c]  BY <1>3, <2>1, WindowShows
  <2> QED  BY <1>6, <2>2
<1> QED  BY <1>1, <1>3, <1>4, <1>5, <1>7

(* A window moved to a sector, and a value put there.                      *)
DirPut(m, i, x) == Then(move_window(m, DirSector(i)), LAMBDA w : Poke(w, i, x))

(* put_fat: the view has the entry set, or it failed and the view is as    *)
(* before.                                                                 *)
LEMMA PutSound ==
    ASSUME NEW m, SoundRec(m), NEW c \in Clusters, NEW x \in Links, NEW w, w = put_fat(m, c, x)
    PROVE  /\ Passes(m, w, {Seen(m), SetFat(Seen(m), c, x)})
           /\ ValOf(w) = ValOf(m) /\ HintOf(w) = HintOf(m) /\ InfoOf(w) = InfoOf(m)
           /\ ~OffOf(w) /\ ResOf(w) = "OK" => Seen(w) = SetFat(Seen(m), c, x)
           /\ ~OffOf(w) /\ ResOf(w) # "OK" => Seen(w) = Seen(m) /\ Passes(m, w, {Seen(m)})
           /\ FuseOf(m) = -1 => ResOf(w) = "OK"
<1> PICK a : a = move_window(m, FatSector(c)) OBVIOUS
<1> PICK b : b = Poke(a, c, x) OBVIOUS
<1>0. FatSector(c) \in Windowed  BY SectorKinds DEF Windowed
<1>1. /\ Passes(m, a, {Seen(m)})
      /\ ValOf(a) = ValOf(m) /\ HintOf(a) = HintOf(m) /\ InfoOf(a) = InfoOf(m)
      /\ ~OffOf(a) /\ ResOf(a) = "OK" => SectOf(a) = FatSector(c)
      /\ FuseOf(m) = -1 => ResOf(a) = "OK"
  BY ONLY <1>0, SoundRec(m), MoveSound, a = move_window(m, FatSector(c))
<1>2. w = IF ResOf(a) = "OK" THEN b ELSE a
  BY DEF put_fat, Then, ResOf
<1>3. SoundRec(a) /\ OffOf(a) \in BOOLEAN  BY <1>1 DEF Passes, SoundRec, Shaped
<1>4. OffOf(a) = FALSE => OffOf(m) = FALSE /\ Seen(a) = Seen(m)
  BY <1>1, SoundRec(m) DEF Passes, SoundRec, Shaped
<1>5. CASE ResOf(a) # "OK"
  <2>1. Passes(m, w, {Seen(m), SetFat(Seen(m), c, x)})
    BY <1>1, <1>2, <1>5, PassesWiden
  <2> QED  BY <1>1, <1>2, <1>3, <1>4, <1>5, <2>1
<1>6. CASE ResOf(a) = "OK"
  <2>1. AtSect(a, FatSector(c))  BY <1>1, <1>6 DEF AtSect
  <2>2. /\ SoundRec(b)
        /\ DiskOf(b) = DiskOf(a) /\ Card(b) = Card(a)
        /\ ~OffOf(a) => Seen(b) = SetFat(Seen(a), c, x)
        /\ ResOf(b) = "OK"
        /\ ValOf(b) = ValOf(a) /\ HintOf(b) = HintOf(a) /\ InfoOf(b) = InfoOf(a)
        /\ FuseOf(b) = FuseOf(a) /\ FaultOf(b) = FaultOf(a) /\ OffOf(b) = OffOf(a)
    BY ONLY <1>3, <2>1, c \in Clusters, x \in Links, b = Poke(a, c, x), PokeFat
  <2>3. Passes(m, b, {Seen(m), SetFat(Seen(m), c, x)})
    BY <1>1, <1>3, <1>4, <2>2 DEF Passes
  <2> QED  BY <1>1, <1>2, <1>3, <1>4, <1>6, <2>2, <2>3
<1> QED  BY <1>5, <1>6

(* A directory entry set by way of the window: the same.                   *)
LEMMA DirPutSound ==
    ASSUME NEW m, SoundRec(m), NEW i \in 1 .. Slots, NEW x \in DirEntries, NEW w, w = DirPut(m, i, x)
    PROVE  /\ Passes(m, w, {Seen(m), SetDir(Seen(m), i, x)})
           /\ ValOf(w) = ValOf(m) /\ HintOf(w) = HintOf(m) /\ InfoOf(w) = InfoOf(m)
           /\ ~OffOf(w) /\ ResOf(w) = "OK" => Seen(w) = SetDir(Seen(m), i, x) /\ SectOf(w) = DirSector(i)
           /\ ~OffOf(w) /\ ResOf(w) # "OK" => Seen(w) = Seen(m)
           /\ FuseOf(m) = -1 => ResOf(w) = "OK"
<1> PICK a : a = move_window(m, DirSector(i)) OBVIOUS
<1> PICK b : b = Poke(a, i, x) OBVIOUS
<1>0. DirSector(i) \in Windowed  BY SectorKinds DEF Windowed
<1>1. /\ Passes(m, a, {Seen(m)})
      /\ ValOf(a) = ValOf(m) /\ HintOf(a) = HintOf(m) /\ InfoOf(a) = InfoOf(m)
      /\ ~OffOf(a) /\ ResOf(a) = "OK" => SectOf(a) = DirSector(i)
      /\ FuseOf(m) = -1 => ResOf(a) = "OK"
  BY ONLY <1>0, SoundRec(m), MoveSound, a = move_window(m, DirSector(i))
<1>2. w = IF ResOf(a) = "OK" THEN b ELSE a
  BY DEF DirPut, Then, ResOf
<1>3. SoundRec(a) /\ OffOf(a) \in BOOLEAN  BY <1>1 DEF Passes, SoundRec, Shaped
<1>4. OffOf(a) = FALSE => OffOf(m) = FALSE /\ Seen(a) = Seen(m)
  BY <1>1, SoundRec(m) DEF Passes, SoundRec, Shaped
<1>5. CASE ResOf(a) # "OK"
  <2>1. Passes(m, w, {Seen(m), SetDir(Seen(m), i, x)})
    BY <1>1, <1>2, <1>5, PassesWiden
  <2> QED  BY <1>1, <1>2, <1>3, <1>4, <1>5, <2>1
<1>6. CASE ResOf(a) = "OK"
  <2>1. AtSect(a, DirSector(i))  BY <1>1, <1>6 DEF AtSect
  <2>2. /\ SoundRec(b)
        /\ DiskOf(b) = DiskOf(a) /\ Card(b) = Card(a)
        /\ ~OffOf(a) => Seen(b) = SetDir(Seen(a), i, x)
        /\ ResOf(b) = "OK" /\ SectOf(b) = SectOf(a)
        /\ ValOf(b) = ValOf(a) /\ HintOf(b) = HintOf(a) /\ InfoOf(b) = InfoOf(a)
        /\ FuseOf(b) = FuseOf(a) /\ FaultOf(b) = FaultOf(a) /\ OffOf(b) = OffOf(a)
    BY ONLY <1>3, <2>1, i \in 1 .. Slots, x \in DirEntries, b = Poke(a, i, x), PokeDir
  <2>3. Passes(m, b, {Seen(m), SetDir(Seen(m), i, x)})
    BY <1>1, <1>3, <1>4, <2>2 DEF Passes
  <2> QED  BY <1>1, <1>2, <1>3, <1>4, <1>6, <2>1, <2>2, <2>3 DEF AtSect
<1> QED  BY <1>5, <1>6

(* A sequence of two operations.                                           *)
LEMMA PassesThen ==
    ASSUME NEW m, NEW a, NEW w, NEW X, NEW Y, NEW W,
           SoundRec(m), Passes(m, a, X), Passes(a, w, Y), X \subseteq W, Y \subseteq W
    PROVE  Passes(m, w, W)
BY DEF Passes, SoundRec, Shaped

(* An iteration of remove_chain frees the cluster, or changes nothing.     *)
Freed(m, c, w) ==
    /\ Passes(m, w, {Seen(m), SetFat(Seen(m), c, Free)})
    /\ ~OffOf(w) /\ ResOf(w) = "OK" =>
          /\ ValOf(w) = Seen(m).fat[c]
          /\ Seen(w) = IF Seen(m).fat[c] = Free THEN Seen(m) ELSE SetFat(Seen(m), c, Free)
    /\ ~OffOf(w) /\ ResOf(w) # "OK" => Seen(w) = Seen(m)
    /\ FuseOf(m) = -1 /\ ~OffOf(w) => ResOf(w) = "OK"

(* An iteration of remove_chain frees the cluster it looked at, or fails   *)
(* and frees nothing.                                                      *)
LEMMA FreeLinkSound ==
    ASSUME NEW m, SoundRec(m), NEW c \in Clusters, NEW w, w = FreeLink(get_fat(m, c), c)
    PROVE  Freed(m, c, w)
<1> SUFFICES    /\ Passes(m, w, {Seen(m), SetFat(Seen(m), c, Free)})
                /\ ~OffOf(w) /\ ResOf(w) = "OK" =>
                      /\ ValOf(w) = Seen(m).fat[c]
                      /\ Seen(w) = IF Seen(m).fat[c] = Free THEN Seen(m) ELSE SetFat(Seen(m), c, Free)
                /\ ~OffOf(w) /\ ResOf(w) # "OK" => Seen(w) = Seen(m)
                /\ FuseOf(m) = -1 /\ ~OffOf(w) => ResOf(w) = "OK"
  BY DEF Freed
<1> PICK a : a = get_fat(m, c) OBVIOUS
<1>1. /\ Passes(m, a, {Seen(m)})
      /\ ~OffOf(a) /\ ResOf(a) = "OK" => ValOf(a) = Seen(m).fat[c]
      /\ ResOf(a) # "OK" => ValOf(a) = DiskError
      /\ FuseOf(m) = -1 => ResOf(a) = "OK"
  BY GetSound
<1>2. SoundRec(a) /\ IsRec(a) /\ OffOf(a) \in BOOLEAN /\ HintOf(a) \in Int /\ OffOf(m) \in BOOLEAN
  BY <1>1 DEF Passes, SoundRec, Shaped
<1>3. OffOf(a) = FALSE => OffOf(m) = FALSE /\ Seen(a) = Seen(m)
  BY <1>1, <1>2 DEF Passes
<1>4. OffOf(m) = FALSE => Seen(m) \in Imgs /\ Seen(m).fat[c] \in Links
  <2>1. OffOf(m) = FALSE => Seen(m) \in Imgs  BY SeenType
  <2> QED  BY <2>1 DEF Imgs
<1>5. Free \notin {Insane, DiskError, Eoc} /\ Insane \notin Links /\ DiskError \notin Links
      /\ DiskError # Insane /\ Free \in Links
  BY VolumeAssumption DEF Free, Insane, DiskError, Eoc, Links, Clusters
<1>6. CASE ValOf(a) \in {Insane, DiskError}
  <2>1. \E r : w = Fail(a, r) /\ r # "OK"
    <3>1. CASE ValOf(a) = Insane
      <4>1. w = Fail(a, "INT_ERR")  BY <3>1, <1>5 DEF FreeLink, ValOf
      <4> QED  BY <4>1
    <3>2. CASE ValOf(a) = DiskError
      <4>1. w = Fail(a, "DISK_ERR")  BY <3>2, <1>5 DEF FreeLink, ValOf
      <4> QED  BY <4>1
    <3> QED  BY <3>1, <3>2, <1>6
  <2> PICK r : w = Fail(a, r) /\ r # "OK"  BY <2>1
  <2>2. /\ IsRec(w) /\ ResOf(w) = r /\ ValOf(w) = ValOf(a)
        /\ DiskOf(w) = DiskOf(a) /\ WinOf(w) = WinOf(a) /\ SectOf(w) = SectOf(a)
        /\ FlagOf(w) = FlagOf(a) /\ HintOf(w) = HintOf(a) /\ InfoOf(w) = InfoOf(a)
        /\ FuseOf(w) = FuseOf(a) /\ FaultOf(w) = FaultOf(a) /\ OffOf(w) = OffOf(a)
    BY ONLY <1>2, OkShape, w = Fail(a, r) /\ r # "OK"
  <2>3. Passes(m, w, {Seen(m)}) /\ Seen(w) = Seen(a)
    BY ONLY <1>1, <1>2, <2>2, PassesResult
  <2>4. Passes(m, w, {Seen(m), SetFat(Seen(m), c, Free)})
    BY <2>3, PassesWiden
  <2>5. FuseOf(m) = -1 => OffOf(w)
    BY <1>1, <1>2, <1>3, <1>4, <1>5, <1>6, <2>2
  <2> QED  BY <1>2, <1>3, <2>2, <2>3, <2>4, <2>5
<1>7. CASE ValOf(a) = Free
  <2>1. w = Ok(a)  BY <1>5, <1>7 DEF FreeLink, ValOf
  <2>2. /\ IsRec(w) /\ ResOf(w) = "OK" /\ ValOf(w) = ValOf(a)
        /\ DiskOf(w) = DiskOf(a) /\ WinOf(w) = WinOf(a) /\ SectOf(w) = SectOf(a)
        /\ FlagOf(w) = FlagOf(a) /\ HintOf(w) = HintOf(a) /\ InfoOf(w) = InfoOf(a)
        /\ FuseOf(w) = FuseOf(a) /\ FaultOf(w) = FaultOf(a) /\ OffOf(w) = OffOf(a)
    BY ONLY <1>2, OkShape, <2>1
  <2>3. Passes(m, w, {Seen(m)}) /\ Seen(w) = Seen(a)
    BY ONLY <1>1, <1>2, <2>2, PassesResult
  <2>4. Passes(m, w, {Seen(m), SetFat(Seen(m), c, Free)})
    BY <2>3, PassesWiden
  <2>5. OffOf(a) = FALSE => Seen(m).fat[c] = Free
    BY <1>1, <1>5, <1>7
  <2> QED  BY <1>2, <1>3, <1>7, <2>2, <2>3, <2>4, <2>5
<1>8. CASE ValOf(a) \notin {Free, Insane, DiskError}
  <2>1. w = put_fat(a, c, Free)  BY <1>8 DEF FreeLink, ValOf
  <2>2. /\ Passes(a, w, {Seen(a), SetFat(Seen(a), c, Free)})
        /\ ValOf(w) = ValOf(a)
        /\ ~OffOf(w) /\ ResOf(w) = "OK" => Seen(w) = SetFat(Seen(a), c, Free)
        /\ ~OffOf(w) /\ ResOf(w) # "OK" => Seen(w) = Seen(a) /\ Passes(a, w, {Seen(a)})
        /\ FuseOf(a) = -1 => ResOf(w) = "OK"
    BY ONLY <1>2, <1>5, <2>1, c \in Clusters, PutSound
  <2>3. ~OffOf(w) => OffOf(a) = FALSE /\ Seen(a) = Seen(m)
    BY <1>2, <1>3, <2>2 DEF Passes
  <2>4. FuseOf(m) = -1 => FuseOf(a) = -1  BY <1>1 DEF Passes
  <2>5. Passes(m, w, {Seen(m), SetFat(Seen(m), c, Free)})
    <3>1. CASE OffOf(a) = FALSE
      BY <1>1, <1>2, <1>3, <3>1, <2>2 DEF Passes
    <3>2. CASE OffOf(a) # FALSE
      BY <1>1, <1>2, <3>2, <2>2 DEF Passes
    <3> QED  BY <3>1, <3>2
  <2>6. ~OffOf(w) => ResOf(a) = "OK" /\ Seen(m).fat[c] # Free
    BY <1>1, <1>8, <2>3
  <2>7. ~OffOf(w) => ValOf(a) = Seen(m).fat[c]
    BY <1>1, <2>3, <2>6
  <2> QED  BY <2>2, <2>3, <2>4, <2>5, <2>6, <2>7
<1> QED  BY <1>6, <1>7, <1>8

(* create_chain marks the cluster, then links it.                          *)
ClaimViews(v, c, n) ==
    {v, SetFat(v, n, Eoc), IF c = 0 THEN SetFat(v, n, Eoc) ELSE SetFat(SetFat(v, n, Eoc), c, n)}

ClaimEnds(m, c, n, w) ==
    /\ Passes(m, w, ClaimViews(Seen(m), c, n))
    /\ ~OffOf(w) /\ ResOf(w) = "OK" =>
          Seen(w) = IF c = 0 THEN SetFat(Seen(m), n, Eoc)
                    ELSE SetFat(SetFat(Seen(m), n, Eoc), c, n)
    /\ ~OffOf(w) /\ ResOf(w) # "OK" => \/ Seen(w) = Seen(m) /\ Passes(m, w, {Seen(m)})
                                       \/ Seen(w) = SetFat(Seen(m), n, Eoc)
    /\ FuseOf(m) = -1 => ResOf(w) = "OK"
(* create_chain marks the new cluster, then links it; what a fault leaves  *)
(* is one of the views on the way.                                         *)
LEMMA ClaimSound ==
    ASSUME NEW m, SoundRec(m), NEW c \in {0} \cup Clusters, NEW n \in Clusters,
           NEW w, w = Claimed(Claim(m, c, n), n)
    PROVE  ClaimEnds(m, c, n, w)
<1> SUFFICES /\ Passes(m, w, ClaimViews(Seen(m), c, n))
             /\ ~OffOf(w) /\ ResOf(w) = "OK" =>
                   Seen(w) = IF c = 0 THEN SetFat(Seen(m), n, Eoc)
                             ELSE SetFat(SetFat(Seen(m), n, Eoc), c, n)
             /\ ~OffOf(w) /\ ResOf(w) # "OK" => \/ Seen(w) = Seen(m) /\ Passes(m, w, {Seen(m)})
                                                \/ Seen(w) = SetFat(Seen(m), n, Eoc)
             /\ FuseOf(m) = -1 => ResOf(w) = "OK"
  BY DEF ClaimEnds
<1> PICK W : W = ClaimViews(Seen(m), c, n) OBVIOUS
<1> PICK a : a = put_fat(m, n, Eoc) OBVIOUS
<1> PICK b : b = put_fat(a, c, n) OBVIOUS
<1> PICK d : d = Claim(m, c, n) OBVIOUS
<1>0. Eoc \in Links /\ n \in Links /\ (c # 0 => c \in Clusters)  BY DEF Links
<1>1. /\ Passes(m, a, {Seen(m), SetFat(Seen(m), n, Eoc)})
      /\ ~OffOf(a) /\ ResOf(a) = "OK" => Seen(a) = SetFat(Seen(m), n, Eoc)
      /\ ~OffOf(a) /\ ResOf(a) # "OK" => Seen(a) = Seen(m) /\ Passes(m, a, {Seen(m)})
      /\ FuseOf(m) = -1 => ResOf(a) = "OK"
  BY ONLY <1>0, SoundRec(m), n \in Clusters, a = put_fat(m, n, Eoc), PutSound
<1>2. d = IF ResOf(a) = "OK" /\ c # 0 THEN b ELSE a
  BY DEF Claim, Then, ResOf
<1>3. SoundRec(a) /\ IsRec(a) /\ OffOf(a) \in BOOLEAN  BY <1>1 DEF Passes, SoundRec, Shaped
<1>4. /\ Passes(m, d, W)
      /\ ~OffOf(d) /\ ResOf(d) = "OK" =>
            Seen(d) = IF c = 0 THEN SetFat(Seen(m), n, Eoc) ELSE SetFat(SetFat(Seen(m), n, Eoc), c, n)
      /\ ~OffOf(d) /\ ResOf(d) # "OK" => \/ Seen(d) = Seen(m) /\ Passes(m, d, {Seen(m)})
                                         \/ Seen(d) = SetFat(Seen(m), n, Eoc)
      /\ FuseOf(m) = -1 => ResOf(d) = "OK"
  <2>1. CASE ~(ResOf(a) = "OK" /\ c # 0)
    <3>1. Passes(m, d, W)
      BY <1>1, <1>2, <2>1, PassesWiden DEF ClaimViews
    <3> QED  BY <1>1, <1>2, <2>1, <3>1
  <2>2. CASE ResOf(a) = "OK" /\ c # 0
    <3>1. /\ Passes(a, b, {Seen(a), SetFat(Seen(a), c, n)})
          /\ ~OffOf(b) /\ ResOf(b) = "OK" => Seen(b) = SetFat(Seen(a), c, n)
          /\ ~OffOf(b) /\ ResOf(b) # "OK" => Seen(b) = Seen(a) /\ Passes(a, b, {Seen(a)})
          /\ FuseOf(a) = -1 => ResOf(b) = "OK"
      BY ONLY <1>0, <1>3, <2>2, b = put_fat(a, c, n), PutSound
    <3>2. ~OffOf(b) => OffOf(a) = FALSE  BY <1>3, <3>1 DEF Passes
    <3>3. OffOf(a) = FALSE => Seen(a) = SetFat(Seen(m), n, Eoc)  BY <1>1, <2>2
    <3>4. FuseOf(m) = -1 => FuseOf(a) = -1  BY <1>1 DEF Passes
    <3>5. Passes(m, b, W)
      <4>1. W = {Seen(m), SetFat(Seen(m), n, Eoc), SetFat(SetFat(Seen(m), n, Eoc), c, n)}
        BY <2>2 DEF ClaimViews
      <4>2. CASE OffOf(a) = FALSE
        BY <1>1, <1>3, <3>1, <3>3, <4>1, <4>2 DEF Passes
      <4>3. CASE OffOf(a) # FALSE
        BY <1>1, <1>3, <3>1, <4>1, <4>3 DEF Passes
      <4> QED  BY <4>2, <4>3
    <3> QED  BY <1>2, <2>2, <3>1, <3>2, <3>3, <3>4, <3>5
  <2> QED  BY <2>1, <2>2
<1>5. CASE ResOf(d) # "OK"
  <2>1. w = d  BY <1>5 DEF Claimed, ResOf
  <2> QED  BY <1>4, <2>1
<1>6. CASE ResOf(d) = "OK"
  <2> PICK x : x = [d EXCEPT !.last_clst = n] OBVIOUS
  <2> PICK y : y = IF InfoOf(d) = 128 THEN 129 ELSE 1 OBVIOUS
  <2>0. SoundRec(d) /\ IsRec(d)  BY <1>4 DEF Passes, SoundRec, Shaped
  <2>1. /\ IsRec(x) /\ ResOf(x) = ResOf(d)
        /\ DiskOf(x) = DiskOf(d) /\ WinOf(x) = WinOf(d) /\ SectOf(x) = SectOf(d)
        /\ FlagOf(x) = FlagOf(d) /\ HintOf(x) = n /\ InfoOf(x) = InfoOf(d)
        /\ FuseOf(x) = FuseOf(d) /\ FaultOf(x) = FaultOf(d) /\ OffOf(x) = OffOf(d)
    BY ONLY <2>0, x = [d EXCEPT !.last_clst = n], UpdHint DEF Fields
  <2>2. w = [[d EXCEPT !.last_clst = n] EXCEPT !.fsi_flag = IF @ = 128 THEN 129 ELSE 1]
    BY <1>6 DEF Claimed, ResOf
  <2>3. w = [x EXCEPT !.fsi_flag = y]
    BY <2>1, <2>2 DEF InfoOf
  <2>4. /\ IsRec(w) /\ ResOf(w) = ResOf(d)
        /\ DiskOf(w) = DiskOf(d) /\ WinOf(w) = WinOf(d) /\ SectOf(w) = SectOf(d)
        /\ FlagOf(w) = FlagOf(d) /\ HintOf(w) = n
        /\ FuseOf(w) = FuseOf(d) /\ FaultOf(w) = FaultOf(d) /\ OffOf(w) = OffOf(d)
    BY ONLY <2>1, <2>3, UpdInfo DEF Fields
  <2>5. n \in Int  BY DEF Clusters
  <2>6. Passes(m, w, W) /\ Seen(w) = Seen(d)
    BY ONLY <1>4, <2>4, <2>5, PassesResult
  <2> QED  BY <1>4, <1>6, <2>4, <2>6
<1> QED  BY <1>5, <1>6

(* A sector of a file goes straight to the card.                           *)
DataEnds(m, c, x, w) ==
    /\ Passes(m, w, {Seen(m), SetData(Seen(m), c, x), SetData(Card(m), c, x)})
    /\ ~OffOf(w) => \/ Card(w) = Card(m) /\ Seen(w) = Seen(m) /\ ResOf(w) # "OK"
                    \/ Card(w) = SetData(Card(m), c, x) /\ Seen(w) = SetData(Seen(m), c, x)
    /\ OffOf(w) => Card(w) = Card(m) /\ ResOf(w) = "OK"
    /\ FuseOf(m) = -1 => ResOf(w) = "OK" /\ OffOf(w) = FALSE
(* A sector of a file is on the card, or the write failed and the card is  *)
(* as before.                                                              *)
LEMMA DataSound ==
    ASSUME NEW m, SoundRec(m), OffOf(m) = FALSE, NEW c \in Clusters, NEW x \in Sectorful,
           NEW w, w = disk_write(m, DataSector(c), x)
    PROVE  DataEnds(m, c, x, w)
<1> SUFFICES /\ Passes(m, w, {Seen(m), SetData(Seen(m), c, x), SetData(Card(m), c, x)})
             /\ ~OffOf(w) => \/ Card(w) = Card(m) /\ Seen(w) = Seen(m) /\ ResOf(w) # "OK"
                             \/ Card(w) = SetData(Card(m), c, x) /\ Seen(w) = SetData(Seen(m), c, x)
             /\ OffOf(w) => Card(w) = Card(m) /\ ResOf(w) = "OK"
             /\ FuseOf(m) = -1 => ResOf(w) = "OK" /\ OffOf(w) = FALSE
  BY DEF DataEnds
<1> PICK s : s = DataSector(c) OBVIOUS
<1>0. /\ Shaped(m) /\ IsDisk(DiskOf(m)) /\ WindowSound(m) /\ FaultOf(m) \in {"none", "lost", "done", "power"}
      /\ s \in Sectors /\ s \notin Windowed /\ Holds(s, x)
  BY SectorKinds, HoldsKinds DEF SoundRec, Shaped, Sectors, Windowed
<1>1. /\ Shaped(w) /\ OffOf(w) \in BOOLEAN
      /\ WinOf(w) = WinOf(m) /\ SectOf(w) = SectOf(m) /\ FlagOf(w) = FlagOf(m)
      /\ FaultOf(w) = FaultOf(m)
      /\ DiskOf(w) = DiskOf(m) \/ DiskOf(w) = Put(DiskOf(m), s, x)
      /\ OffOf(w) /\ ~OffOf(m) => DiskOf(w) = DiskOf(m) /\ ResOf(w) = "OK"
      /\ ~OffOf(w) /\ ResOf(w) = "OK" => DiskOf(w) = Put(DiskOf(m), s, x)
      /\ FuseOf(m) = -1 => FuseOf(w) = -1 /\ ResOf(w) = "OK" /\ OffOf(w) = OffOf(m)
  BY ONLY <1>0, DiskWrite, w = disk_write(m, DataSector(c), x), s = DataSector(c) DEF Shaped
<1> PICK e : e = Put(DiskOf(m), s, x) OBVIOUS
<1>2. IsDisk(e) /\ Img(e) = SetData(Card(m), c, x)
  BY <1>0, DiskSet, ImgData DEF Card
<1>3. IsDisk(DiskOf(w))  BY <1>0, <1>1, <1>2
<1>4. \A t \in Sectors : t # s => e[t] = DiskOf(m)[t]
  BY <1>0, DiskSet
<1>5. ~OffOf(w) => WindowSound(w)
  <2>1. SectOf(m) \in Windowed => SectOf(m) # s /\ SectOf(m) \in Sectors
    BY <1>0 DEF Windowed, Sectors
  <2>2. SectOf(m) \in Windowed => DiskOf(w)[SectOf(m)] = DiskOf(m)[SectOf(m)]
    BY <1>1, <1>4, <2>1
  <2> QED  BY <1>0, <1>1, <2>2 DEF WindowSound
<1>6. SoundRec(w)  BY <1>1, <1>3, <1>5 DEF SoundRec
<1>7. DiskOf(w) = e => Card(w) = SetData(Card(m), c, x) /\ Seen(w) = SetData(Seen(m), c, x)
  <2> SUFFICES ASSUME DiskOf(w) = e
               PROVE  Card(w) = SetData(Card(m), c, x) /\ Seen(w) = SetData(Seen(m), c, x)
    OBVIOUS
  <2>1. Card(w) = SetData(Card(m), c, x)  BY <1>2 DEF Card
  <2> PICK o : o = Over(DiskOf(m), m) OBVIOUS
  <2>2. IsDisk(o)  BY OverDisk
  <2>3. Over(e, w) = Put(o, s, x)
    <3>1. CASE FlagOf(m)
      <4>1. SectOf(m) # s  BY <1>0, <3>1 DEF WindowSound
      <4>2. Put(Put(DiskOf(m), s, x), SectOf(m), WinOf(m)) = Put(Put(DiskOf(m), SectOf(m), WinOf(m)), s, x)
        BY <4>1 DEF Put
      <4> QED  BY <1>1, <3>1, <4>2 DEF Over
    <3>2. CASE ~FlagOf(m)
      BY <1>1, <3>2 DEF Over
    <3> QED  BY <3>1, <3>2
  <2>4. Img(Put(o, s, x)) = SetData(Img(o), c, x)  BY <2>2, ImgData
  <2> QED  BY <2>1, <2>3, <2>4 DEF Seen
<1>8. DiskOf(w) = DiskOf(m) => Card(w) = Card(m) /\ Seen(w) = Seen(m)
  BY <1>1 DEF Card, Seen, Over
<1>9. Mirrored(DiskOf(m)) => Mirrored(DiskOf(w))
  <2>1. \A t \in FatSectors : t \in Sectors /\ t # s /\ Mirror(t) \in Sectors /\ Mirror(t) # s
    BY SectorKinds DEF Sectors
  <2> QED  BY <1>1, <1>4, <2>1 DEF Mirrored
<1>10. OffOf(w) => DiskOf(w) = DiskOf(m)  BY <1>1
<1>11. Card(w) = Card(m) \/ Card(w) = SetData(Card(m), c, x)
  BY <1>1, <1>7, <1>8
<1>12. ~OffOf(w) => Seen(w) = Seen(m) \/ Seen(w) = SetData(Seen(m), c, x)
  BY <1>1, <1>7, <1>8
<1>13. Passes(m, w, {Seen(m), SetData(Seen(m), c, x), SetData(Card(m), c, x)})
  BY <1>1, <1>6, <1>9, <1>11, <1>12 DEF Passes
<1> QED  BY <1>1, <1>7, <1>8, <1>10, <1>13

(* sync_fs: on the card there is what the driver saw.                      *)
LEMMA SyncFsSound ==
    ASSUME NEW m, SoundRec(m), NEW w, w = sync_fs(m)
    PROVE  /\ Passes(m, w, {Seen(m)})
           /\ ~OffOf(w) /\ ResOf(w) = "OK" => ~FlagOf(w) /\ Card(w) = Seen(m)
           /\ FuseOf(m) = -1 => ResOf(w) = "OK"
<1> PICK a : a = sync_window(m) OBVIOUS
<1>1. /\ Passes(m, a, {Seen(m)})
      /\ ~OffOf(a) /\ ResOf(a) = "OK" => ~FlagOf(a) /\ Card(a) = Seen(m)
      /\ FuseOf(m) = -1 => ResOf(a) = "OK"
  BY SyncSound
<1>2. /\ SoundRec(a) /\ IsRec(a) /\ Shaped(a) /\ OffOf(a) \in BOOLEAN /\ HintOf(a) \in Int /\ IsDisk(DiskOf(a))
      /\ ~OffOf(a) => WindowSound(a)
  BY <1>1 DEF Passes, SoundRec, Shaped
<1>3. CASE ~(ResOf(a) = "OK" /\ InfoOf(a) = 1)
  <2>1. w = a  BY <1>3 DEF sync_fs, Then, ResOf, InfoOf
  <2> QED  BY <1>1, <2>1
<1>4. CASE ResOf(a) = "OK" /\ InfoOf(a) = 1
  <2> PICK h : h = HintOf(a) OBVIOUS
  <2> PICK x : x = [a EXCEPT !.win = h] OBVIOUS
  <2> PICK y : y = [x EXCEPT !.winsect = InfoSector] OBVIOUS
  <2> PICK z : z = disk_write(y, InfoSector, h) OBVIOUS
  <2> PICK o : o = Ok(z) OBVIOUS
  <2>1. w = WriteInfo(a)  BY <1>4 DEF sync_fs, Then, ResOf, InfoOf
  <2>2. w = [Ok(disk_write([a EXCEPT !.win = h, !.winsect = InfoSector], InfoSector, h)) EXCEPT !.fsi_flag = 0]
    BY <2>1 DEF WriteInfo, HintOf
  <2>3. [a EXCEPT !.win = h, !.winsect = InfoSector] = y  OBVIOUS
  <2>4. w = [o EXCEPT !.fsi_flag = 0]  BY <2>2, <2>3
  <2>5. /\ IsRec(x)
        /\ DiskOf(x) = DiskOf(a) /\ WinOf(x) = h /\ SectOf(x) = SectOf(a)
        /\ FlagOf(x) = FlagOf(a) /\ HintOf(x) = HintOf(a)
        /\ FuseOf(x) = FuseOf(a) /\ FaultOf(x) = FaultOf(a) /\ OffOf(x) = OffOf(a)
    BY ONLY <1>2, x = [a EXCEPT !.win = h], UpdWin DEF Fields
  <2>6. /\ IsRec(y)
        /\ DiskOf(y) = DiskOf(a) /\ WinOf(y) = h /\ SectOf(y) = InfoSector
        /\ FlagOf(y) = FlagOf(a) /\ HintOf(y) = HintOf(a)
        /\ FuseOf(y) = FuseOf(a) /\ FaultOf(y) = FaultOf(a) /\ OffOf(y) = OffOf(a)
    BY ONLY <2>5, y = [x EXCEPT !.winsect = InfoSector], UpdSect DEF Fields
  <2>7. Shaped(y)  BY ONLY <1>2, <2>6 DEF Shaped
  <2>8. /\ Shaped(z) /\ IsRec(z) /\ OffOf(z) \in BOOLEAN
        /\ WinOf(z) = WinOf(y) /\ SectOf(z) = SectOf(y) /\ FlagOf(z) = FlagOf(y)
        /\ HintOf(z) = HintOf(y) /\ FaultOf(z) = FaultOf(y)
        /\ DiskOf(z) = DiskOf(y) \/ DiskOf(z) = Put(DiskOf(y), InfoSector, h)
        /\ OffOf(y) => OffOf(z)
        /\ FuseOf(y) = -1 => FuseOf(z) = -1 /\ OffOf(z) = OffOf(y)
    BY ONLY <2>7, z = disk_write(y, InfoSector, h), DiskWrite DEF Shaped
  <2>9. /\ IsRec(o) /\ ResOf(o) = "OK"
        /\ DiskOf(o) = DiskOf(z) /\ WinOf(o) = WinOf(z) /\ SectOf(o) = SectOf(z)
        /\ FlagOf(o) = FlagOf(z) /\ HintOf(o) = HintOf(z)
        /\ FuseOf(o) = FuseOf(z) /\ FaultOf(o) = FaultOf(z) /\ OffOf(o) = OffOf(z)
    BY ONLY <2>8, o = Ok(z), OkShape
  <2>10. /\ IsRec(w) /\ ResOf(w) = "OK"
         /\ DiskOf(w) = DiskOf(z) /\ WinOf(w) = h /\ SectOf(w) = InfoSector
         /\ FlagOf(w) = FlagOf(a) /\ HintOf(w) = HintOf(a)
         /\ FuseOf(w) = FuseOf(z) /\ FaultOf(w) = FaultOf(a) /\ OffOf(w) = OffOf(z)
    BY ONLY <2>4, <2>6, <2>8, <2>9, UpdInfo DEF Fields
  <2>11. Shaped(w)
    BY ONLY <1>2, <2>6, <2>8, <2>10 DEF Shaped
  <2>12. InfoSector \in Sectors /\ InfoSector \notin Windowed /\ InfoSector[1] \in {"fat2", "info"}
         /\ Holds(InfoSector, h)
    BY <1>2, SectorKinds, HoldsKinds DEF Sectors, Windowed
  <2>13. IsDisk(DiskOf(w)) /\ Img(DiskOf(w)) = Img(DiskOf(a))
    BY <1>2, <2>6, <2>8, <2>10, <2>12, DiskSet, ImgOther
  <2>14. OffOf(w) = FALSE => OffOf(a) = FALSE /\ FlagOf(a) = FALSE
    <3>1. OffOf(w) = FALSE => OffOf(a) = FALSE
      BY <1>2, <2>6, <2>8, <2>10
    <3>2. OffOf(a) = FALSE => ~FlagOf(a) /\ FlagOf(a) \in BOOLEAN
      BY <1>1, <1>2, <1>4 DEF WindowSound
    <3> QED  BY <3>1, <3>2
  <2>15. ~OffOf(w) => WindowSound(w)
    BY <2>8, <2>10, <2>12, <2>14 DEF WindowSound
  <2>16. SoundRec(w)  BY <2>11, <2>13, <2>15 DEF SoundRec
  <2>17. Card(w) = Card(a) /\ (~OffOf(w) => Seen(w) = Seen(a))
    BY <2>8, <2>10, <2>13, <2>14 DEF Card, Seen, Over
  <2>18. Mirrored(DiskOf(a)) => Mirrored(DiskOf(w))
    <3>1. \A t \in FatSectors : t \in Sectors /\ t # InfoSector /\ Mirror(t) \in Sectors /\ Mirror(t) # InfoSector
      BY SectorKinds DEF Sectors
    <3>2. \A t \in Sectors : t # InfoSector => DiskOf(w)[t] = DiskOf(a)[t]
      BY <1>2, <2>6, <2>8, <2>10, <2>12, DiskSet
    <3> QED  BY <3>1, <3>2 DEF Mirrored
  <2>19. Passes(a, w, {Seen(a)})
    BY <1>2, <2>6, <2>8, <2>10, <2>14, <2>16, <2>17, <2>18 DEF Passes
  <2>20. ~OffOf(a) => Seen(a) = Seen(m)  BY <1>1 DEF Passes
  <2>21. Passes(m, w, {Seen(m)})
    BY <1>1, <1>2, <2>14, <2>17, <2>19, <2>20 DEF Passes
  <2> QED  BY <1>1, <1>4, <2>8, <2>10, <2>14, <2>17, <2>21
<1> QED  BY <1>3, <1>4

(***************************************************************************)
(* The state before and after a step.                                      *)
(***************************************************************************)
FsRec(win, winsect, wflag, last_clst, fsi_flag, mounted) ==
    [win |-> win, winsect |-> winsect, wflag |-> wflag, last_clst |-> last_clst,
     fsi_flag |-> fsi_flag, mounted |-> mounted]
FsSound ==
    /\ IsDisk(disk) /\ faults \in Nat
    /\ fs = FsRec(fs.win, fs.winsect, fs.wflag, fs.last_clst, fs.fsi_flag, fs.mounted)
    /\ fs.last_clst \in Int /\ fs.mounted \in BOOLEAN
    /\ WindowSound(Start(NoFault))

(* The record a step starts from.                                          *)
LEMMA StartFields ==
    ASSUME NEW f \in Faults
    PROVE  Fields(Start(f), disk, fs.win, fs.winsect, fs.wflag, fs.last_clst, fs.fsi_flag,
                  "OK", 0, f.fuse, f.fault, FALSE)
<1>1. Start(f) = Rec(disk, fs.win, fs.winsect, fs.wflag, fs.last_clst, fs.fsi_flag,
                     "OK", 0, f.fuse, f.fault, FALSE)
  BY DEF Start, Rec
<1> QED  BY <1>1, RecFields

(* The faults a step may meet.                                             *)
LEMMA FaultKinds ==
    ASSUME NEW f \in Faults
    PROVE  /\ f.fuse \in -1 .. 3 /\ f.fault \in {"none", "lost", "done", "power"}
           /\ f.fault = "none" => f.fuse = -1
           /\ f = NoFault => f.fault = "none" /\ f.fuse = -1
BY DEF Faults, NoFault

(* A step starts from a sound record whose card and view are the state's.  *)
LEMMA StartSound ==
    ASSUME FsSound, NEW f \in Faults, NEW m, m = Start(f)
    PROVE  /\ SoundRec(m) /\ OffOf(m) = FALSE /\ ResOf(m) = "OK"
           /\ Card(m) = CardImg /\ Seen(m) = ViewImg
           /\ DiskOf(m) = disk /\ SectOf(m) = fs.winsect /\ HintOf(m) = fs.last_clst
           /\ WinOf(m) = fs.win /\ FlagOf(m) = fs.wflag
           /\ f = NoFault => FuseOf(m) = -1 /\ FaultOf(m) = "none"
<1>1. Fields(m, disk, fs.win, fs.winsect, fs.wflag, fs.last_clst, fs.fsi_flag,
             "OK", 0, f.fuse, f.fault, FALSE)
  BY StartFields
<1>2. NoFault \in Faults  BY DEF Faults
<1>3. Fields(Start(NoFault), disk, fs.win, fs.winsect, fs.wflag, fs.last_clst, fs.fsi_flag,
             "OK", 0, NoFault.fuse, NoFault.fault, FALSE)
  BY <1>2, StartFields
<1>4. /\ IsRec(m) /\ OffOf(m) = FALSE /\ ResOf(m) = "OK"
      /\ DiskOf(m) = disk /\ WinOf(m) = fs.win /\ SectOf(m) = fs.winsect /\ FlagOf(m) = fs.wflag
      /\ HintOf(m) = fs.last_clst /\ FuseOf(m) = f.fuse /\ FaultOf(m) = f.fault
  BY ONLY <1>1 DEF Fields
<1>5. WindowSound(m)
  <2>1. WindowSound(Start(NoFault))  BY DEF FsSound
  <2>2. /\ DiskOf(Start(NoFault)) = disk /\ WinOf(Start(NoFault)) = fs.win
        /\ SectOf(Start(NoFault)) = fs.winsect /\ FlagOf(Start(NoFault)) = fs.wflag
    BY ONLY <1>3 DEF Fields
  <2> QED  BY ONLY <1>4, <2>1, <2>2 DEF WindowSound
<1>6. OffOf(m) \in BOOLEAN  BY ONLY <1>4, Zenon
<1>7. fs.last_clst \in Int /\ IsDisk(disk)  BY DEF FsSound
<1>8. Shaped(m)  BY ONLY <1>4, <1>6, <1>7, FaultKinds, f \in Faults DEF Shaped
<1>9. SoundRec(m)  BY ONLY <1>4, <1>5, <1>7, <1>8 DEF SoundRec
<1>10. Card(m) = CardImg  BY <1>4 DEF Card, CardImg
<1>11. Over(disk, m) = View  BY <1>4 DEF Over, View, Put
<1>12. Seen(m) = ViewImg  BY <1>4, <1>11 DEF Seen, ViewImg
<1> QED  BY <1>4, <1>9, <1>10, <1>12, FaultKinds

(* What a step leaves in the variables.                                    *)
LEMMA StepFields ==
    ASSUME FsSound, NEW f \in Faults, NEW m, IsRec(m), Step(m, f)
    PROVE  /\ disk' = DiskOf(m) /\ calls' = calls
           /\ OffOf(m) => fs' = NoFs
           /\ ~OffOf(m) => fs' = FsRec(WinOf(m), SectOf(m), FlagOf(m), HintOf(m), InfoOf(m), fs.mounted)
           /\ faults' \in Nat /\ (faults' = 0 => faults = 0 /\ f = NoFault)
<1>1. disk' = DiskOf(m) /\ calls' = calls  BY DEF Step, DiskOf
<1>2. OffOf(m) => fs' = NoFs  BY DEF Step, OffOf
<1>3. ASSUME ~OffOf(m)
      PROVE  fs' = FsRec(WinOf(m), SectOf(m), FlagOf(m), HintOf(m), InfoOf(m), fs.mounted)
  <2> PICK a, b, c, d, e, g : fs = FsRec(a, b, c, d, e, g) /\ g = fs.mounted
    BY DEF FsSound
  <2> PICK a2, b2, c2, d2, e2 : a2 = WinOf(m) /\ b2 = SectOf(m) /\ c2 = FlagOf(m)
                                /\ d2 = HintOf(m) /\ e2 = InfoOf(m)
    OBVIOUS
  <2>1. fs' = [fs EXCEPT !.win = a2, !.winsect = b2, !.wflag = c2, !.last_clst = d2, !.fsi_flag = e2]
    BY <1>3 DEF Step, OffOf, WinOf, SectOf, FlagOf, HintOf, InfoOf
  <2>2. [FsRec(a, b, c, d, e, g) EXCEPT !.win = a2, !.winsect = b2, !.wflag = c2, !.last_clst = d2,
                                         !.fsi_flag = e2]
        = FsRec(a2, b2, c2, d2, e2, g)
    <3> PICK r : r = [FsRec(a, b, c, d, e, g) EXCEPT !.win = a2, !.winsect = b2, !.wflag = c2,
                                                     !.last_clst = d2, !.fsi_flag = e2]
      OBVIOUS
    <3> PICK r1 : r1 = [FsRec(a, b, c, d, e, g) EXCEPT !.win = a2] OBVIOUS
    <3> PICK r2 : r2 = [r1 EXCEPT !.winsect = b2] OBVIOUS
    <3> PICK r3 : r3 = [r2 EXCEPT !.wflag = c2] OBVIOUS
    <3> PICK r4 : r4 = [r3 EXCEPT !.last_clst = d2] OBVIOUS
    <3> PICK r5 : r5 = [r4 EXCEPT !.fsi_flag = e2] OBVIOUS
    <3>6. r = r5  OBVIOUS
    <3>a. r1 = FsRec(a2, b, c, d, e, g)
      BY ONLY r1 = [FsRec(a, b, c, d, e, g) EXCEPT !.win = a2] DEF FsRec
    <3>b. r2 = FsRec(a2, b2, c, d, e, g)
      BY ONLY <3>a, r2 = [r1 EXCEPT !.winsect = b2] DEF FsRec
    <3>c. r3 = FsRec(a2, b2, c2, d, e, g)
      BY ONLY <3>b, r3 = [r2 EXCEPT !.wflag = c2] DEF FsRec
    <3>d. r4 = FsRec(a2, b2, c2, d2, e, g)
      BY ONLY <3>c, r4 = [r3 EXCEPT !.last_clst = d2] DEF FsRec
    <3>e. r5 = FsRec(a2, b2, c2, d2, e2, g)
      BY ONLY <3>d, r5 = [r4 EXCEPT !.fsi_flag = e2] DEF FsRec
    <3>7. r = FsRec(a2, b2, c2, d2, e2, g)  BY ONLY <3>6, <3>e
    <3> QED  BY <3>7
  <2> QED  BY <2>1, <2>2
<1>4. faults' \in Nat /\ (faults' = 0 => faults = 0 /\ f = NoFault)
  BY DEF Step, FsSound
<1> QED  BY <1>1, <1>2, <1>3, <1>4

(* What a step leaves on the card and in the window, by what its record    *)
(* passed through.                                                         *)
LEMMA StepSound ==
    ASSUME FsSound, NEW f \in Faults, NEW m, NEW W, Passes(Start(f), m, W), Step(m, f)
    PROVE  /\ FsSound'
           /\ CardImg' = Card(m) /\ CardImg' \in {CardImg} \cup W
           /\ OffOf(m) \in BOOLEAN
           /\ OffOf(m) => fs' = NoFs /\ ViewImg' = CardImg'
           /\ ~OffOf(m) => /\ ViewImg' = Seen(m) /\ ViewImg' \in W
                           /\ fs'.mounted = fs.mounted
                           /\ fs'.winsect = SectOf(m) /\ fs'.wflag = FlagOf(m)
                           /\ fs'.last_clst = HintOf(m)
           /\ faults' = 0 => /\ faults = 0 /\ OffOf(m) = FALSE /\ FuseOf(Start(f)) = -1
                             /\ Mirrored(disk) => Mirrored(disk')
<1> PICK s : s = Start(f) OBVIOUS
<1>0. /\ SoundRec(s) /\ OffOf(s) = FALSE /\ Card(s) = CardImg /\ Seen(s) = ViewImg /\ DiskOf(s) = disk
      /\ f = NoFault => FuseOf(s) = -1 /\ FaultOf(s) = "none"
  BY StartSound
<1>1. /\ SoundRec(m) /\ Shaped(m) /\ IsRec(m) /\ OffOf(m) \in BOOLEAN /\ HintOf(m) \in Int
      /\ IsDisk(DiskOf(m)) /\ (~OffOf(m) => WindowSound(m))
  BY DEF Passes, SoundRec, Shaped
<1>2. /\ disk' = DiskOf(m) /\ calls' = calls
      /\ OffOf(m) => fs' = NoFs
      /\ ~OffOf(m) => fs' = FsRec(WinOf(m), SectOf(m), FlagOf(m), HintOf(m), InfoOf(m), fs.mounted)
      /\ faults' \in Nat /\ (faults' = 0 => faults = 0 /\ f = NoFault)
  BY <1>1, StepFields
<1>3. CardImg' = Card(m)  BY <1>2 DEF CardImg, Card
<1>4. CardImg' \in {CardImg} \cup W
  <2>1. Card(m) = Card(s) \/ Card(m) \in W  BY DEF Passes
  <2> QED  BY <1>0, <1>3, <2>1
<1>5. ~OffOf(m) => /\ fs'.win = WinOf(m) /\ fs'.winsect = SectOf(m) /\ fs'.wflag = FlagOf(m)
                   /\ fs'.last_clst = HintOf(m) /\ fs'.mounted = fs.mounted
                   /\ fs' = FsRec(fs'.win, fs'.winsect, fs'.wflag, fs'.last_clst, fs'.fsi_flag, fs'.mounted)
  BY <1>2 DEF FsRec
<1>6. OffOf(m) => /\ fs' = NoFs /\ fs'.wflag = FALSE /\ fs'.winsect = NoSector
                  /\ fs'.last_clst = -1 /\ fs'.mounted = FALSE
                  /\ fs' = FsRec(fs'.win, fs'.winsect, fs'.wflag, fs'.last_clst, fs'.fsi_flag, fs'.mounted)
  BY <1>2 DEF NoFs, FsRec, Unknown
<1> PICK n : n = Start(NoFault)' OBVIOUS
<1>7. DiskOf(n) = disk' /\ WinOf(n) = fs'.win /\ SectOf(n) = fs'.winsect /\ FlagOf(n) = fs'.wflag
  <2>1. n = [disk |-> disk', win |-> fs'.win, winsect |-> fs'.winsect, wflag |-> fs'.wflag,
             last_clst |-> fs'.last_clst, fsi_flag |-> fs'.fsi_flag,
             res |-> "OK", val |-> 0, fuse |-> NoFault.fuse, fault |-> NoFault.fault, off |-> FALSE]
    BY DEF Start
  <2> QED  BY ONLY <2>1 DEF DiskOf, WinOf, SectOf, FlagOf
<1>8. WindowSound(n)
  <2>1. CASE OffOf(m)
    <3>1. FlagOf(n) = FALSE /\ SectOf(n) = NoSector  BY <1>6, <1>7, <2>1
    <3>2. FlagOf(n) \in BOOLEAN  BY ONLY <3>1, Zenon
    <3>3. NoSector \notin Windowed  BY SectorKinds DEF Windowed
    <3> QED  BY ONLY <3>1, <3>2, <3>3 DEF WindowSound
  <2>2. CASE ~OffOf(m)
    <3>1. FlagOf(n) = FlagOf(m) /\ SectOf(n) = SectOf(m) /\ WinOf(n) = WinOf(m) /\ DiskOf(n) = DiskOf(m)
      BY <1>2, <1>5, <1>7, <2>2
    <3>2. WindowSound(m)  BY <1>1, <2>2
    <3> QED  BY ONLY <3>1, <3>2 DEF WindowSound
  <2> QED  BY <2>1, <2>2
<1>9. FsSound'
  <2>1. fs'.mounted \in BOOLEAN
    <3>1. CASE OffOf(m)
      <4>1. fs'.mounted = FALSE  BY <3>1, <1>6
      <4> QED  BY ONLY <4>1, Zenon
    <3>2. CASE ~OffOf(m)  BY <3>2, <1>5 DEF FsSound
    <3> QED  BY <3>1, <3>2
  <2>2. fs'.last_clst \in Int  BY <1>1, <1>5, <1>6
  <2>3. fs' = FsRec(fs'.win, fs'.winsect, fs'.wflag, fs'.last_clst, fs'.fsi_flag, fs'.mounted)
    BY <1>5, <1>6
  <2> QED  BY <1>1, <1>2, <1>8, <2>1, <2>2, <2>3 DEF FsSound
<1>10. ASSUME OffOf(m) PROVE fs' = NoFs /\ ViewImg' = CardImg'
  BY <1>6, <1>10 DEF ViewImg, CardImg, View
<1>11. ASSUME ~OffOf(m) PROVE ViewImg' = Seen(m) /\ ViewImg' \in W
  <2>1. View' = Over(DiskOf(m), m)
    <3>1. View' = IF fs'.wflag THEN Put(disk', fs'.winsect, fs'.win) ELSE disk'
      BY DEF View, Put
    <3> QED  BY <1>2, <1>5, <1>11, <3>1 DEF Over
  <2>2. ViewImg' = Seen(m)  BY <2>1 DEF ViewImg, Seen
  <2>3. Seen(m) \in W  BY <1>11 DEF Passes
  <2> QED  BY <2>2, <2>3
<1>12. ASSUME faults' = 0
       PROVE  /\ faults = 0 /\ OffOf(m) = FALSE /\ FuseOf(s) = -1
              /\ Mirrored(disk) => Mirrored(disk')
  <2>1. f = NoFault /\ faults = 0  BY <1>2, <1>12
  <2>2. FuseOf(s) = -1 /\ FaultOf(s) = "none"  BY <1>0, <2>1
  <2>3. OffOf(m) = FALSE  BY <1>0, <2>2 DEF Passes
  <2>4. Mirrored(disk) => Mirrored(disk')  BY <1>0, <1>2, <2>2 DEF Passes
  <2> QED  BY <2>1, <2>2, <2>3, <2>4
<1> QED  BY <1>1, <1>3, <1>4, <1>5, <1>9, <1>10, <1>11, <1>12

(***************************************************************************)
(* Chains.                                                                 *)
(***************************************************************************)
LEMMA LeastOf ==
    ASSUME NEW T \in SUBSET Nat, T # {}
    PROVE  \E m \in T : \A n \in T : m <= n
<1>1. PICK m \in T : \A n \in T : ~(<<n, m>> \in OpToRel(<, Nat))
  BY WFMin, NatLessThanWellFounded, Zenon
<1>2. ASSUME NEW n \in T PROVE m <= n
  <2>1. ~(<<n, m>> \in OpToRel(<, Nat))  BY <1>1
  <2>2. ~(n < m)  BY <2>1 DEF OpToRel
  <2> QED  BY <2>2
<1> QED  BY <1>2

(* A chain that starts outside S, where no cluster outside leads into S,   *)
(* stays outside.                                                          *)
LEMMA PathAway ==
    ASSUME NEW fat, NEW S, NEW k \in Nat, NEW c, NEW q, Path(fat, q, c, k), c \notin S,
           \A b \in Clusters \ S : fat[b] \notin S
    PROVE  \A j \in 1 .. k : q[j] \notin S
<1> DEFINE T == {j \in 1 .. k : q[j] \in S}
<1> SUFFICES ASSUME T # {} PROVE FALSE  OBVIOUS
<1>0. T \in SUBSET Nat /\ T # {}  OBVIOUS
<1> HIDE DEF T
<1>1. PICK m \in T : \A n \in T : m <= n  BY ONLY <1>0, LeastOf
<1>2. m \in 1 .. k /\ q[m] \in S /\ m # 1  BY DEF Path, T
<1>3. m - 1 \in 1 .. k - 1 /\ m - 1 \in 1 .. k /\ ~(m <= m - 1) /\ (m - 1) + 1 = m  BY ONLY <1>2, k \in Nat
<1>4. q[m - 1] \notin S  BY <1>1, <1>3 DEF T
<1>5. q[m - 1] \in Clusters /\ fat[q[m - 1]] = q[m]
  BY ONLY <1>3, Path(fat, q, c, k) DEF Path
<1> QED  BY <1>2, <1>4, <1>5

Agree(fat, data, fat2, data2, S) ==
    \A b \in Clusters \ S : fat2[b] = fat[b] /\ data2[b] = data[b]

(* A chain that stays out of S is a chain of an image that differs in S    *)
(* only.                                                                   *)
LEMMA PathAgree ==
    ASSUME NEW fat, NEW data, NEW fat2, NEW data2, NEW S, Agree(fat, data, fat2, data2, S),
           NEW k \in Nat, NEW c, NEW q, Path(fat, q, c, k), c \notin S,
           \A b \in Clusters \ S : fat[b] \notin S
    PROVE  /\ Path(fat2, q, c, k)
           /\ \A j \in 1 .. k : fat2[q[j]] = fat[q[j]] /\ data2[q[j]] = data[q[j]]
<1>1. \A j \in 1 .. k : q[j] \notin S  BY PathAway
<1>2. \A j \in 1 .. k : q[j] \in Clusters  BY DEF Path
<1>3. \A j \in 1 .. k : fat2[q[j]] = fat[q[j]] /\ data2[q[j]] = data[q[j]]
  BY <1>1, <1>2 DEF Agree
<1>4. \A j \in 1 .. k - 1 : j \in 1 .. k  OBVIOUS
<1>5. Path(fat2, q, c, k)  BY <1>3, <1>4 DEF Path
<1> QED  BY <1>3, <1>5

(* So it ends there too.                                                   *)
LEMMA EndsAgree ==
    ASSUME NEW fat, NEW data, NEW fat2, NEW data2, NEW S, Agree(fat, data, fat2, data2, S),
           NEW c, NEW z, Ends(fat, c, z), c \notin S,
           \A b \in Clusters \ S : fat[b] \notin S
    PROVE  Ends(fat2, c, z)
<1>1. CASE c = 0  BY <1>1 DEF Ends
<1>2. CASE c # 0
  <2>1. PICK k \in 1 .. LastCluster : \E q \in [1 .. k -> Clusters] :
            Path(fat, q, c, k) /\ fat[q[k]] = Eoc /\ k * SectorSize >= z
    BY <1>2 DEF Ends
  <2>2. PICK q \in [1 .. k -> Clusters] :
            Path(fat, q, c, k) /\ fat[q[k]] = Eoc /\ k * SectorSize >= z
    BY <2>1
  <2>3. k \in Nat /\ k \in 1 .. k  BY VolumeAssumption
  <2>4. Path(fat2, q, c, k) /\ fat2[q[k]] = fat[q[k]]
    BY ONLY <2>2, <2>3, PathAgree, Agree(fat, data, fat2, data2, S), c \notin S,
            \A b \in Clusters \ S : fat[b] \notin S
  <2>5. Path(fat2, q, c, k) /\ fat2[q[k]] = Eoc /\ k * SectorSize >= z
    BY <2>2, <2>4
  <2> QED  BY <1>2, <2>5 DEF Ends
<1> QED  BY <1>1, <1>2

(* The cluster of a byte.                                                  *)
LEMMA MulStep ==
    ASSUME NEW s \in Nat \ {0}, NEW a \in Int, NEW b \in Int, a < b
    PROVE  s * a + s <= s * b
<1>1. PICK d \in Nat : b = a + 1 + d
  <2>1. b - a - 1 \in Nat /\ b = a + 1 + (b - a - 1)  OBVIOUS
  <2> QED  BY <2>1
<1>2. s * (a + 1 + d) = s * a + s + s * d  BY ONLY s \in Int, a \in Int, d \in Int
<1>3. s * d >= 0  BY ONLY s \in Nat, d \in Nat
<1>4. s * a \in Int /\ s * d \in Int BY ONLY s \in Int, a \in Int, d \in Int
<1> QED  BY ONLY <1>1, <1>2, <1>3, <1>4, s \in Int

(* The sectors that the first z bytes of a file take.                      *)
LEMMA NthType ==
    ASSUME NEW z \in Nat
    PROVE  /\ Nth(z) \in Nat
           /\ \A b \in 1 .. z : Nth(b) \in 1 .. Nth(z)
           /\ z > 0 => Nth(z) > 0
           /\ z <= Nth(z) * SectorSize /\ (Nth(z) - 1) * SectorSize <= z - 1
           /\ z % SectorSize = 0 => z = Nth(z) * SectorSize
<1> PICK s : s = SectorSize OBVIOUS
<1>0. s \in Nat \ {0}  BY VolumeAssumption
<1>1. \A x \in Int : /\ x \div s \in Int /\ x % s \in 0 .. s - 1
                     /\ x = s * (x \div s) + (x % s)
  BY <1>0
<1>2. \A x \in Int : Nth(x) = 1 + ((x - 1) \div s)  BY DEF Nth
<1>3. ASSUME NEW x \in Int
      PROVE  /\ Nth(x) \in Int /\ s * Nth(x) \in Int
             /\ s * Nth(x) - s <= x - 1 /\ x <= s * Nth(x)
  <2> PICK u \in Int, r \in 0 .. s - 1 : u = (x - 1) \div s /\ x - 1 = s * u + r
    BY <1>1
  <2>1. Nth(x) = 1 + u  BY <1>2
  <2>2. s * (1 + u) = s + s * u /\ s * u \in Int  BY ONLY <1>0, u \in Int
  <2>3. r \in Int /\ 0 <= r /\ r <= s - 1 /\ s \in Int  BY <1>0
  <2> QED  BY ONLY <2>1, <2>2, <2>3, x - 1 = s * u + r, x \in Int, u \in Int
<1>4. ASSUME NEW x \in Int, NEW y \in Int, x <= y PROVE Nth(x) <= Nth(y)
  <2> SUFFICES ASSUME Nth(y) < Nth(x) PROVE FALSE  BY <1>3
  <2>1. s * Nth(y) + s <= s * Nth(x)  BY <1>0, <1>3, MulStep
  <2> QED  BY <1>0, <1>3, <1>4, <2>1
<1>5. Nth(1) = 1 /\ Nth(0) = 0
  <2>1. s * Nth(1) - s <= 0 /\ 1 <= s * Nth(1) /\ s * Nth(0) - s <= -1 /\ 0 <= s * Nth(0)
        /\ Nth(1) \in Int /\ Nth(0) \in Int
    BY <1>3
  <2>2. ~(Nth(1) < 1)
    <3> SUFFICES ASSUME Nth(1) < 1 PROVE FALSE OBVIOUS
    <3>1. s * Nth(1) + s <= s * 1  BY <1>0, <2>1, MulStep
    <3> QED  BY <1>0, <2>1, <3>1
  <2>3. ~(Nth(1) > 1)
    <3> SUFFICES ASSUME 1 < Nth(1) PROVE FALSE  BY <2>1
    <3>1. s * 1 + s <= s * Nth(1)  BY <1>0, <2>1, MulStep
    <3> QED  BY <1>0, <2>1, <3>1
  <2>4. ~(Nth(0) < 0)
    <3> SUFFICES ASSUME Nth(0) < 0 PROVE FALSE OBVIOUS
    <3>1. s * Nth(0) + s <= s * 0  BY <1>0, <2>1, MulStep
    <3> QED  BY <1>0, <2>1, <3>1
  <2>5. ~(Nth(0) > 0)
    <3> SUFFICES ASSUME 0 < Nth(0) PROVE FALSE  BY <2>1
    <3>1. s * 0 + s <= s * Nth(0)  BY <1>0, <2>1, MulStep
    <3> QED  BY <1>0, <2>1, <3>1
  <2> QED  BY <2>1, <2>2, <2>3, <2>4, <2>5
<1>a. \A x \in Int : Nth(x) \in Int  BY <1>3
<1>b. z \in Int /\ Nth(z) \in Int /\ s * Nth(z) \in Int /\ s * Nth(z) - s <= z - 1 /\ z <= s * Nth(z)
  BY <1>3
<1>6. z % s = 0 => z = s * Nth(z)
  <2> SUFFICES ASSUME z % s = 0 PROVE z = s * Nth(z) OBVIOUS
  <2> PICK w \in Int : z = s * w  
    <3>1. z = s * (z \div s) + 0 /\ z \div s \in Int  BY <1>1
    <3>2. s * (z \div s) \in Int  BY <1>0, <3>1
    <3> QED  BY ONLY <3>1, <3>2
  <2>1. ~(w < Nth(z))
    <3> SUFFICES ASSUME w < Nth(z) PROVE FALSE OBVIOUS
    <3>1. s * w + s <= s * Nth(z)  BY ONLY <1>0, <1>b, w \in Int, w < Nth(z), MulStep
    <3> QED  BY ONLY <1>0, <1>b, <3>1, z = s * w, w \in Int
  <2>2. ~(Nth(z) < w)
    <3> SUFFICES ASSUME Nth(z) < w PROVE FALSE OBVIOUS
    <3>1. s * Nth(z) + s <= s * w  BY ONLY <1>0, <1>b, w \in Int, Nth(z) < w, MulStep
    <3> QED  BY ONLY <1>0, <1>b, <3>1, z = s * w, w \in Int
  <2>3. w = Nth(z)  BY ONLY <1>b, <2>1, <2>2, w \in Int
  <2> QED  BY <2>3
<1>7. Nth(z) \in Int /\ s * Nth(z) = Nth(z) * s /\ s * Nth(z) - s = (Nth(z) - 1) * s
  BY <1>0, <1>3
<1>8. \A b \in 1 .. z : Nth(b) \in 1 .. Nth(z)
  <2> SUFFICES ASSUME NEW b \in 1 .. z PROVE Nth(b) \in 1 .. Nth(z)  OBVIOUS
  <2>1. b \in Int /\ 1 <= b /\ b <= z /\ 1 \in Int  OBVIOUS
  <2>2. Nth(1) <= Nth(b) /\ Nth(b) <= Nth(z) /\ Nth(b) \in Int  BY ONLY <1>4, <1>a, <1>b, <2>1
  <2> QED  BY ONLY <1>b, <1>5, <2>2
<1>9. 0 <= Nth(z) /\ (z > 0 => Nth(z) > 0)
  <2>1. Nth(0) <= Nth(z) /\ (z > 0 => Nth(1) <= Nth(z))  BY ONLY <1>4, <1>b, z \in Nat
  <2> QED  BY ONLY <1>b, <1>5, <2>1
<1>10. z <= Nth(z) * s /\ (Nth(z) - 1) * s <= z - 1
  BY ONLY <1>3, <1>7, z \in Int
<1> QED  BY <1>6, <1>7, <1>8, <1>9, <1>10
(* So it carries the same bytes there.                                     *)
LEMMA CarriesAgree ==
    ASSUME NEW fat, NEW data, NEW fat2, NEW data2, NEW S, Agree(fat, data, fat2, data2, S),
           NEW c, NEW z \in Nat, NEW x, Carries(fat, data, c, z, x), c \notin S,
           \A b \in Clusters \ S : fat[b] \notin S
    PROVE  Carries(fat2, data2, c, z, x)
<1>1. CASE z = 0  BY <1>1 DEF Carries
<1>2. CASE z > 0
  <2>1. PICK q \in [1 .. Nth(z) -> Clusters] : Bears(fat, data, q, c, z, x)
    BY <1>2 DEF Carries
  <2>2. Nth(z) \in Nat /\ \A b \in 1 .. z : Nth(b) \in 1 .. Nth(z)  BY NthType
  <2>3. Path(fat, q, c, Nth(z))  BY <2>1 DEF Bears
  <2>4. /\ Path(fat2, q, c, Nth(z))
        /\ \A j \in 1 .. Nth(z) : fat2[q[j]] = fat[q[j]] /\ data2[q[j]] = data[q[j]]
    BY ONLY <2>2, <2>3, PathAgree, Agree(fat, data, fat2, data2, S), c \notin S,
            \A b \in Clusters \ S : fat[b] \notin S
  <2>5. \A b \in 1 .. z : ByteAt(data2, q, b) = ByteAt(data, q, b)
    BY <2>2, <2>4 DEF ByteAt
  <2>6. Bears(fat2, data2, q, c, z, x)
    BY <2>1, <2>4, <2>5 DEF Bears
  <2> QED  BY <1>2, <2>6 DEF Carries
<1> QED  BY <1>1, <1>2

(***************************************************************************)
(* What each change of an image keeps of its soundness.                    *)
(***************************************************************************)
LEMMA EntryFields ==
    /\ \A e \in DirEntries : IsFile(e) => /\ e.name \in Names /\ e.clust \in {0} \cup Clusters /\ e.size \in Nat
                                          /\ e = File(e.name, e.clust, e.size)
    /\ \A n, c, z : /\ IsFile(File(n, c, z)) /\ File(n, c, z).name = n
                    /\ File(n, c, z).clust = c /\ File(n, c, z).size = z
    /\ \A n \in Names : \A c \in {0} \cup Clusters : \A z \in Nat : File(n, c, z) \in DirEntries
    /\ \A n, c, z : File(n, c, z) # Never
    /\ ~IsFile(Never) /\ ~IsFile(Deleted) /\ Deleted # Never
    /\ Never \in DirEntries /\ Deleted \in DirEntries
    /\ 0 \notin Clusters /\ Eoc \notin Clusters /\ Eoc # Free /\ Free = 0
<1>1. /\ \A n, c, z : /\ IsFile(File(n, c, z)) /\ File(n, c, z).name = n
                      /\ File(n, c, z).clust = c /\ File(n, c, z).size = z
  BY DEF File, IsFile
<1>2. ~IsFile(Never) /\ ~IsFile(Deleted) /\ Deleted # Never
  BY DEF IsFile, Never, Deleted
<1>3. \A n, c, z : File(n, c, z) # Never  BY <1>1, <1>2
<1>4. \A n \in Names : \A c \in {0} \cup Clusters : \A z \in Nat : File(n, c, z) \in DirEntries
  BY DEF File, DirEntries
<1>5. \A e \in DirEntries : IsFile(e) => /\ e.name \in Names /\ e.clust \in {0} \cup Clusters /\ e.size \in Nat
                                         /\ e = File(e.name, e.clust, e.size)
  <2> SUFFICES ASSUME NEW e \in DirEntries, IsFile(e)
               PROVE  /\ e.name \in Names /\ e.clust \in {0} \cup Clusters /\ e.size \in Nat
                      /\ e = File(e.name, e.clust, e.size)
    OBVIOUS
  <2>1. e \in [use : {"file"}, name : Names, clust : {0} \cup Clusters, size : Nat]
    BY <1>2 DEF DirEntries
  <2> QED  BY <2>1 DEF File
<1>6. 0 \notin Clusters /\ Eoc \notin Clusters /\ Eoc # Free /\ Free = 0
  BY VolumeAssumption DEF Clusters, Eoc, Free
<1> QED  BY <1>1, <1>2, <1>3, <1>4, <1>5, <1>6 DEF DirEntries

(* The parts of an image.                                                  *)
LEMMA ImgFields ==
    ASSUME NEW v \in Imgs
    PROVE  /\ v.fat \in [Clusters -> Links] /\ v.dir \in [1 .. Slots -> DirEntries]
           /\ v.data \in [Clusters -> Sectorful]
           /\ Files(v) \subseteq 1 .. Slots
           /\ \A i \in Files(v) : /\ v.dir[i] \in DirEntries /\ IsFile(v.dir[i])
                                  /\ v.dir[i].name \in Names /\ v.dir[i].clust \in {0} \cup Clusters
                                  /\ v.dir[i].size \in Nat
           /\ \A c \in Clusters : v.fat[c] \in Links
<1>1. v.fat \in [Clusters -> Links] /\ v.dir \in [1 .. Slots -> DirEntries] /\ v.data \in [Clusters -> Sectorful]
  BY DEF Imgs
<1>2. Files(v) \subseteq 1 .. Slots /\ \A i \in Files(v) : v.dir[i] \in DirEntries /\ IsFile(v.dir[i])
  BY <1>1 DEF Files
<1>3. \A i \in Files(v) : /\ v.dir[i].name \in Names /\ v.dir[i].clust \in {0} \cup Clusters
                          /\ v.dir[i].size \in Nat
  BY <1>2, EntryFields
<1> QED  BY <1>1, <1>2, <1>3

(* An image changed in one place.                                          *)
LEMMA SetFields ==
    ASSUME NEW v \in Imgs
    PROVE  /\ \A c \in Clusters : \A x \in Links :
                 /\ SetFat(v, c, x) \in Imgs
                 /\ SetFat(v, c, x).dir = v.dir /\ SetFat(v, c, x).data = v.data
                 /\ SetFat(v, c, x).fat[c] = x
                 /\ \A b \in Clusters : b # c => SetFat(v, c, x).fat[b] = v.fat[b]
           /\ \A i \in 1 .. Slots : \A x \in DirEntries :
                 /\ SetDir(v, i, x) \in Imgs
                 /\ SetDir(v, i, x).fat = v.fat /\ SetDir(v, i, x).data = v.data
                 /\ SetDir(v, i, x).dir[i] = x
                 /\ \A j \in 1 .. Slots : j # i => SetDir(v, i, x).dir[j] = v.dir[j]
           /\ \A c \in Clusters : \A x \in Sectorful :
                 /\ SetData(v, c, x) \in Imgs
                 /\ SetData(v, c, x).fat = v.fat /\ SetData(v, c, x).dir = v.dir
                 /\ SetData(v, c, x).data[c] = x
                 /\ \A b \in Clusters : b # c => SetData(v, c, x).data[b] = v.data[b]
<1>0. v.fat \in [Clusters -> Links] /\ v.dir \in [1 .. Slots -> DirEntries] /\ v.data \in [Clusters -> Sectorful]
  BY ImgFields
<1>1. ASSUME NEW c \in Clusters, NEW x \in Links
      PROVE  /\ SetFat(v, c, x) \in Imgs
             /\ SetFat(v, c, x).dir = v.dir /\ SetFat(v, c, x).data = v.data
             /\ SetFat(v, c, x).fat[c] = x
             /\ \A b \in Clusters : b # c => SetFat(v, c, x).fat[b] = v.fat[b]
  <2> PICK f : f = Put(v.fat, c, x) OBVIOUS
  <2>1. f \in [Clusters -> Links] /\ f[c] = x /\ \A b \in Clusters : b # c => f[b] = v.fat[b]
    BY <1>0 DEF Put
  <2>2. SetFat(v, c, x) = [fat |-> f, dir |-> v.dir, data |-> v.data]  BY DEF SetFat
  <2> QED  BY <1>0, <2>1, <2>2 DEF Imgs
<1>2. ASSUME NEW i \in 1 .. Slots, NEW x \in DirEntries
      PROVE  /\ SetDir(v, i, x) \in Imgs
             /\ SetDir(v, i, x).fat = v.fat /\ SetDir(v, i, x).data = v.data
             /\ SetDir(v, i, x).dir[i] = x
             /\ \A j \in 1 .. Slots : j # i => SetDir(v, i, x).dir[j] = v.dir[j]
  <2> PICK f : f = Put(v.dir, i, x) OBVIOUS
  <2>1. f \in [1 .. Slots -> DirEntries] /\ f[i] = x /\ \A b \in 1 .. Slots : b # i => f[b] = v.dir[b]
    BY <1>0 DEF Put
  <2>2. SetDir(v, i, x) = [fat |-> v.fat, dir |-> f, data |-> v.data]  BY DEF SetDir
  <2> QED  BY <1>0, <2>1, <2>2 DEF Imgs
<1>3. ASSUME NEW c \in Clusters, NEW x \in Sectorful
      PROVE  /\ SetData(v, c, x) \in Imgs
             /\ SetData(v, c, x).fat = v.fat /\ SetData(v, c, x).dir = v.dir
             /\ SetData(v, c, x).data[c] = x
             /\ \A b \in Clusters : b # c => SetData(v, c, x).data[b] = v.data[b]
  <2> PICK f : f = Put(v.data, c, x) OBVIOUS
  <2>1. f \in [Clusters -> Sectorful] /\ f[c] = x /\ \A b \in Clusters : b # c => f[b] = v.data[b]
    BY <1>0 DEF Put
  <2>2. SetData(v, c, x) = [fat |-> v.fat, dir |-> v.dir, data |-> f]  BY DEF SetData
  <2> QED  BY <1>0, <2>1, <2>2 DEF Imgs
<1> QED  BY <1>1, <1>2, <1>3

(* A change confined to clusters no file leads into is none to the files.  *)
LEMMA GoodAgree ==
    ASSUME NEW v \in Imgs, NEW w \in Imgs, NEW ma, NEW mo, NEW S,
           Good(v, ma, mo), Apart(v, S), w.dir = v.dir, Agree(v.fat, v.data, w.fat, w.data, S),
           NoDangling(w), mo = {} => Single(w)
    PROVE  Good(w, ma, mo)
<1>1. Files(w) = Files(v)  BY DEF Files
<1>2. \A i \in Files(v) : v.dir[i].clust \notin S /\ v.dir[i].size \in Nat
  BY ImgFields DEF Apart
<1>3. \A b \in Clusters \ S : v.fat[b] \notin S  BY DEF Apart
<1>4. \A i \in Files(w) : Ends(w.fat, w.dir[i].clust, w.dir[i].size)
  <2> TAKE i \in Files(w)
  <2>1. Ends(v.fat, v.dir[i].clust, v.dir[i].size)  BY <1>1 DEF Good
  <2> QED  BY <1>1, <1>2, <1>3, <2>1, EndsAgree
<1>5. Kept(w, ma)
  <2> SUFFICES ASSUME NEW i \in Files(w)
               PROVE  \E x \in UNION ma[w.dir[i].name] :
                         Carries(w.fat, w.data, w.dir[i].clust, w.dir[i].size, x)
    BY DEF Kept
  <2>1. PICK x \in UNION ma[v.dir[i].name] : Carries(v.fat, v.data, v.dir[i].clust, v.dir[i].size, x)
    BY <1>1 DEF Good, Kept
  <2>2. Carries(w.fat, w.data, v.dir[i].clust, v.dir[i].size, x)
    BY <1>1, <1>2, <1>3, <2>1, CarriesAgree
  <2> QED  BY <2>2
<1>6. There(w, ma) /\ Whole(w, mo)
  BY <1>1 DEF Good, There, Whole, Named
<1>7. Tight(w) /\ Distinct(w)
  BY <1>1 DEF Good, Tight, Distinct
<1> QED  BY <1>4, <1>5, <1>6, <1>7 DEF Good

(* An entry changes.                                                       *)
CanEnter(v, i, x, ma) ==
    /\ x # Never
    /\ \A j \in 1 .. i - 1 : v.dir[j] # Never
    /\ IsFile(x) => /\ \A j \in Files(v) : v.dir[j].name = x.name => j = i
                    /\ Ends(v.fat, x.clust, x.size)
                    /\ \E y \in UNION ma[x.name] : Carries(v.fat, v.data, x.clust, x.size, y)
                    /\ x.clust # 0 => v.fat[x.clust] # Free
    /\ IsFile(v.dir[i]) => (IsFile(x) /\ x.name = v.dir[i].name) \/ {} \in ma[v.dir[i].name]

(* An entry set in a free slot, or over one that is free to go, keeps the  *)
(* image good.                                                             *)
LEMMA GoodEnter ==
    ASSUME NEW v \in Imgs, NEW ma, NEW mo, NEW i \in 1 .. Slots, NEW x \in DirEntries,
           Good(v, ma, mo), CanEnter(v, i, x, ma), NEW w, w = SetDir(v, i, x),
           Whole(w, mo), mo = {} => Single(w)
    PROVE  Good(w, ma, mo)
<1>1. /\ w \in Imgs /\ w.fat = v.fat /\ w.data = v.data /\ w.dir[i] = x
      /\ \A j \in 1 .. Slots : j # i => w.dir[j] = v.dir[j]
  BY SetFields
<1>2. \A j \in Files(w) : j \in 1 .. Slots /\ ((j = i /\ IsFile(x)) \/ (j # i /\ j \in Files(v)))
  BY <1>1 DEF Files
<1>3. Tight(w)
  <2> SUFFICES ASSUME NEW a \in 1 .. Slots, NEW b \in 1 .. Slots, a < b, w.dir[a] = Never
               PROVE  w.dir[b] = Never
    BY DEF Tight
  <2>1. a # i /\ v.dir[a] = Never  BY <1>1 DEF CanEnter
  <2>2. ~(a \in 1 .. i - 1)  BY <2>1 DEF CanEnter
  <2>3. b # i  BY <2>1, <2>2
  <2>4. v.dir[b] = Never  BY <2>1 DEF Good, Tight
  <2> QED  BY <1>1, <2>3, <2>4
<1>4. Distinct(w)
  <2> SUFFICES ASSUME NEW a \in Files(w), NEW b \in Files(w), w.dir[a].name = w.dir[b].name
               PROVE  a = b
    BY DEF Distinct
  <2>1. CASE a # i /\ b # i  BY <1>1, <1>2, <2>1 DEF Good, Distinct
  <2>2. CASE a = i /\ b # i  BY <1>1, <1>2, <2>2 DEF CanEnter
  <2>3. CASE a # i /\ b = i  BY <1>1, <1>2, <2>3 DEF CanEnter
  <2> QED  BY <2>1, <2>2, <2>3
<1>5. NoDangling(w)
  <2> SUFFICES ASSUME NEW c \in Clusters, v.fat[c] = Free
               PROVE  NoRef(w, c)
    BY <1>1 DEF NoDangling
  <2>1. NoRef(v, c)  BY DEF Good, NoDangling
  <2>2. ~Linked(w, c)  BY <1>1, <2>1 DEF NoRef, Linked
  <2>3. c # 0  BY EntryFields
  <2>4. ~Headed(w, c)  BY <1>1, <1>2, <2>1, <2>3 DEF NoRef, Headed, CanEnter
  <2> QED  BY <2>2, <2>4 DEF NoRef
<1>6. \A j \in Files(w) : Ends(w.fat, w.dir[j].clust, w.dir[j].size)
  BY <1>1, <1>2 DEF Good, CanEnter
<1>7. Kept(w, ma)
  <2> SUFFICES ASSUME NEW j \in Files(w)
               PROVE  \E y \in UNION ma[w.dir[j].name] :
                         Carries(w.fat, w.data, w.dir[j].clust, w.dir[j].size, y)
    BY DEF Kept
  <2>1. CASE j = i  BY <1>1, <1>2, <2>1 DEF CanEnter
  <2>2. CASE j # i  BY <1>1, <1>2, <2>2 DEF Good, Kept
  <2> QED  BY <2>1, <2>2
<1>8. There(w, ma)
  <2> SUFFICES ASSUME NEW n \in Names, {} \notin ma[n] PROVE Named(w, n)
    BY DEF There
  <2>1. PICK j \in Files(v) : v.dir[j].name = n  BY DEF Good, There, Named
  <2>2. j \in 1 .. Slots /\ IsFile(v.dir[j])  BY DEF Files
  <2>3. CASE j = i
    <3>1. IsFile(x) /\ x.name = n  BY <2>1, <2>2, <2>3 DEF CanEnter
    <3>2. i \in Files(w) /\ w.dir[i].name = n  BY <1>1, <3>1 DEF Files
    <3> QED  BY <3>2 DEF Named
  <2>4. CASE j # i
    <3>1. j \in Files(w) /\ w.dir[j].name = n  BY <1>1, <2>1, <2>2, <2>4 DEF Files
    <3> QED  BY <3>1 DEF Named
  <2> QED  BY <2>3, <2>4
<1> QED  BY <1>3, <1>4, <1>5, <1>6, <1>7, <1>8 DEF Good

(* With fewer references, none is doubled.                                 *)
Fewer(v, w) ==
    /\ \A b \in Clusters : w.fat[b] = v.fat[b] \/ w.fat[b] \notin Clusters
    /\ \A i \in Files(w) : (i \in Files(v) /\ w.dir[i].clust = v.dir[i].clust) \/ w.dir[i].clust = 0

(* Fewer references, none to a new cluster: still none is named twice.     *)
LEMMA SingleFewer ==
    ASSUME NEW v, NEW w, Fewer(v, w)
    PROVE  /\ Single(v) => Single(w)
           /\ \A c \in Clusters : NoRef(v, c) => NoRef(w, c)
<1>0. 0 \notin Clusters  BY EntryFields
<1>1. \A c \in Clusters : /\ Headed(w, c) => Headed(v, c)
                          /\ Linked(w, c) => Linked(v, c)
  BY <1>0 DEF Fewer, Headed, Linked
<1>2. OneHead(v) => OneHead(w)  BY DEF OneHead, Fewer
<1>3. OneLink(v) => OneLink(w)  BY DEF OneLink, Fewer
<1>4. HeadOrLink(v) => HeadOrLink(w)  BY <1>1 DEF HeadOrLink
<1> QED  BY <1>1, <1>2, <1>3, <1>4 DEF Single, NoRef

FreesOne(v, ma, mo, c, w) ==
    /\ Good(w, ma, mo) /\ w \in Imgs /\ w.dir = v.dir /\ Files(w) = Files(v)
    /\ \A n \in Clusters : v.fat[c] = n /\ Single(v) => NoRef(w, n)
    /\ Lost(w) \subseteq (Lost(v) \ {c}) \cup {v.fat[c]}
    /\ NoRef(w, c)

(* A cluster nothing refers to is freed.                                   *)
LEMMA FreeGood ==
    ASSUME NEW v \in Imgs, NEW ma, NEW mo, Good(v, ma, mo), NEW c \in Clusters, NoRef(v, c),
           NEW w, w = SetFat(v, c, Free)
    PROVE  FreesOne(v, ma, mo, c, w)
<1>0. Free \in Links /\ Free \notin Clusters  BY EntryFields DEF Links
<1>1. /\ w \in Imgs /\ w.dir = v.dir /\ w.data = v.data /\ w.fat[c] = Free
      /\ \A b \in Clusters : b # c => w.fat[b] = v.fat[b]
  BY <1>0, SetFields
<1>2. Files(w) = Files(v)  BY <1>1 DEF Files
<1>3. Fewer(v, w)  BY <1>0, <1>1, <1>2 DEF Fewer
<1>4. (Single(v) => Single(w)) /\ \A d \in Clusters : NoRef(v, d) => NoRef(w, d)
  BY <1>3, SingleFewer
<1>5. NoDangling(w)
  BY <1>1, <1>4 DEF Good, NoDangling
<1>6. Apart(v, {c})
  BY DEF NoRef, Headed, Linked, Apart
<1>7. Agree(v.fat, v.data, w.fat, w.data, {c})  BY <1>1 DEF Agree
<1>8. Good(w, ma, mo)
  BY <1>1, <1>4, <1>5, <1>6, <1>7, GoodAgree DEF Good
<1>9. ASSUME NEW n \in Clusters, v.fat[c] = n, Single(v) PROVE NoRef(w, n)
  <2>1. ~Headed(v, n)  BY <1>9 DEF Single, HeadOrLink, Linked
  <2>2. ~Headed(w, n)  BY <1>1, <1>2, <2>1 DEF Headed
  <2>3. \A b \in Clusters : v.fat[b] = n => b = c  BY <1>9 DEF Single, OneLink
  <2>4. ~Linked(w, n)  BY <1>0, <1>1, <2>3 DEF Linked
  <2> QED  BY <2>2, <2>4 DEF NoRef
<1>10. \A d \in Clusters : d # v.fat[c] /\ NoRef(w, d) => NoRef(v, d)
  <2>1. \A d \in Clusters : Headed(v, d) => Headed(w, d)  BY <1>1, <1>2 DEF Headed
  <2>2. \A d \in Clusters : d # v.fat[c] /\ Linked(v, d) => Linked(w, d)  BY <1>1 DEF Linked
  <2> QED  BY <2>1, <2>2 DEF NoRef
<1>11. Lost(w) \subseteq (Lost(v) \ {c}) \cup {v.fat[c]}
  BY <1>1, <1>10 DEF Lost
<1> QED  BY <1>1, <1>2, <1>4, <1>8, <1>9, <1>11 DEF FreesOne

(* A free cluster is marked as the end of a chain.                         *)
LEMMA MarkGood ==
    ASSUME NEW v \in Imgs, NEW ma, NEW mo, Good(v, ma, mo), NEW n \in Clusters, v.fat[n] = Free,
           NEW w, w = SetFat(v, n, Eoc)
    PROVE  /\ Good(w, ma, mo) /\ w \in Imgs /\ w.dir = v.dir /\ w.data = v.data /\ w.fat[n] = Eoc
           /\ \A b \in Clusters : b # n => w.fat[b] = v.fat[b]
           /\ Files(w) = Files(v) /\ NoRef(v, n) /\ NoRef(w, n)
           /\ Lost(w) \subseteq Lost(v) \cup {n}
<1>0. Eoc \in Links /\ Eoc \notin Clusters /\ Eoc # Free  BY EntryFields DEF Links
<1>1. /\ w \in Imgs /\ w.dir = v.dir /\ w.data = v.data /\ w.fat[n] = Eoc
      /\ \A b \in Clusters : b # n => w.fat[b] = v.fat[b]
  BY <1>0, SetFields
<1>2. Files(w) = Files(v)  BY <1>1 DEF Files
<1>3. NoRef(v, n)  BY DEF Good, NoDangling
<1>4. Fewer(v, w)  BY <1>0, <1>1, <1>2 DEF Fewer
<1>5. (Single(v) => Single(w)) /\ \A d \in Clusters : NoRef(v, d) => NoRef(w, d)
  BY <1>4, SingleFewer
<1>6. NoDangling(w)  BY <1>0, <1>1, <1>5 DEF Good, NoDangling
<1>7. Apart(v, {n})  BY <1>3 DEF NoRef, Headed, Linked, Apart
<1>8. Agree(v.fat, v.data, w.fat, w.data, {n})  BY <1>1 DEF Agree
<1>9. Good(w, ma, mo)  BY <1>1, <1>5, <1>6, <1>7, <1>8, GoodAgree DEF Good
<1>10. \A d \in Clusters : NoRef(w, d) => NoRef(v, d)
  <2>1. \A d \in Clusters : Headed(v, d) => Headed(w, d)  BY <1>1, <1>2 DEF Headed
  <2>2. v.fat[n] \notin Clusters  BY EntryFields
  <2>3. \A d \in Clusters : Linked(v, d) => Linked(w, d)  BY <1>1, <2>2 DEF Linked
  <2> QED  BY <2>1, <2>3 DEF NoRef
<1>11. Lost(w) \subseteq Lost(v) \cup {n}  BY <1>1, <1>10 DEF Lost
<1> QED  BY <1>1, <1>2, <1>3, <1>5, <1>9, <1>11

(* The last cluster of a chain that stands apart is linked to a cluster    *)
(* nothing refers to.                                                      *)
LEMMA LinkGood ==
    ASSUME NEW v \in Imgs, NEW ma, NEW mo, Good(v, ma, mo), NEW n \in Clusters, NEW c \in Clusters, n # c,
           v.fat[n] = Eoc, NoRef(v, n), v.fat[c] = Eoc, NEW S, Apart(v, S), c \in S,
           NEW w, w = SetFat(v, c, n)
    PROVE  /\ Good(w, ma, mo) /\ w \in Imgs /\ w.dir = v.dir /\ w.data = v.data /\ w.fat[c] = n
           /\ \A b \in Clusters : b # c => w.fat[b] = v.fat[b]
           /\ Files(w) = Files(v)
           /\ Lost(w) \subseteq Lost(v) \ {n}
<1>0. n \in Links /\ Eoc \notin Clusters /\ Eoc # Free /\ n # Free  BY EntryFields DEF Links
<1>1. /\ w \in Imgs /\ w.dir = v.dir /\ w.data = v.data /\ w.fat[c] = n
      /\ \A b \in Clusters : b # c => w.fat[b] = v.fat[b]
  BY <1>0, SetFields
<1>2. Files(w) = Files(v)  BY <1>1 DEF Files
<1>3. \A d \in Clusters : Headed(w, d) <=> Headed(v, d)  BY <1>1, <1>2 DEF Headed
<1>4. \A d \in Clusters : d # n => (Linked(w, d) <=> Linked(v, d))
  BY <1>0, <1>1 DEF Linked
<1>5. ~Headed(v, n) /\ \A b \in Clusters : v.fat[b] # n  BY DEF NoRef, Linked
<1>6. NoDangling(w)
  <2> SUFFICES ASSUME NEW d \in Clusters, w.fat[d] = Free PROVE NoRef(w, d)  BY DEF NoDangling
  <2>1. d # c /\ v.fat[d] = Free /\ d # n  BY <1>0, <1>1
  <2>2. NoRef(v, d)  BY <2>1 DEF Good, NoDangling
  <2> QED  BY <1>3, <1>4, <2>1, <2>2 DEF NoRef
<1>7. Single(v) => Single(w)
  <2> SUFFICES ASSUME Single(v) PROVE Single(w)  OBVIOUS
  <2>1. OneHead(w)  BY <1>1, <1>2 DEF Single, OneHead
  <2>2. OneLink(w)
    <3> SUFFICES ASSUME NEW a \in Clusters, NEW b \in Clusters, w.fat[a] = w.fat[b], w.fat[a] \in Clusters
                 PROVE  a = b
      BY DEF OneLink
    <3>1. CASE a = c \/ b = c  BY <1>1, <1>5, <3>1
    <3>2. CASE a # c /\ b # c  BY <1>1, <3>2 DEF Single, OneLink
    <3> QED  BY <3>1, <3>2
  <2>3. HeadOrLink(w)  BY <1>3, <1>4, <1>5 DEF Single, HeadOrLink
  <2> QED  BY <2>1, <2>2, <2>3 DEF Single
<1>8. Agree(v.fat, v.data, w.fat, w.data, S)  BY <1>1 DEF Agree
<1>9. Good(w, ma, mo)  BY <1>1, <1>6, <1>7, <1>8, GoodAgree DEF Good
<1>10. Lost(w) \subseteq Lost(v) \ {n}
  <2> SUFFICES ASSUME NEW d \in Lost(w) PROVE d \in Lost(v) /\ d # n  OBVIOUS
  <2>1. d \in Clusters /\ w.fat[d] # Free /\ NoRef(w, d)  BY DEF Lost
  <2>2. d # n  BY <1>1, <2>1 DEF NoRef, Linked
  <2>3. NoRef(v, d)  BY <1>3, <1>4, <2>1, <2>2 DEF NoRef
  <2>4. v.fat[d] # Free  BY <1>0, <1>1, <2>1
  <2> QED  BY <2>1, <2>2, <2>3, <2>4 DEF Lost
<1> QED  BY <1>1, <1>2, <1>9, <1>10

(* A cluster that stands apart is written.                                 *)
LEMMA DataGood ==
    ASSUME NEW v \in Imgs, NEW ma, NEW mo, Good(v, ma, mo), NEW S, Apart(v, S), NEW c \in Clusters, c \in S,
           NEW x \in Sectorful, NEW w, w = SetData(v, c, x)
    PROVE  /\ Good(w, ma, mo) /\ w \in Imgs /\ w.dir = v.dir /\ w.fat = v.fat /\ w.data[c] = x
           /\ \A b \in Clusters : b # c => w.data[b] = v.data[b]
           /\ Files(w) = Files(v) /\ Lost(w) = Lost(v)
<1>1. /\ w \in Imgs /\ w.dir = v.dir /\ w.fat = v.fat /\ w.data[c] = x
      /\ \A b \in Clusters : b # c => w.data[b] = v.data[b]
  BY SetFields
<1>2. Files(w) = Files(v)  BY <1>1 DEF Files
<1>3. \A d \in Clusters : NoRef(w, d) <=> NoRef(v, d)
  BY <1>1, <1>2 DEF NoRef, Headed, Linked
<1>4. NoDangling(w)  BY <1>1, <1>3 DEF Good, NoDangling
<1>5. Single(v) => Single(w)
  <2>1. Fewer(v, w)  BY <1>1, <1>2 DEF Fewer
  <2> QED  BY <2>1, SingleFewer
<1>6. Agree(v.fat, v.data, w.fat, w.data, S)  BY <1>1 DEF Agree
<1>7. Good(w, ma, mo)  BY <1>1, <1>4, <1>5, <1>6, GoodAgree DEF Good
<1>8. Lost(w) = Lost(v)  BY <1>1, <1>3 DEF Lost
<1> QED  BY <1>1, <1>2, <1>7, <1>8

(* Clusters set apart stay so when only they, or no links into them, change. *)
LEMMA ApartKeeps ==
    ASSUME NEW v \in Imgs, NEW w \in Imgs, NEW S, Apart(v, S), w.dir = v.dir,
           \A b \in Clusters \ S : w.fat[b] = v.fat[b] \/ w.fat[b] \notin S
    PROVE  Apart(w, S)
<1>1. Files(w) = Files(v)  BY DEF Files
<1> QED  BY <1>1 DEF Apart

(* A cluster nothing refers to may join a set that stands apart.           *)
LEMMA ApartMore ==
    ASSUME NEW v \in Imgs, NEW S, Apart(v, S), NEW n \in Clusters, NoRef(v, n)
    PROVE  Apart(v, S \cup {n})
BY DEF Apart, NoRef, Headed, Linked

(* The image stays good when the files may hold more.                      *)
LEMMA GoodMay ==
    ASSUME NEW v \in Imgs, NEW ma, NEW mo, NEW ma2, NEW mo2, Good(v, ma, mo),
           \A n \in Names : ma[n] \subseteq ma2[n], Whole(v, mo2), mo2 = {} => Single(v)
    PROVE  Good(v, ma2, mo2)
<1>1. Kept(v, ma2)
  <2> SUFFICES ASSUME NEW i \in Files(v)
               PROVE  \E x \in UNION ma2[v.dir[i].name] :
                         Carries(v.fat, v.data, v.dir[i].clust, v.dir[i].size, x)
    BY DEF Kept
  <2>1. v.dir[i].name \in Names  BY ImgFields
  <2> QED  BY <2>1 DEF Good, Kept
<1>2. There(v, ma2)  BY DEF Good, There
<1> QED  BY <1>1, <1>2 DEF Good

(* No slot before one in use was never used.                               *)
LEMMA TightBefore ==
    ASSUME NEW v \in Imgs, Tight(v), NEW i \in 1 .. Slots, v.dir[i] # Never
    PROVE  \A j \in 1 .. i - 1 : v.dir[j] # Never
<1> SUFFICES ASSUME NEW j \in 1 .. i - 1, v.dir[j] = Never PROVE FALSE  OBVIOUS
<1>1. j \in 1 .. Slots /\ j < i  BY VolumeAssumption
<1> QED  BY <1>1 DEF Tight

(* An empty file has no chain and no bytes.                                *)
LEMMA Nothing ==
    ASSUME NEW fat, NEW data
    PROVE  Ends(fat, 0, 0) /\ Carries(fat, data, 0, 0, <<>>)
BY DEF Ends, Carries

(* An entry loses its chain: emptied, or deleted.                          *)
LetsGo(v, i, x, ma) ==
    LET e == v.dir[i] IN
    \/ x = Deleted /\ {} \in ma[e.name]
    \/ x = File(e.name, 0, 0) /\ {<<>>} \in ma[e.name]

(* An entry deleted or emptied lets go of its chain.                       *)
LEMMA LetGoGood ==
    ASSUME NEW v \in Imgs, NEW ma, Good(v, ma, {}), NEW i \in Files(v), NEW x, LetsGo(v, i, x, ma),
           NEW w, w = SetDir(v, i, x)
    PROVE  /\ Good(w, ma, {}) /\ w \in Imgs /\ w.fat = v.fat /\ w.dir[i] = x
           /\ v.dir[i].clust # 0 => v.dir[i].clust \in Clusters /\ NoRef(w, v.dir[i].clust)
           /\ Lost(w) \subseteq Lost(v) \cup {v.dir[i].clust}
           /\ x = Deleted => ~Named(w, v.dir[i].name)
<1> PICK n, c, z : n = v.dir[i].name /\ c = v.dir[i].clust /\ z = v.dir[i].size OBVIOUS
<1>0. /\ i \in 1 .. Slots /\ IsFile(v.dir[i]) /\ v.dir[i] \in DirEntries
      /\ n \in Names /\ c \in {0} \cup Clusters /\ z \in Nat
  BY ImgFields
<1>1. x \in DirEntries /\ x # Never /\ (IsFile(x) => x = File(n, 0, 0) /\ x.name = n /\ x.clust = 0 /\ x.size = 0)
  BY <1>0, EntryFields DEF LetsGo
<1>2. /\ w \in Imgs /\ w.fat = v.fat /\ w.data = v.data /\ w.dir[i] = x
      /\ \A j \in 1 .. Slots : j # i => w.dir[j] = v.dir[j]
  BY <1>0, <1>1, SetFields
<1>3. \A j \in Files(w) : j \in 1 .. Slots /\ ((j = i /\ IsFile(x)) \/ (j # i /\ j \in Files(v)))
  BY <1>2 DEF Files
<1>4. Fewer(v, w)
  BY <1>1, <1>2, <1>3 DEF Fewer
<1>5. Single(w) /\ Single(v)  BY <1>4, SingleFewer DEF Good
<1>6. v.dir[i] # Never  BY <1>0, EntryFields
<1>7. CanEnter(v, i, x, ma)
  <2>1. \A j \in 1 .. i - 1 : v.dir[j] # Never  BY <1>0, <1>6, TightBefore DEF Good
  <2>2. ASSUME IsFile(x)
        PROVE  /\ \A j \in Files(v) : v.dir[j].name = x.name => j = i
               /\ Ends(v.fat, x.clust, x.size)
               /\ \E y \in UNION ma[x.name] : Carries(v.fat, v.data, x.clust, x.size, y)
               /\ x.clust # 0 => v.fat[x.clust] # Free
    <3>1. x.name = n /\ x.clust = 0 /\ x.size = 0 /\ {<<>>} \in ma[n]
      BY <1>1, <2>2, EntryFields DEF LetsGo
    <3>2. <<>> \in UNION ma[x.name]  BY <3>1
    <3>3. \A j \in Files(v) : v.dir[j].name = x.name => j = i  BY <3>1 DEF Good, Distinct
    <3> QED  BY <3>1, <3>2, <3>3, Nothing
  <2>3. (IsFile(x) /\ x.name = v.dir[i].name) \/ {} \in ma[v.dir[i].name]
    BY <1>1, EntryFields DEF LetsGo
  <2> QED  BY <1>1, <2>1, <2>2, <2>3 DEF CanEnter
<1>8. Good(w, ma, {})
  BY <1>0, <1>1, <1>5, <1>7, GoodEnter DEF Whole
<1>9. ASSUME c # 0 PROVE c \in Clusters /\ NoRef(w, c)
  <2>1. c \in Clusters  BY <1>0, <1>9
  <2>2. Headed(v, c)  BY DEF Headed
  <2>3. ~Linked(v, c)  BY <1>5, <2>1, <2>2 DEF Single, HeadOrLink
  <2>4. ~Linked(w, c)  BY <1>2, <2>3 DEF Linked
  <2>5. \A j \in Files(v) : v.dir[j].clust = c => j = i  BY <1>5, <1>9 DEF Single, OneHead
  <2>6. ~Headed(w, c)  BY <1>1, <1>2, <1>3, <1>9, <2>5 DEF Headed
  <2> QED  BY <2>1, <2>4, <2>6 DEF NoRef
<1>10. Lost(w) \subseteq Lost(v) \cup {c}
  <2>1. \A d \in Clusters : d # c /\ Headed(v, d) => Headed(w, d)
    <3> SUFFICES ASSUME NEW d \in Clusters, d # c, NEW j \in Files(v), v.dir[j].clust = d
                 PROVE  Headed(w, d)
      BY DEF Headed
    <3>1. j # i /\ j \in Files(w) /\ w.dir[j].clust = d  BY <1>2 DEF Files
    <3> QED  BY <3>1 DEF Headed
  <2> QED  BY <1>2, <2>1 DEF Lost, NoRef, Linked
<1>11. x = Deleted => ~Named(w, n)
  BY <1>2, <1>3, EntryFields DEF Named, Good, Distinct
<1> QED  BY <1>2, <1>8, <1>9, <1>10, <1>11

(* A new entry, without a chain. *)
LEMMA RegisterGood ==
    ASSUME NEW v \in Imgs, NEW ma, NEW mo, Good(v, ma, mo), NEW i \in 1 .. Slots, ~IsFile(v.dir[i]),
           \A j \in 1 .. i - 1 : v.dir[j] # Never,
           NEW n \in Names, ~Named(v, n), {<<>>} \in ma[n],
           NEW w, w = SetDir(v, i, File(n, 0, 0))
    PROVE  /\ Good(w, ma, mo) /\ w \in Imgs /\ w.fat = v.fat /\ w.data = v.data
           /\ w.dir[i] = File(n, 0, 0) /\ \A j \in 1 .. Slots : j # i => w.dir[j] = v.dir[j]
           /\ Single(v) => Single(w)
           /\ Lost(w) \subseteq Lost(v)
<1> PICK x : x = File(n, 0, 0) OBVIOUS
<1>1. x \in DirEntries /\ x # Never /\ IsFile(x) /\ x.name = n /\ x.clust = 0 /\ x.size = 0
  BY EntryFields
<1>2. /\ w \in Imgs /\ w.fat = v.fat /\ w.data = v.data /\ w.dir[i] = x
      /\ \A j \in 1 .. Slots : j # i => w.dir[j] = v.dir[j]
  BY <1>1, SetFields
<1>3. \A j \in Files(w) : j \in 1 .. Slots /\ (j = i \/ (j # i /\ j \in Files(v)))
  BY <1>2 DEF Files
<1>4. Fewer(v, w)  BY <1>1, <1>2, <1>3 DEF Fewer
<1>5. Single(v) => Single(w)  BY <1>4, SingleFewer
<1>6. \A j \in Files(v) : j \in Files(w) /\ w.dir[j] = v.dir[j]
  BY <1>2 DEF Files
<1>7. Whole(w, mo)  BY <1>6 DEF Good, Whole, Named
<1>8. CanEnter(v, i, x, ma)
  <2>1. \A j \in Files(v) : v.dir[j].name # n  BY DEF Named
  <2>2. <<>> \in UNION ma[x.name]  BY <1>1
  <2> QED  BY <1>1, <2>1, <2>2, Nothing DEF CanEnter
<1>9. Good(w, ma, mo)  BY <1>1, <1>5, <1>7, <1>8, GoodEnter DEF Good
<1>10. Lost(w) \subseteq Lost(v)
  BY <1>2, <1>6 DEF Lost, NoRef, Linked, Headed
<1> QED  BY <1>2, <1>5, <1>9, <1>10

(* A rename: the second entry gets the file, the first goes.               *)
MoveReady(v, ma, mo, i, d, old, new, c, z, b) ==
    /\ v \in Imgs /\ Good(v, ma, mo) /\ mo # {} /\ Single(v)
    /\ i \in 1 .. Slots /\ d \in Files(v) /\ old \in Names /\ new \in Names /\ old # new
    /\ v.dir[d] = File(old, c, z) /\ v.dir[i] = File(new, 0, 0)
    /\ \A s \in ma[old] : s = {} \/ s \in ma[new]
    /\ {} \in ma[old]
    /\ mo = {<<old, new, b>>}

(* f_rename: a second entry of the file, then the first one deleted.       *)
LEMMA MoveGood ==
    ASSUME NEW v, NEW ma, NEW mo, NEW i, NEW d, NEW old, NEW new, NEW c, NEW z, NEW b,
           MoveReady(v, ma, mo, i, d, old, new, c, z, b),
           NEW v1, v1 = SetDir(v, i, File(new, c, z)),
           NEW v2, v2 = SetDir(v1, d, Deleted)
    PROVE  /\ Good(v1, ma, mo) /\ Good(v2, ma, mo) /\ v1 \in Imgs /\ v2 \in Imgs
           /\ Single(v2) /\ Lost(v2) \subseteq Lost(v)
           /\ Named(v2, new) /\ ~Named(v2, old)
<1> /\ v \in Imgs /\ Good(v, ma, mo) /\ mo # {} /\ Single(v)
    /\ i \in 1 .. Slots /\ d \in Files(v) /\ old \in Names /\ new \in Names /\ old # new
    /\ v.dir[d] = File(old, c, z) /\ v.dir[i] = File(new, 0, 0)
    /\ \A s \in ma[old] : s = {} \/ s \in ma[new]
    /\ {} \in ma[old]
    /\ mo = {<<old, new, b>>}
  BY DEF MoveReady
<1> PICK x : x = File(new, c, z) OBVIOUS
<1>0. /\ d \in 1 .. Slots /\ IsFile(v.dir[d]) /\ v.dir[d].name = old /\ v.dir[d].clust = c /\ v.dir[d].size = z
      /\ c \in {0} \cup Clusters /\ z \in Nat
  BY ImgFields, EntryFields
<1>1. /\ x \in DirEntries /\ x # Never /\ IsFile(x) /\ x.name = new /\ x.clust = c /\ x.size = z
      /\ IsFile(v.dir[i]) /\ v.dir[i].name = new /\ v.dir[i].clust = 0 /\ v.dir[i] # Never
  <2>1. new \in Names /\ v.dir[i] = File(new, 0, 0) /\ x = File(new, c, z)  OBVIOUS
  <2>2. x \in DirEntries  BY ONLY <1>0, <2>1, EntryFields
  <2>3. x # Never /\ IsFile(x) /\ x.name = new /\ x.clust = c /\ x.size = z
    BY ONLY <2>1, EntryFields
  <2>4. IsFile(v.dir[i]) /\ v.dir[i].name = new /\ v.dir[i].clust = 0 /\ v.dir[i] # Never
    BY ONLY <2>1, EntryFields
  <2> QED  BY <2>2, <2>3, <2>4
<1>2. i # d /\ i \in Files(v)  BY <1>0, <1>1 DEF Files
<1>3. /\ v1 \in Imgs /\ v1.fat = v.fat /\ v1.data = v.data /\ v1.dir[i] = x
      /\ \A j \in 1 .. Slots : j # i => v1.dir[j] = v.dir[j]
  BY <1>1, SetFields
<1>4. Files(v1) = Files(v)  BY <1>1, <1>2, <1>3 DEF Files
<1>5. \A j \in Files(v) : v1.dir[j].name = v.dir[j].name  BY <1>1, <1>3 DEF Files
<1>6. Whole(v1, mo)  BY <1>4, <1>5 DEF Good, Whole, Named
<1>7. CanEnter(v, i, x, ma)
  <2>1. \A j \in 1 .. i - 1 : v.dir[j] # Never  BY <1>1, TightBefore DEF Good
  <2>2. \A j \in Files(v) : v.dir[j].name = x.name => j = i  BY <1>1, <1>2 DEF Good, Distinct
  <2>3. Ends(v.fat, c, z)  BY <1>0 DEF Good
  <2>4. PICK y \in UNION ma[old] : Carries(v.fat, v.data, c, z, y)  BY <1>0 DEF Good, Kept
  <2>5. y \in UNION ma[new]  OBVIOUS
  <2>6. c # 0 => v.fat[c] # Free
    <3> SUFFICES ASSUME c # 0, v.fat[c] = Free PROVE FALSE  OBVIOUS
    <3>1. NoRef(v, c)  BY <1>0 DEF Good, NoDangling
    <3> QED  BY <1>0, <3>1 DEF NoRef, Headed
  <2> QED  BY <1>1, <2>1, <2>2, <2>3, <2>4, <2>5, <2>6 DEF CanEnter
<1>8. Good(v1, ma, mo)  BY <1>1, <1>6, <1>7, GoodEnter
<1>9. Deleted \in DirEntries /\ Deleted # Never /\ ~IsFile(Deleted)  BY EntryFields
<1>10. /\ v2 \in Imgs /\ v2.fat = v.fat /\ v2.data = v.data /\ v2.dir[d] = Deleted
       /\ \A j \in 1 .. Slots : j # d => v2.dir[j] = v1.dir[j]
  BY <1>0, <1>3, <1>9, SetFields
<1>11. v1.dir[d] = v.dir[d] /\ v1.dir[d] # Never /\ v2.dir[i] = x  BY <1>0, <1>2, <1>3, <1>10, EntryFields
<1>12. \A j \in Files(v2) : j # d /\ j \in Files(v) /\ v2.dir[j] = v1.dir[j]
  BY <1>4, <1>9, <1>10 DEF Files
<1>13. i \in Files(v2) /\ Named(v2, new)
  <2>1. i \in Files(v2)  BY <1>1, <1>11 DEF Files
  <2> QED  BY <1>1, <1>11, <2>1 DEF Named
<1>14. ~Named(v2, old)
  BY <1>0, <1>5, <1>12 DEF Named, Good, Distinct
<1>15. CanEnter(v1, d, Deleted, ma)
  <2>1. \A j \in 1 .. d - 1 : v1.dir[j] # Never  BY <1>0, <1>3, <1>8, <1>11, TightBefore DEF Good
  <2> QED  BY <1>0, <1>9, <1>11, <2>1 DEF CanEnter
<1>16. Whole(v2, mo)  BY <1>13 DEF Whole
<1>17. Good(v2, ma, mo)  BY <1>0, <1>3, <1>8, <1>9, <1>15, <1>16, GoodEnter
<1>18. \A j \in Files(v2) : j # i => v2.dir[j].clust = v.dir[j].clust
  BY <1>3, <1>12, ImgFields
<1>19. \A e \in Clusters : Headed(v2, e) <=> Headed(v, e)
  <2> TAKE e \in Clusters
  <2>1. Headed(v2, e) => Headed(v, e)  BY <1>0, <1>1, <1>11, <1>12, <1>18 DEF Headed
  <2>2. ASSUME NEW j \in Files(v), v.dir[j].clust = e PROVE Headed(v2, e)
    <3>1. CASE j = d
      <4>1. v2.dir[i].clust = e  BY <1>0, <1>1, <1>11, <2>2, <3>1
      <4> QED  BY <1>13, <4>1 DEF Headed
    <3>2. CASE j # d
      <4>1. j # i  BY <1>1, <2>2, EntryFields
      <4>2. j \in Files(v2)  BY <1>3, <1>10, <3>2, <4>1 DEF Files
      <4> QED  BY <1>18, <2>2, <4>1, <4>2 DEF Headed
    <3> QED  BY <3>1, <3>2
  <2> QED  BY <2>1, <2>2 DEF Headed
<1>20. \A e \in Clusters : Linked(v2, e) <=> Linked(v, e)  BY <1>10 DEF Linked
<1>21. Single(v2)
  <2>1. OneHead(v2)
    <3> SUFFICES ASSUME NEW j \in Files(v2), NEW k \in Files(v2),
                        v2.dir[j].clust = v2.dir[k].clust, v2.dir[j].clust # 0
                 PROVE  j = k
      BY DEF OneHead
    <3>1. v2.dir[i].clust = v.dir[d].clust  BY <1>0, <1>1, <1>11
    <3>2. \A a \in Files(v2) : a # d /\ a \in Files(v)  BY <1>12
    <3>3. CASE j # i /\ k # i  BY <1>18, <3>2, <3>3 DEF Single, OneHead
    <3>4. CASE j = i /\ k # i  BY <1>18, <3>1, <3>2, <3>4 DEF Single, OneHead
    <3>5. CASE j # i /\ k = i  BY <1>18, <3>1, <3>2, <3>5 DEF Single, OneHead
    <3> QED  BY <3>3, <3>4, <3>5
  <2>2. OneLink(v2)  BY <1>10 DEF Single, OneLink
  <2>3. HeadOrLink(v2)  BY <1>19, <1>20 DEF Single, HeadOrLink
  <2> QED  BY <2>1, <2>2, <2>3 DEF Single
<1>22. Lost(v2) \subseteq Lost(v)  BY <1>10, <1>19, <1>20 DEF Lost, NoRef
<1> QED  BY <1>3, <1>8, <1>10, <1>13, <1>14, <1>17, <1>21, <1>22

(* The volume has clusters, slots and sectors of some size.                *)
LEMMA Sizes ==
    /\ LastCluster \in Nat /\ LastCluster >= 3
    /\ SectorSize \in Nat \ {0} /\ Slots \in Nat \ {0}
BY VolumeAssumption, SMT

(* A chain ends; its clusters are no fewer than its length.                *)
LEMMA ChainFacts ==
    ASSUME NEW v \in Imgs, NEW k \in Nat, NEW p, Chain(v, p, k)
    PROVE  /\ Span(p, k) \subseteq Clusters
           /\ \A j \in 1 .. k : p[j] \in Clusters /\ v.fat[p[j]] # Free
           /\ k > 0 => /\ v.fat[p[k]] = Eoc /\ p[1] \in Clusters /\ p[k] \in Clusters
                       /\ p[1] \in Span(p, k) /\ p[k] \in Span(p, k)
                       /\ \A j \in 1 .. k : v.fat[p[j]] # p[1]
<1>1. \A j \in 1 .. k : p[j] \in Clusters  BY DEF Chain
<1>2. \A j \in 1 .. k : j = k \/ j \in 1 .. k - 1  OBVIOUS
<1>3. \A j \in 1 .. k : v.fat[p[j]] = Eoc \/ (j \in 1 .. k - 1 /\ v.fat[p[j]] = p[j + 1])
  BY <1>2 DEF Chain
<1>4. \A j \in 1 .. k - 1 : j + 1 \in 1 .. k  OBVIOUS
<1>5. \A j \in 1 .. k : v.fat[p[j]] # Free
  BY <1>1, <1>3, <1>4, EntryFields
<1>6. ASSUME k > 0 PROVE /\ 1 \in 1 .. k /\ k \in 1 .. k
                         /\ \A j \in 1 .. k : v.fat[p[j]] # p[1]
  <2>1. 1 \in 1 .. k /\ k \in 1 .. k  BY <1>6
  <2>2. ASSUME NEW j \in 1 .. k, v.fat[p[j]] = p[1] PROVE FALSE
    <3>1. p[1] # Eoc  BY <1>1, <2>1, EntryFields
    <3>2. j \in 1 .. k - 1 /\ p[j + 1] = p[1]  BY <1>3, <2>2, <3>1
    <3>3. j + 1 = 1  BY <1>4, <2>1, <3>2 DEF Chain
    <3> QED  BY <3>2, <3>3
  <2> QED  BY <2>1, <2>2
<1>7. Span(p, k) \subseteq Clusters  BY <1>1 DEF Span
<1>8. k > 0 => v.fat[p[k]] = Eoc  BY DEF Chain
<1>9. ASSUME k > 0 PROVE p[1] \in Span(p, k) /\ p[k] \in Span(p, k)
  BY <1>6, <1>9 DEF Span
<1> QED  BY <1>1, <1>5, <1>6, <1>7, <1>8, <1>9

(* A chain does not repeat a cluster, so it is not longer than the volume. *)
LEMMA ChainShort ==
    ASSUME NEW k \in Nat, NEW p \in [1 .. k -> Clusters], \A i, j \in 1 .. k : p[i] = p[j] => i = j
    PROVE  k < LastCluster
<1>1. /\ IsFiniteSet(1 .. k) /\ Cardinality(1 .. k) = k
      /\ IsFiniteSet(Clusters) /\ Cardinality(Clusters) = LastCluster - 1
  <2>1. 1 \in Int /\ 2 \in Int /\ k \in Int /\ LastCluster \in Int /\ LastCluster >= 3  BY Sizes
  <2>2. IsFiniteSet(1 .. k) /\ Cardinality(1 .. k) = IF 1 > k THEN 0 ELSE k - 1 + 1
    BY ONLY <2>1, FS_Interval
  <2>3. IsFiniteSet(2 .. LastCluster)
        /\ Cardinality(2 .. LastCluster) = IF 2 > LastCluster THEN 0 ELSE LastCluster - 2 + 1
    BY ONLY <2>1, FS_Interval
  <2> QED  BY <2>1, <2>2, <2>3 DEF Clusters
<1>2. p \in Injection(1 .. k, Clusters)  BY DEF Injection, IsInjective
<1>3. Cardinality(1 .. k) <= Cardinality(Clusters)  BY ONLY <1>1, <1>2, FS_Injection
<1> QED  BY <1>1, <1>3, Sizes

(* f_sync: the entry gets its chain and size.                              *)
CloseReady(v, ma, i, n, k, p, c, x, z, w) ==
    /\ v \in Imgs
    /\ Good(v, ma, {})
    /\ i \in 1 .. Slots
    /\ n \in Names
    /\ v.dir[i] = File(n, 0, 0)
    /\ k \in 0 .. LastCluster
    /\ Chain(v, p, k)
    /\ Apart(v, Span(p, k))
    /\ c = IF k = 0 THEN 0 ELSE p[1]
    /\ {x} \in ma[n]
    /\ z \in Nat
    /\ Len(x) = z
    /\ Nth(z) <= k
    /\ \A b \in 1 .. z : ByteAt(v.data, p, b) = x[b]
    /\ w = SetDir(v, i, File(n, c, z))
CloseFacts(v, ma, i, n, k, p, c, x, z, w) ==
    /\ Good(w, ma, {}) /\ w \in Imgs /\ w.dir[i] = File(n, c, z) /\ w.fat = v.fat
    /\ Lost(w) \subseteq Lost(v) \ {c}
    /\ Carries(w.fat, w.data, c, z, x)
(* f_sync's entry leads to what f_write took, and the image stays good.    *)
LEMMA CloseGood ==
    ASSUME NEW v, NEW ma, NEW i, NEW n, NEW k, NEW p, NEW c, NEW x, NEW z, NEW w,
           CloseReady(v, ma, i, n, k, p, c, x, z, w)
    PROVE  CloseFacts(v, ma, i, n, k, p, c, x, z, w)
<1> /\ v \in Imgs
    /\ Good(v, ma, {})
    /\ i \in 1 .. Slots
    /\ n \in Names
    /\ v.dir[i] = File(n, 0, 0)
    /\ k \in 0 .. LastCluster
    /\ Chain(v, p, k)
    /\ Apart(v, Span(p, k))
    /\ c = IF k = 0 THEN 0 ELSE p[1]
    /\ {x} \in ma[n]
    /\ z \in Nat
    /\ Len(x) = z
    /\ Nth(z) <= k
    /\ \A b \in 1 .. z : ByteAt(v.data, p, b) = x[b]
    /\ w = SetDir(v, i, File(n, c, z))
  BY DEF CloseReady
<1> SUFFICES /\ Good(w, ma, {}) /\ w \in Imgs /\ w.dir[i] = File(n, c, z) /\ w.fat = v.fat
             /\ Lost(w) \subseteq Lost(v) \ {c}
             /\ Carries(w.fat, w.data, c, z, x)
  BY DEF CloseFacts
<1> PICK y : y = File(n, c, z)  OBVIOUS
<1>0. /\ k \in Nat /\ Span(p, k) \subseteq Clusters
      /\ k > 0 => /\ v.fat[p[k]] = Eoc /\ p[1] \in Clusters /\ p[k] \in Clusters
                  /\ p[1] \in Span(p, k) /\ v.fat[p[1]] # Free
                  /\ \A j \in 1 .. k : v.fat[p[j]] # p[1]
  <2>1. k \in Nat  OBVIOUS
  <2>2. k > 0 => 1 \in 1 .. k  OBVIOUS
  <2> QED  BY ONLY <2>1, <2>2, v \in Imgs, Chain(v, p, k), ChainFacts
<1>1. /\ c \in {0} \cup Clusters /\ (k = 0 => c = 0) /\ (k > 0 => c = p[1])
  BY <1>0
<1>2. /\ y \in DirEntries /\ y # Never /\ IsFile(y) /\ y.name = n /\ y.clust = c /\ y.size = z
      /\ IsFile(v.dir[i]) /\ v.dir[i].name = n /\ v.dir[i].clust = 0 /\ v.dir[i] # Never
  BY <1>1, EntryFields
<1>3. /\ w \in Imgs /\ w.fat = v.fat /\ w.data = v.data /\ w.dir[i] = y
      /\ \A j \in 1 .. Slots : j # i => w.dir[j] = v.dir[j]
  BY <1>2, SetFields
<1>4. i \in Files(v) /\ Files(w) = Files(v)  BY <1>2, <1>3 DEF Files
<1>5. Nth(z) \in Nat /\ (z > 0 => Nth(z) > 0) /\ z <= Nth(z) * SectorSize
  BY NthType
<1>6. k * SectorSize >= z /\ (k = 0 => z = 0)
  <2>1. SectorSize \in Nat \ {0}  BY Sizes
  <2>2. CASE Nth(z) = k  BY <1>5, <2>2
  <2>3. CASE Nth(z) < k
    <3>1. SectorSize * Nth(z) + SectorSize <= SectorSize * k  BY <1>0, <1>5, <2>1, <2>3, MulStep
    <3>2. \A a \in Nat : a * SectorSize = SectorSize * a /\ a * SectorSize \in Nat  BY <2>1
    <3> QED  BY <1>0, <1>5, <2>1, <3>1, <3>2
  <2>4. Nth(z) = k \/ Nth(z) < k  BY <1>0, <1>5
  <2>5. k = 0 => z = 0  BY <1>0, <1>5
  <2> QED  BY <2>2, <2>3, <2>4, <2>5
<1>7. Ends(v.fat, c, z)
  <2>1. CASE k = 0  BY <1>1, <1>6, <2>1 DEF Ends
  <2>2. CASE k > 0
    <3>1. Path(v.fat, p, c, k)  BY <1>1, <2>2 DEF Chain, Path
    <3>2. k \in 1 .. LastCluster /\ p \in [1 .. k -> Clusters]  BY <1>0, <2>2 DEF Chain
    <3>3. c # 0  BY <1>0, <1>1, <2>2, EntryFields
    <3> QED  BY <1>0, <1>6, <2>2, <3>1, <3>2, <3>3 DEF Ends
  <2> QED  BY <1>0, <2>1, <2>2
<1>8. Carries(v.fat, v.data, c, z, x)
  <2>1. CASE z = 0  BY <2>1 DEF Carries
  <2>2. CASE z > 0
    <3> PICK kk : kk = Nth(z)  OBVIOUS
    <3>0. kk \in 1 .. k /\ k > 0  BY <1>0, <1>5, <2>2
    <3> DEFINE q == [j \in 1 .. kk |-> p[j]]
    <3>1. q \in [1 .. kk -> Clusters] /\ \A j \in 1 .. kk : q[j] = p[j]  BY <3>0 DEF Chain
    <3> HIDE DEF q
    <3>2. Path(v.fat, q, c, kk)
      <4>1. \A j \in 1 .. kk - 1 : j \in 1 .. kk /\ j + 1 \in 1 .. kk /\ j \in 1 .. k - 1
        BY <1>0, <3>0
      <4>2. \A j \in 1 .. kk - 1 : v.fat[q[j]] = q[j + 1]  BY <3>1, <4>1 DEF Chain
      <4> QED  BY <1>1, <3>0, <3>1, <4>2 DEF Path
    <3>3. \A b \in 1 .. z : Nth(b) \in 1 .. kk  BY NthType
    <3>4. \A b \in 1 .. z : ByteAt(v.data, q, b) = x[b]  BY <3>1, <3>3 DEF ByteAt
    <3> QED  BY <2>2, <3>1, <3>2, <3>4 DEF Carries, Bears
  <2> QED  BY <2>1, <2>2
<1>9. CanEnter(v, i, y, ma)
  <2>1. \A j \in 1 .. i - 1 : v.dir[j] # Never  BY <1>2, TightBefore DEF Good
  <2>2. \A j \in Files(v) : v.dir[j].name = y.name => j = i  BY <1>2, <1>4 DEF Good, Distinct
  <2>3. x \in UNION ma[n]  OBVIOUS
  <2>4. c # 0 => v.fat[c] # Free  BY <1>0, <1>1
  <2> QED  BY <1>2, <1>7, <1>8, <2>1, <2>2, <2>3, <2>4 DEF CanEnter
<1>10. \A j \in Files(v) : j # i => w.dir[j].clust = v.dir[j].clust  BY <1>3, ImgFields
<1>11. \A e \in Clusters : Headed(v, e) => Headed(w, e)
  BY <1>2, <1>4, <1>10, EntryFields DEF Headed
<1>12. \A e \in Clusters : Headed(w, e) => Headed(v, e) \/ e = c
  <2> SUFFICES ASSUME NEW e \in Clusters, NEW j \in Files(v), w.dir[j].clust = e
               PROVE  Headed(v, e) \/ e = c
    BY <1>4 DEF Headed
  <2>1. w.dir[i].clust = c  BY <1>2, <1>3
  <2>2. CASE j = i  BY <2>1, <2>2
  <2>3. CASE j # i  BY <1>10, <2>3 DEF Headed
  <2> QED  BY <2>2, <2>3
<1>13. \A e \in Clusters : Linked(w, e) <=> Linked(v, e)  BY <1>3 DEF Linked
<1>14. c \in Clusters => ~Headed(v, c) /\ ~Linked(v, c)
  <2> SUFFICES ASSUME c \in Clusters PROVE ~Headed(v, c) /\ ~Linked(v, c)  OBVIOUS
  <2>1. k > 0  BY <1>0, <1>1, EntryFields
  <2>2. c \in Span(p, k)  BY <1>0, <1>1, <2>1
  <2>3. ~Headed(v, c)  BY <2>2 DEF Apart, Headed
  <2>4. ASSUME NEW b \in Clusters, v.fat[b] = c PROVE FALSE
    <3>1. b \in Span(p, k)  BY <2>2, <2>4 DEF Apart
    <3> QED  BY <1>0, <1>1, <2>1, <2>4, <3>1 DEF Span
  <2> QED  BY <2>3, <2>4 DEF Linked
<1>15. Single(w)
  <2>1. Single(v)  BY DEF Good
  <2>2. OneHead(w)
    <3> SUFFICES ASSUME NEW a \in Files(v), NEW b \in Files(v),
                        w.dir[a].clust = w.dir[b].clust, w.dir[a].clust # 0
                 PROVE  a = b
      BY <1>4 DEF OneHead
    <3>1. w.dir[i].clust = c  BY <1>2, <1>3
    <3>2. CASE a # i /\ b # i  BY <1>10, <2>1, <3>2 DEF Single, OneHead
    <3>3. CASE a = i /\ b # i
      <4>1. v.dir[b].clust = c /\ c \in Clusters  BY <1>1, <1>10, <3>1, <3>3
      <4> QED  BY <1>14, <4>1 DEF Headed
    <3>4. CASE a # i /\ b = i
      <4>1. v.dir[a].clust = c /\ c \in Clusters  BY <1>1, <1>10, <3>1, <3>4
      <4> QED  BY <1>14, <4>1 DEF Headed
    <3> QED  BY <3>2, <3>3, <3>4
  <2>3. OneLink(w)  BY <1>3, <2>1 DEF Single, OneLink
  <2>4. HeadOrLink(w)  BY <1>12, <1>13, <1>14, <2>1 DEF Single, HeadOrLink
  <2> QED  BY <2>2, <2>3, <2>4 DEF Single
<1>16. Whole(w, {})  BY DEF Whole
<1>17. Good(w, ma, {})  BY <1>2, <1>3, <1>9, <1>15, <1>16, GoodEnter
<1>18. Lost(w) \subseteq Lost(v) \ {c}
  <2>1. Lost(w) \subseteq Lost(v)  BY <1>3, <1>11, <1>13 DEF Lost, NoRef
  <2>2. c \in Clusters => Headed(w, c)  BY <1>2, <1>3, <1>4 DEF Headed
  <2>3. c \notin Lost(w)  BY <2>2 DEF Lost, NoRef
  <2> QED  BY <2>1, <2>3
<1> QED  BY <1>3, <1>8, <1>17, <1>18

(* create_chain: the chain of a file, longer by the cluster it claimed.    *)
ClaimReady(v, ma, k, p, n, c, a, w, r) ==
    /\ v \in Imgs
    /\ Good(v, ma, {})
    /\ k \in Nat
    /\ Chain(v, p, k)
    /\ Apart(v, Span(p, k))
    /\ n \in Clusters
    /\ v.fat[n] = Free
    /\ c = IF k = 0 THEN 0 ELSE p[k]
    /\ a = SetFat(v, n, Eoc)
    /\ w = IF c = 0 THEN SetFat(v, n, Eoc) ELSE SetFat(SetFat(v, n, Eoc), c, n)
    /\ r = [j \in 1 .. k + 1 |-> IF j <= k THEN p[j] ELSE n]
ClaimFacts(v, ma, k, p, n, c, a, w, r) ==
    /\ a \in Imgs /\ Good(a, ma, {}) /\ a.dir = v.dir /\ a.data = v.data
    /\ w \in Imgs /\ Good(w, ma, {}) /\ w.dir = v.dir /\ w.data = v.data
    /\ Chain(a, p, k) /\ Chain(w, r, k + 1) /\ k + 1 < LastCluster
    /\ Span(r, k + 1) = Span(p, k) \cup {n}
    /\ Apart(a, Span(p, k)) /\ Apart(w, Span(r, k + 1)) /\ Apart(a, Span(r, k + 1))
    /\ Apart(v, Span(r, k + 1))
    /\ Lost(w) \subseteq Lost(v) \cup (IF k = 0 THEN {n} ELSE {})
    /\ \A b \in Clusters : /\ w.fat[b] = Free => a.fat[b] = Free
                           /\ a.fat[b] = Free => v.fat[b] = Free
(* A claimed cluster lengthens the chain; the images on the way are good.  *)
LEMMA ClaimGood ==
    ASSUME NEW v, NEW ma, NEW k, NEW p, NEW n, NEW c, NEW a, NEW w, NEW r,
           ClaimReady(v, ma, k, p, n, c, a, w, r)
    PROVE  ClaimFacts(v, ma, k, p, n, c, a, w, r)
<1> /\ v \in Imgs
    /\ Good(v, ma, {})
    /\ k \in Nat
    /\ Chain(v, p, k)
    /\ Apart(v, Span(p, k))
    /\ n \in Clusters
    /\ v.fat[n] = Free
    /\ c = IF k = 0 THEN 0 ELSE p[k]
    /\ a = SetFat(v, n, Eoc)
    /\ w = IF c = 0 THEN SetFat(v, n, Eoc) ELSE SetFat(SetFat(v, n, Eoc), c, n)
    /\ r = [j \in 1 .. k + 1 |-> IF j <= k THEN p[j] ELSE n]
  BY DEF ClaimReady
<1> SUFFICES /\ a \in Imgs /\ Good(a, ma, {}) /\ a.dir = v.dir /\ a.data = v.data
             /\ w \in Imgs /\ Good(w, ma, {}) /\ w.dir = v.dir /\ w.data = v.data
             /\ Chain(a, p, k) /\ Chain(w, r, k + 1) /\ k + 1 < LastCluster
             /\ Span(r, k + 1) = Span(p, k) \cup {n}
             /\ Apart(a, Span(p, k)) /\ Apart(w, Span(r, k + 1)) /\ Apart(a, Span(r, k + 1))
             /\ Apart(v, Span(r, k + 1))
             /\ Lost(w) \subseteq Lost(v) \cup (IF k = 0 THEN {n} ELSE {})
             /\ \A b \in Clusters : /\ w.fat[b] = Free => a.fat[b] = Free
                                    /\ a.fat[b] = Free => v.fat[b] = Free
  BY DEF ClaimFacts
<1>0. /\ Span(p, k) \subseteq Clusters
      /\ \A j \in 1 .. k : p[j] \in Clusters /\ v.fat[p[j]] # Free
      /\ k > 0 => /\ v.fat[p[k]] = Eoc /\ p[1] \in Clusters /\ p[k] \in Clusters
                  /\ p[1] \in Span(p, k) /\ p[k] \in Span(p, k)
                  /\ \A j \in 1 .. k : v.fat[p[j]] # p[1]
  BY ONLY v \in Imgs, k \in Nat, Chain(v, p, k), ChainFacts
<1>1. /\ Good(a, ma, {}) /\ a \in Imgs /\ a.dir = v.dir /\ a.data = v.data /\ a.fat[n] = Eoc
      /\ \A b \in Clusters : b # n => a.fat[b] = v.fat[b]
      /\ NoRef(v, n) /\ NoRef(a, n)
      /\ Lost(a) \subseteq Lost(v) \cup {n}
  BY MarkGood
<1>2. n \notin Span(p, k) /\ \A j \in 1 .. k : p[j] # n  BY <1>0 DEF Span
<1>3. \A b \in Clusters : v.fat[b] # n  BY <1>1 DEF NoRef, Linked
<1>4. (k = 0 => c = 0) /\ (k > 0 => c = p[k] /\ c \in Clusters /\ c # 0 /\ c # n /\ c \in Span(p, k))
  BY <1>0, <1>2, EntryFields
<1>5. Chain(a, p, k)
  <2>1. \A j \in 1 .. k : a.fat[p[j]] = v.fat[p[j]]  BY <1>0, <1>1, <1>2
  <2>2. \A j \in 1 .. k - 1 : j \in 1 .. k  OBVIOUS
  <2>3. k > 0 => k \in 1 .. k  OBVIOUS
  <2> QED  BY <1>0, <2>1, <2>2, <2>3 DEF Chain
<1>6. Eoc \notin Clusters /\ 0 \notin Clusters /\ Free = 0 /\ Eoc # Free  BY EntryFields
<1>7. Apart(a, Span(p, k))
  BY <1>0, <1>1, <1>6, ApartKeeps
<1>8. Apart(v, Span(p, k) \cup {n}) /\ Apart(a, Span(p, k) \cup {n})
  BY <1>1, <1>7, ApartMore
<1>9. /\ w \in Imgs /\ Good(w, ma, {}) /\ w.dir = v.dir /\ w.data = v.data
      /\ k = 0 => w = a
      /\ k > 0 => w.fat[c] = n
      /\ \A b \in Clusters : b # c => w.fat[b] = a.fat[b]
      /\ Lost(w) \subseteq Lost(v) \cup (IF k = 0 THEN {n} ELSE {})
  <2>1. CASE k = 0
    <3>1. w = a  BY <1>4, <2>1
    <3> QED  BY <1>1, <2>1, <3>1
  <2>2. CASE k > 0
    <3>1. w = SetFat(a, c, n)  BY <1>4, <2>2
    <3>2. c \in Clusters /\ n # c /\ a.fat[c] = Eoc /\ c \in Span(p, k)  BY <1>0, <1>1, <1>4, <2>2
    <3>3. /\ Good(w, ma, {}) /\ w \in Imgs /\ w.dir = a.dir /\ w.data = a.data /\ w.fat[c] = n
          /\ \A b \in Clusters : b # c => w.fat[b] = a.fat[b]
          /\ Lost(w) \subseteq Lost(a) \ {n}
      BY ONLY <1>1, <1>7, <3>1, <3>2, n \in Clusters, LinkGood
    <3> QED  BY <1>1, <2>2, <3>3
  <2> QED  BY <2>1, <2>2
<1>10. /\ r \in [1 .. k + 1 -> Clusters] /\ r[k + 1] = n
       /\ \A j \in 1 .. k : j \in 1 .. k + 1 /\ r[j] = p[j]
  <2>1. \A j \in 1 .. k + 1 : j \in 1 .. k \/ j = k + 1  OBVIOUS
  <2>2. k + 1 \in 1 .. k + 1 /\ ~(k + 1 <= k)  OBVIOUS
  <2>3. \A j \in 1 .. k : j \in 1 .. k + 1 /\ j <= k  OBVIOUS
  <2>4. \A j \in 1 .. k + 1 : r[j] = IF j <= k THEN p[j] ELSE n  OBVIOUS
  <2>5. \A j \in 1 .. k + 1 : r[j] \in Clusters  BY <1>0, <2>1, <2>3, <2>4, <2>2
  <2> QED  BY <2>2, <2>3, <2>4, <2>5
<1>11. Span(r, k + 1) = Span(p, k) \cup {n}
  <2>1. \A j \in 1 .. k + 1 : j \in 1 .. k \/ j = k + 1  OBVIOUS
  <2>2. k + 1 \in 1 .. k + 1  OBVIOUS
  <2> QED  BY <1>10, <2>1, <2>2 DEF Span
<1>12. \A i, j \in 1 .. k + 1 : r[i] = r[j] => i = j
  <2>1. \A j \in 1 .. k + 1 : j \in 1 .. k \/ j = k + 1  OBVIOUS
  <2>2. \A i, j \in 1 .. k : p[i] = p[j] => i = j  BY DEF Chain
  <2> QED  BY <1>2, <1>10, <2>1, <2>2
<1>13. k + 1 < LastCluster
  <2>1. k + 1 \in Nat  OBVIOUS
  <2> QED  BY ONLY <1>10, <1>12, <2>1, ChainShort
<1>14. Chain(w, r, k + 1)
  <2>1. ASSUME NEW j \in 1 .. k PROVE w.fat[r[j]] = r[j + 1]
    <3>1. r[j] = p[j] /\ p[j] \in Clusters /\ p[j] # n  BY <1>0, <1>2, <1>10
    <3>2. CASE j = k
      BY <1>4, <1>9, <1>10, <3>1, <3>2
    <3>3. CASE j # k
      <4>1. j \in 1 .. k - 1 /\ j + 1 \in 1 .. k /\ k \in 1 .. k  BY <3>3
      <4>2. p[j] # p[k]  BY <3>3, <4>1 DEF Chain
      <4>3. w.fat[p[j]] = v.fat[p[j]]  BY <1>1, <1>4, <1>9, <3>1, <4>1, <4>2
      <4>4. v.fat[p[j]] = p[j + 1] /\ r[j + 1] = p[j + 1]  BY <1>10, <4>1 DEF Chain
      <4> QED  BY <3>1, <4>3, <4>4
    <3> QED  BY <3>2, <3>3
  <2>2. w.fat[r[k + 1]] = Eoc  BY <1>1, <1>4, <1>9, <1>10
  <2>3. 1 .. (k + 1) - 1 = 1 .. k  OBVIOUS
  <2> QED  BY <1>10, <1>12, <2>1, <2>2, <2>3 DEF Chain
<1>15. Apart(w, Span(r, k + 1))
  <2>1. \A b \in Clusters \ (Span(p, k) \cup {n}) : w.fat[b] = a.fat[b]  BY <1>4, <1>9
  <2>2. w.dir = a.dir  BY <1>1, <1>9
  <2>3. \A b \in Clusters \ (Span(p, k) \cup {n}) :
           w.fat[b] = a.fat[b] \/ w.fat[b] \notin Span(p, k) \cup {n}  BY <2>1
  <2>4. Apart(w, Span(p, k) \cup {n})  BY ONLY <1>1, <1>8, <1>9, <2>2, <2>3, ApartKeeps
  <2> QED  BY <1>11, <2>4
<1>16. \A b \in Clusters : /\ w.fat[b] = Free => a.fat[b] = Free
                           /\ a.fat[b] = Free => v.fat[b] = Free
  <2>1. Free \notin Clusters  BY <1>6
  <2> QED  BY <1>1, <1>4, <1>6, <1>9, <2>1
<1> QED  BY <1>1, <1>5, <1>7, <1>8, <1>9, <1>11, <1>13, <1>14, <1>15, <1>16

(* The sector of a byte and its place in it.                               *)
LEMMA NthIs ==
    ASSUME NEW s, s = SectorSize
    PROVE  /\ \A x \in Int : /\ Nth(x) \in Int /\ s * Nth(x) \in Int /\ (x - 1) % s \in Int
                             /\ x - 1 = (s * Nth(x) - s) + ((x - 1) % s)
                             /\ 0 <= (x - 1) % s /\ (x - 1) % s < s
           /\ \A x, q \in Int : s * q <= x - 1 /\ x - 1 < s * q + s => Nth(x) = q + 1
<1>0. s \in Nat \ {0}  BY Sizes
<1>1. \A x \in Int : /\ x \div s \in Int /\ x % s \in 0 .. s - 1
                     /\ x = s * (x \div s) + (x % s)
  BY <1>0
<1>2. \A x \in Int : Nth(x) = 1 + ((x - 1) \div s)  BY DEF Nth
<1>3. ASSUME NEW x \in Int
      PROVE  /\ Nth(x) \in Int /\ s * Nth(x) \in Int /\ (x - 1) % s \in Int
             /\ x - 1 = (s * Nth(x) - s) + ((x - 1) % s)
             /\ 0 <= (x - 1) % s /\ (x - 1) % s < s
  <2>0. x - 1 \in Int  OBVIOUS
  <2> PICK u \in Int, r \in 0 .. s - 1 : u = (x - 1) \div s /\ x - 1 = s * u + r /\ r = (x - 1) % s
    BY <1>1, <2>0
  <2>1. Nth(x) = 1 + u  BY <1>2
  <2>2. s * (1 + u) = s + s * u /\ s * u \in Int  BY ONLY <1>0, u \in Int
  <2>3. r \in Int /\ 0 <= r /\ r <= s - 1 /\ s \in Int  BY <1>0
  <2> QED  BY ONLY <2>1, <2>2, <2>3, x - 1 = s * u + r, r = (x - 1) % s, x \in Int, u \in Int
<1>4. ASSUME NEW x \in Int, NEW q \in Int, s * q <= x - 1, x - 1 < s * q + s
      PROVE  Nth(x) = q + 1
  <2> PICK y : y = Nth(x)  OBVIOUS
  <2>0. /\ y \in Int /\ s * y \in Int /\ s * q \in Int /\ s \in Int /\ s > 0
        /\ s * y - s <= x - 1 /\ x - 1 < s * y
    <3>1. /\ y \in Int /\ s * y \in Int /\ (x - 1) % s \in Int
          /\ x - 1 = (s * y - s) + ((x - 1) % s)
          /\ 0 <= (x - 1) % s /\ (x - 1) % s < s
      BY <1>3
    <3>2. s * q \in Int /\ s \in Int /\ s > 0  BY ONLY <1>0, q \in Int
    <3> QED  BY ONLY <3>1, <3>2, x \in Int
  <2>1. ~(y < q + 1)
    <3> SUFFICES ASSUME y < q + 1 PROVE FALSE  OBVIOUS
    <3>1. s * y + s <= s * (q + 1)  BY ONLY <1>0, <2>0, y < q + 1, q \in Int, MulStep
    <3>2. s * (q + 1) = s * q + s  BY ONLY <2>0, q \in Int
    <3> QED  BY ONLY <1>4, <2>0, <3>1, <3>2, x \in Int
  <2>2. ~(q + 1 < y)
    <3> SUFFICES ASSUME q + 1 < y PROVE FALSE  OBVIOUS
    <3>1. s * (q + 1) + s <= s * y  BY ONLY <1>0, <2>0, q + 1 < y, q \in Int, MulStep
    <3>2. s * (q + 1) = s * q + s  BY ONLY <2>0, q \in Int
    <3> QED  BY ONLY <1>4, <2>0, <3>1, <3>2, x \in Int
  <2> QED  BY <2>0, <2>1, <2>2
<1> QED  BY <1>3, <1>4

(* The file grows by n bytes within a sector.                              *)
Grows(z, n) ==
    /\ z % SectorSize \in Nat /\ z % SectorSize < SectorSize
    /\ Nth(z + n) = IF z % SectorSize = 0 THEN Nth(z) + 1 ELSE Nth(z)
    /\ \A b \in z + 1 .. z + n :
          /\ Nth(b) = Nth(z + n)
          /\ (b - 1) % SectorSize = (z % SectorSize) + (b - 1 - z)
    /\ \A b \in 1 .. z : Nth(b) = Nth(z + n) => (b - 1) % SectorSize < z % SectorSize
(* Where n more bytes fall that do not cross a sector.                     *)
LEMMA NthMore ==
    ASSUME NEW z \in Nat, NEW n \in Nat \ {0}, (z % SectorSize) + n <= SectorSize
    PROVE  Grows(z, n)
<1> PICK s : s = SectorSize  OBVIOUS
<1>0. s \in Nat \ {0}  BY Sizes
<1>1. PICK d \in Int, r \in 0 .. s - 1 : z = s * d + r /\ r = z % s
  <2>1. z \div s \in Int /\ z % s \in 0 .. s - 1 /\ z = s * (z \div s) + (z % s)  BY <1>0
  <2> QED  BY <2>1
<1>2. s * d \in Int /\ s \in Int /\ s > 0 /\ r \in Int /\ 0 <= r /\ r < s /\ s * (d + 1) = s * d + s
      /\ s * (d - 1) = s * d - s
  BY ONLY <1>0, <1>1, d \in Int
<1>3. \A b \in z + 1 .. z + n : Nth(b) = d + 1
  <2> TAKE b \in z + 1 .. z + n
  <2>1. b \in Int /\ s * d <= b - 1 /\ b - 1 < s * d + s
    BY ONLY <1>1, <1>2, (z % s) + n <= s, z \in Nat, n \in Nat \ {0}, b \in z + 1 .. z + n
  <2> QED  BY NthIs, <2>1
<1>4. z + n \in z + 1 .. z + n  BY ONLY z \in Nat, n \in Nat \ {0}
<1>5. Nth(z + n) = d + 1  BY <1>3, <1>4
<1>6. r = 0 => Nth(z) = d
  <2> SUFFICES ASSUME r = 0 PROVE Nth(z) = d  OBVIOUS
  <2>1. s * (d - 1) <= z - 1 /\ z - 1 < s * (d - 1) + s /\ d - 1 \in Int /\ z \in Int
    BY ONLY <1>1, <1>2, r = 0, z \in Nat
  <2>2. Nth(z) = (d - 1) + 1  BY NthIs, <2>1
  <2> QED  BY ONLY <2>2, d \in Int
<1>7. r # 0 => Nth(z) = d + 1
  <2> SUFFICES ASSUME r # 0 PROVE Nth(z) = d + 1  OBVIOUS
  <2>1. s * d <= z - 1 /\ z - 1 < s * d + s /\ z \in Int
    BY ONLY <1>1, <1>2, r # 0, z \in Nat
  <2> QED  BY NthIs, <2>1
<1>8. ASSUME NEW b \in Int, Nth(b) = d + 1 PROVE b - 1 = s * d + ((b - 1) % s) /\ (b - 1) % s \in Int
  <2>1. b - 1 = (s * Nth(b) - s) + ((b - 1) % s) /\ (b - 1) % s \in Int  BY NthIs
  <2> QED  BY ONLY <1>2, <1>8, <2>1
<1>9. ASSUME NEW b \in z + 1 .. z + n PROVE (b - 1) % s = (z % s) + (b - 1 - z)
  <2>1. b \in Int /\ Nth(b) = d + 1  BY <1>3
  <2>2. b - 1 = s * d + ((b - 1) % s) /\ (b - 1) % s \in Int  BY <1>8, <2>1
  <2> QED  BY ONLY <1>1, <1>2, <2>1, <2>2, z \in Nat
<1>10. ASSUME NEW b \in 1 .. z, Nth(b) = Nth(z + n) PROVE (b - 1) % s < z % s
  <2>1. b \in Int /\ Nth(b) = d + 1 /\ b <= z  BY <1>5, <1>10
  <2>2. b - 1 = s * d + ((b - 1) % s) /\ (b - 1) % s \in Int  BY <1>8, <2>1
  <2> QED  BY ONLY <1>1, <1>2, <2>1, <2>2, z \in Nat
<1>11. Nth(z) \in Int  BY <1>6, <1>7
<1> QED  BY <1>1, <1>2, <1>3, <1>5, <1>6, <1>7, <1>9, <1>10, <1>11 DEF Grows

(* The bytes stay where the clusters keep what they hold.                  *)
SameBytes(data, p, z, buf, dirty, x, data2, p2) ==
    /\ z \in Nat
    /\ dirty \in BOOLEAN
    /\ Held(data, p, z, buf, dirty, x)
    /\ \A j \in 1 .. Nth(z) : data2[p2[j]] = data[p[j]]
(* Bytes stay held where neither their clusters nor the buffer change.     *)
LEMMA HeldSame ==
    ASSUME NEW data, NEW p, NEW z, NEW buf, NEW dirty, NEW x, NEW data2, NEW p2,
           SameBytes(data, p, z, buf, dirty, x, data2, p2)
    PROVE  Held(data2, p2, z, buf, dirty, x)
<1> /\ z \in Nat
    /\ dirty \in BOOLEAN
    /\ Held(data, p, z, buf, dirty, x)
    /\ \A j \in 1 .. Nth(z) : data2[p2[j]] = data[p[j]]
  BY DEF SameBytes
<1>1. \A b \in 1 .. z : Nth(b) \in 1 .. Nth(z)  BY NthType
<1>2. \A b \in 1 .. z : ByteAt(data2, p2, b) = ByteAt(data, p, b)  BY <1>1 DEF ByteAt
<1> QED  BY <1>2 DEF Held

(* The buffer goes out to the last sector.                                 *)
Flushes(data, p, z, buf, x, data2) ==
    /\ z \in Nat
    /\ Held(data, p, z, buf, TRUE, x)
    /\ data2[p[Nth(z)]] = buf
    /\ \A j \in 1 .. Nth(z) : j # Nth(z) => data2[p[j]] = data[p[j]]
(* They stay held when the buffer goes out, and do not need it any more.   *)
LEMMA HeldFlush ==
    ASSUME NEW data, NEW p, NEW z, NEW buf, NEW x, NEW data2,
           Flushes(data, p, z, buf, x, data2)
    PROVE  Held(data2, p, z, buf, TRUE, x) /\ Held(data2, p, z, buf, FALSE, x)
<1> /\ z \in Nat
    /\ Held(data, p, z, buf, TRUE, x)
    /\ data2[p[Nth(z)]] = buf
    /\ \A j \in 1 .. Nth(z) : j # Nth(z) => data2[p[j]] = data[p[j]]
  BY DEF Flushes
<1>1. \A b \in 1 .. z : Nth(b) \in 1 .. Nth(z)  BY NthType
<1>2. \A b \in 1 .. z : Nth(b) # Nth(z) => ByteAt(data2, p, b) = ByteAt(data, p, b)
  BY <1>1 DEF ByteAt
<1>3. \A b \in 1 .. z : Nth(b) = Nth(z) => ByteAt(data2, p, b) = buf[1 + ((b - 1) % SectorSize)]
  BY DEF ByteAt
<1> QED  BY <1>2, <1>3 DEF Held

(* f_write appends to what the file has.                                   *)
Added(x, n, tok) == x \o [j \in 1 .. n |-> tok]
Extends(y, x, n, tok) ==
    /\ Len(x) \in Nat /\ y \in Octets /\ Len(y) = Len(x) + n
    /\ \A b \in 1 .. Len(x) : y[b] = x[b]
    /\ \A b \in Len(x) + 1 .. Len(x) + n : y[b] = tok
(* What f_write takes is added behind what the file has.                   *)
LEMMA Appended ==
    ASSUME NEW x \in Octets, NEW n \in Nat, NEW tok \in Bytes
    PROVE  Extends(Added(x, n, tok), x, n, tok)
<1> PICK S : S = Bytes \cup {0}  OBVIOUS
<1> PICK t : t = [j \in 1 .. n |-> tok]  OBVIOUS
<1> PICK y : y = Added(x, n, tok)  OBVIOUS
<1>1. t \in Seq(S) /\ Len(t) = n /\ x \in Seq(S)  BY DEF Octets
<1>2. \A j \in 1 .. n : t[j] = tok  OBVIOUS
<1>3. y = x \o t  BY DEF Added
<1>4. /\ Len(x) \in Nat /\ x \o t \in Seq(S) /\ Len(x \o t) = Len(x) + Len(t)
      /\ \A b \in 1 .. Len(x) + Len(t) : (x \o t)[b] = IF b <= Len(x) THEN x[b] ELSE t[b - Len(x)]
  BY ONLY <1>1
<1>5. \A b \in 1 .. Len(x) : y[b] = x[b]
  <2>1. \A b \in 1 .. Len(x) : b \in 1 .. Len(x) + Len(t) /\ b <= Len(x)  BY <1>1, <1>4
  <2> QED  BY <1>3, <1>4, <2>1
<1>6. \A b \in Len(x) + 1 .. Len(x) + n : y[b] = tok
  <2>1. \A b \in Len(x) + 1 .. Len(x) + n : b \in 1 .. Len(x) + Len(t) /\ ~(b <= Len(x)) /\ b - Len(x) \in 1 .. n
    BY <1>1, <1>4
  <2> QED  BY <1>2, <1>3, <1>4, <2>1
<1> QED  BY <1>1, <1>3, <1>4, <1>5, <1>6 DEF Octets, Extends

(* Bytes go into the buffer, up to the end of the sector.                  *)
Buffers(data, p, z, buf, dirty, x, at, n, tok, y, new) ==
    /\ z \in Nat
    /\ buf \in Sectorful
    /\ dirty \in BOOLEAN
    /\ x \in Octets
    /\ Len(x) = z
    /\ Held(data, p, z, buf, dirty, x)
    /\ at = z % SectorSize
    /\ dirty <=> at # 0
    /\ n \in Nat \ {0}
    /\ at + n <= SectorSize
    /\ tok \in Bytes
    /\ y = Added(x, n, tok)
    /\ new = [j \in 1 .. SectorSize |-> IF j \in (at + 1) .. (at + n) THEN tok ELSE buf[j]]
Fuller(data, p, z, buf, dirty, x, at, n, tok, y, new) ==
    /\ y \in Octets /\ Len(y) = z + n /\ new \in Sectorful
    /\ Held(data, p, z + n, new, TRUE, y)
(* Bytes put into the buffer are held.                                     *)
LEMMA HeldBuffer ==
    ASSUME NEW data, NEW p, NEW z, NEW buf, NEW dirty, NEW x, NEW at, NEW n, NEW tok,
           NEW y, NEW new,
           Buffers(data, p, z, buf, dirty, x, at, n, tok, y, new)
    PROVE  Fuller(data, p, z, buf, dirty, x, at, n, tok, y, new)
<1> /\ z \in Nat
    /\ buf \in Sectorful
    /\ dirty \in BOOLEAN
    /\ x \in Octets
    /\ Len(x) = z
    /\ Held(data, p, z, buf, dirty, x)
    /\ at = z % SectorSize
    /\ dirty <=> at # 0
    /\ n \in Nat \ {0}
    /\ at + n <= SectorSize
    /\ tok \in Bytes
    /\ y = Added(x, n, tok)
    /\ new = [j \in 1 .. SectorSize |-> IF j \in (at + 1) .. (at + n) THEN tok ELSE buf[j]]
  BY DEF Buffers
<1> SUFFICES /\ y \in Octets /\ Len(y) = z + n /\ new \in Sectorful
             /\ Held(data, p, z + n, new, TRUE, y)
  BY DEF Fuller
<1> PICK s : s = SectorSize  OBVIOUS
<1>0. s \in Nat \ {0} /\ at + n <= s /\ at = z % s  BY Sizes
<1>1. /\ at \in Nat /\ at < s
      /\ Nth(z + n) = IF at = 0 THEN Nth(z) + 1 ELSE Nth(z)
      /\ \A b \in z + 1 .. z + n : Nth(b) = Nth(z + n) /\ (b - 1) % s = at + (b - 1 - z)
      /\ \A b \in 1 .. z : Nth(b) = Nth(z + n) => (b - 1) % s < at
  <2>1. Grows(z, n)  BY <1>0, NthMore
  <2> QED  BY <1>0, <2>1 DEF Grows
<1>2. /\ y \in Octets /\ Len(y) = z + n
      /\ \A b \in 1 .. z : y[b] = x[b]
      /\ \A b \in z + 1 .. z + n : y[b] = tok
  <2>1. n \in Nat  OBVIOUS
  <2>2. Extends(y, x, n, tok)  BY <2>1, Appended
  <2> QED  BY <2>2 DEF Extends
<1>3. new \in Sectorful  BY DEF Sectorful
<1>4. ASSUME NEW b \in z + 1 .. z + n
      PROVE  Nth(b) = Nth(z + n) /\ y[b] = new[1 + ((b - 1) % SectorSize)]
  <2>1. (b - 1) % s = at + (b - 1 - z) /\ Nth(b) = Nth(z + n) /\ y[b] = tok  BY <1>1, <1>2
  <2>2. 1 + (at + (b - 1 - z)) \in (at + 1) .. (at + n) /\ 1 + (at + (b - 1 - z)) \in 1 .. s
    BY ONLY <1>0, z \in Nat, n \in Nat \ {0}, b \in z + 1 .. z + n
  <2>3. new[1 + (at + (b - 1 - z))] = tok  BY <2>2
  <2> QED  BY <2>1, <2>3
<1>5. ASSUME NEW b \in 1 .. z, Nth(b) = Nth(z + n)
      PROVE  y[b] = new[1 + ((b - 1) % SectorSize)]
  <2> PICK o : o = (b - 1) % s  OBVIOUS
  <2>1. o < at /\ y[b] = x[b]  BY <1>1, <1>2, <1>5
  <2>2. 0 <= o /\ o \in Int
    <3>1. b \in Int  OBVIOUS
    <3> QED  BY ONLY <3>1, s = SectorSize, o = (b - 1) % s, NthIs
  <2>3. 1 + o \in 1 .. s /\ 1 + o \notin (at + 1) .. (at + n)  BY ONLY <1>0, <2>1, <2>2, n \in Nat
  <2>4. new[1 + o] = buf[1 + o]  BY <2>3
  <2>5. dirty = TRUE /\ Nth(z + n) = Nth(z)  BY <1>0, <1>1, <2>1, <2>2
  <2>6. x[b] = buf[1 + o]  BY <1>5, <2>5 DEF Held
  <2> QED  BY <2>1, <2>4, <2>6
<1>6. ASSUME NEW b \in 1 .. z, Nth(b) # Nth(z + n)
      PROVE  y[b] = ByteAt(data, p, b)
  <2>1. ~(dirty /\ Nth(b) = Nth(z))  BY <1>0, <1>1, <1>6
  <2> QED  BY <1>2, <2>1 DEF Held
<1>7. \A b \in 1 .. z + n : b \in 1 .. z \/ b \in z + 1 .. z + n  OBVIOUS
<1>8. Held(data, p, z + n, new, TRUE, y)
  BY <1>4, <1>5, <1>6, <1>7 DEF Held
<1> QED  BY <1>2, <1>3, <1>8

(* A whole sector goes straight to the card.                               *)
Stores(data, p, z, buf, x, tok, y, data2) ==
    /\ z \in Nat
    /\ x \in Octets
    /\ Len(x) = z
    /\ Held(data, p, z, buf, FALSE, x)
    /\ z % SectorSize = 0
    /\ tok \in Bytes
    /\ y = Added(x, SectorSize, tok)
    /\ data2[p[Nth(z) + 1]] = [j \in 1 .. SectorSize |-> tok]
    /\ \A j \in 1 .. Nth(z) : data2[p[j]] = data[p[j]]
Longer(data, p, z, buf, x, tok, y, data2) ==
    /\ y \in Octets /\ Len(y) = z + SectorSize
    /\ Nth(z + SectorSize) = Nth(z) + 1
    /\ Held(data2, p, z + SectorSize, buf, FALSE, y)
(* A sector of bytes put into the next cluster is held.                    *)
LEMMA HeldSector ==
    ASSUME NEW data, NEW p, NEW z, NEW buf, NEW x, NEW tok, NEW y, NEW data2,
           Stores(data, p, z, buf, x, tok, y, data2)
    PROVE  Longer(data, p, z, buf, x, tok, y, data2)
<1> /\ z \in Nat
    /\ x \in Octets
    /\ Len(x) = z
    /\ Held(data, p, z, buf, FALSE, x)
    /\ z % SectorSize = 0
    /\ tok \in Bytes
    /\ y = Added(x, SectorSize, tok)
    /\ data2[p[Nth(z) + 1]] = [j \in 1 .. SectorSize |-> tok]
    /\ \A j \in 1 .. Nth(z) : data2[p[j]] = data[p[j]]
  BY DEF Stores
<1> SUFFICES /\ y \in Octets /\ Len(y) = z + SectorSize
             /\ Nth(z + SectorSize) = Nth(z) + 1
             /\ Held(data2, p, z + SectorSize, buf, FALSE, y)
  BY DEF Longer
<1> PICK s : s = SectorSize  OBVIOUS
<1>0. s \in Nat \ {0} /\ z % s = 0 /\ (z % s) + s <= s  BY Sizes
<1>1. /\ Nth(z + s) = Nth(z) + 1
      /\ \A b \in z + 1 .. z + s : Nth(b) = Nth(z + s)
  <2>1. Grows(z, s)  BY <1>0, NthMore
  <2> QED  BY <1>0, <2>1 DEF Grows
<1>2. /\ y \in Octets /\ Len(y) = z + s
      /\ \A b \in 1 .. z : y[b] = x[b]
      /\ \A b \in z + 1 .. z + s : y[b] = tok
  <2>1. s \in Nat /\ y = Added(x, s, tok)  BY <1>0
  <2>2. Extends(y, x, s, tok)  BY <2>1, Appended
  <2> QED  BY <2>2 DEF Extends
<1>3. ASSUME NEW b \in z + 1 .. z + s PROVE y[b] = ByteAt(data2, p, b)
  <2>0. b \in Int  BY <1>0
  <2>1. Nth(b) = Nth(z) + 1 /\ y[b] = tok  BY <1>1, <1>2
  <2>2. (b - 1) % s \in Int /\ 0 <= (b - 1) % s /\ (b - 1) % s < s
    BY ONLY <2>0, s = SectorSize, NthIs
  <2> PICK o : o = 1 + ((b - 1) % s)  OBVIOUS
  <2>3. o \in 1 .. s  BY <1>0, <2>2
  <2>4. data2[p[Nth(b)]] = [j \in 1 .. s |-> tok]  BY <2>1
  <2>5. data2[p[Nth(b)]][o] = tok  BY <2>3, <2>4
  <2> QED  BY <2>1, <2>5 DEF ByteAt
<1>4. Held(data2, p, z, buf, FALSE, x)
  <2>1. FALSE \in BOOLEAN  OBVIOUS
  <2>2. SameBytes(data, p, z, buf, FALSE, x, data2, p)  BY <2>1 DEF SameBytes
  <2> QED  BY ONLY <2>2, HeldSame
<1>5. \A b \in 1 .. z : y[b] = ByteAt(data2, p, b)  BY <1>2, <1>4 DEF Held
<1>6. \A b \in 1 .. z + s : b \in 1 .. z \/ b \in z + 1 .. z + s  BY <1>0
<1> QED  BY <1>1, <1>2, <1>3, <1>5, <1>6 DEF Held

(* The call looks at slot x.                                               *)
CallAt(x) == [call EXCEPT !.i = x]
(* The call at another slot.                                               *)
LEMMA CallAtFields ==
    ASSUME IsCall, NEW x,
           call' = CallAt(x)
    PROVE  /\ IsCall'
           /\ call'.fn = call.fn /\ call'.pc = call.pc /\ call'.name = call.name
           /\ call'.new = call.new /\ call'.i = x /\ call'.dir = call.dir /\ call'.e = call.e
           /\ call'.clst = call.clst /\ call'.scl = call.scl /\ call'.btw = call.btw
           /\ call'.left = call.left /\ call'.tok = call.tok /\ call'.got = call.got
<1> PICK v_fn : v_fn = call.fn  OBVIOUS
<1> PICK v_pc : v_pc = call.pc  OBVIOUS
<1> PICK v_name : v_name = call.name  OBVIOUS
<1> PICK v_new : v_new = call.new  OBVIOUS
<1> PICK v_i : v_i = call.i  OBVIOUS
<1> PICK v_dir : v_dir = call.dir  OBVIOUS
<1> PICK v_e : v_e = call.e  OBVIOUS
<1> PICK v_clst : v_clst = call.clst  OBVIOUS
<1> PICK v_scl : v_scl = call.scl  OBVIOUS
<1> PICK v_btw : v_btw = call.btw  OBVIOUS
<1> PICK v_left : v_left = call.left  OBVIOUS
<1> PICK v_tok : v_tok = call.tok  OBVIOUS
<1> PICK v_got : v_got = call.got  OBVIOUS
<1>0. call = CallRec(v_fn, v_pc, v_name, v_new, v_i, v_dir, v_e, v_clst, v_scl, v_btw, v_left, v_tok, v_got)
  BY DEF IsCall
<1> PICK u0 : u0 = x  OBVIOUS
<1> PICK r0 : r0 = [call EXCEPT !.i = u0]  OBVIOUS
<1>1. call' = r0  BY DEF CallAt
<1>a. r0 = CallRec(v_fn, v_pc, v_name, v_new, u0, v_dir, v_e, v_clst, v_scl, v_btw, v_left, v_tok, v_got)
  BY ONLY <1>0, r0 = [call EXCEPT !.i = u0] DEF CallRec
<1>2. call' = CallRec(v_fn, v_pc, v_name, v_new, u0, v_dir, v_e, v_clst, v_scl, v_btw, v_left, v_tok, v_got)  BY <1>1, <1>a
<1>3. /\ call'.fn = v_fn /\ call'.pc = v_pc /\ call'.name = v_name /\ call'.new = v_new
      /\ call'.i = u0 /\ call'.dir = v_dir /\ call'.e = v_e /\ call'.clst = v_clst
      /\ call'.scl = v_scl /\ call'.btw = v_btw /\ call'.left = v_left /\ call'.tok = v_tok
      /\ call'.got = v_got
  BY ONLY <1>2 DEF CallRec
<1>4. IsCall'  BY ONLY <1>2, <1>3 DEF IsCall
<1> QED  BY <1>3, <1>4

(* The call goes on at x.                                                  *)
CallPc(x) == [call EXCEPT !.pc = x]
(* The call at another place.                                              *)
LEMMA CallPcFields ==
    ASSUME IsCall, NEW x,
           call' = CallPc(x)
    PROVE  /\ IsCall'
           /\ call'.fn = call.fn /\ call'.pc = x /\ call'.name = call.name
           /\ call'.new = call.new /\ call'.i = call.i /\ call'.dir = call.dir
           /\ call'.e = call.e /\ call'.clst = call.clst /\ call'.scl = call.scl
           /\ call'.btw = call.btw /\ call'.left = call.left /\ call'.tok = call.tok
           /\ call'.got = call.got
<1> PICK v_fn : v_fn = call.fn  OBVIOUS
<1> PICK v_pc : v_pc = call.pc  OBVIOUS
<1> PICK v_name : v_name = call.name  OBVIOUS
<1> PICK v_new : v_new = call.new  OBVIOUS
<1> PICK v_i : v_i = call.i  OBVIOUS
<1> PICK v_dir : v_dir = call.dir  OBVIOUS
<1> PICK v_e : v_e = call.e  OBVIOUS
<1> PICK v_clst : v_clst = call.clst  OBVIOUS
<1> PICK v_scl : v_scl = call.scl  OBVIOUS
<1> PICK v_btw : v_btw = call.btw  OBVIOUS
<1> PICK v_left : v_left = call.left  OBVIOUS
<1> PICK v_tok : v_tok = call.tok  OBVIOUS
<1> PICK v_got : v_got = call.got  OBVIOUS
<1>0. call = CallRec(v_fn, v_pc, v_name, v_new, v_i, v_dir, v_e, v_clst, v_scl, v_btw, v_left, v_tok, v_got)
  BY DEF IsCall
<1> PICK u0 : u0 = x  OBVIOUS
<1> PICK r0 : r0 = [call EXCEPT !.pc = u0]  OBVIOUS
<1>1. call' = r0  BY DEF CallPc
<1>a. r0 = CallRec(v_fn, u0, v_name, v_new, v_i, v_dir, v_e, v_clst, v_scl, v_btw, v_left, v_tok, v_got)
  BY ONLY <1>0, r0 = [call EXCEPT !.pc = u0] DEF CallRec
<1>2. call' = CallRec(v_fn, u0, v_name, v_new, v_i, v_dir, v_e, v_clst, v_scl, v_btw, v_left, v_tok, v_got)  BY <1>1, <1>a
<1>3. /\ call'.fn = v_fn /\ call'.pc = u0 /\ call'.name = v_name /\ call'.new = v_new
      /\ call'.i = v_i /\ call'.dir = v_dir /\ call'.e = v_e /\ call'.clst = v_clst
      /\ call'.scl = v_scl /\ call'.btw = v_btw /\ call'.left = v_left /\ call'.tok = v_tok
      /\ call'.got = v_got
  BY ONLY <1>2 DEF CallRec
<1>4. IsCall'  BY ONLY <1>2, <1>3 DEF IsCall
<1> QED  BY <1>3, <1>4

(* The call comes to cluster x.                                            *)
CallClst(x) == [call EXCEPT !.clst = x]
(* The call at another cluster.                                            *)
LEMMA CallClstFields ==
    ASSUME IsCall, NEW x,
           call' = CallClst(x)
    PROVE  /\ IsCall'
           /\ call'.fn = call.fn /\ call'.pc = call.pc /\ call'.name = call.name
           /\ call'.new = call.new /\ call'.i = call.i /\ call'.dir = call.dir
           /\ call'.e = call.e /\ call'.clst = x /\ call'.scl = call.scl /\ call'.btw = call.btw
           /\ call'.left = call.left /\ call'.tok = call.tok /\ call'.got = call.got
<1> PICK v_fn : v_fn = call.fn  OBVIOUS
<1> PICK v_pc : v_pc = call.pc  OBVIOUS
<1> PICK v_name : v_name = call.name  OBVIOUS
<1> PICK v_new : v_new = call.new  OBVIOUS
<1> PICK v_i : v_i = call.i  OBVIOUS
<1> PICK v_dir : v_dir = call.dir  OBVIOUS
<1> PICK v_e : v_e = call.e  OBVIOUS
<1> PICK v_clst : v_clst = call.clst  OBVIOUS
<1> PICK v_scl : v_scl = call.scl  OBVIOUS
<1> PICK v_btw : v_btw = call.btw  OBVIOUS
<1> PICK v_left : v_left = call.left  OBVIOUS
<1> PICK v_tok : v_tok = call.tok  OBVIOUS
<1> PICK v_got : v_got = call.got  OBVIOUS
<1>0. call = CallRec(v_fn, v_pc, v_name, v_new, v_i, v_dir, v_e, v_clst, v_scl, v_btw, v_left, v_tok, v_got)
  BY DEF IsCall
<1> PICK u0 : u0 = x  OBVIOUS
<1> PICK r0 : r0 = [call EXCEPT !.clst = u0]  OBVIOUS
<1>1. call' = r0  BY DEF CallClst
<1>a. r0 = CallRec(v_fn, v_pc, v_name, v_new, v_i, v_dir, v_e, u0, v_scl, v_btw, v_left, v_tok, v_got)
  BY ONLY <1>0, r0 = [call EXCEPT !.clst = u0] DEF CallRec
<1>2. call' = CallRec(v_fn, v_pc, v_name, v_new, v_i, v_dir, v_e, u0, v_scl, v_btw, v_left, v_tok, v_got)  BY <1>1, <1>a
<1>3. /\ call'.fn = v_fn /\ call'.pc = v_pc /\ call'.name = v_name /\ call'.new = v_new
      /\ call'.i = v_i /\ call'.dir = v_dir /\ call'.e = v_e /\ call'.clst = u0
      /\ call'.scl = v_scl /\ call'.btw = v_btw /\ call'.left = v_left /\ call'.tok = v_tok
      /\ call'.got = v_got
  BY ONLY <1>2 DEF CallRec
<1>4. IsCall'  BY ONLY <1>2, <1>3 DEF IsCall
<1> QED  BY <1>3, <1>4

(* f_read has read x.                                                      *)
CallGot(x) == [call EXCEPT !.got = x]
(* The call with more bytes read.                                          *)
LEMMA CallGotFields ==
    ASSUME IsCall, NEW x,
           call' = CallGot(x)
    PROVE  /\ IsCall'
           /\ call'.fn = call.fn /\ call'.pc = call.pc /\ call'.name = call.name
           /\ call'.new = call.new /\ call'.i = call.i /\ call'.dir = call.dir
           /\ call'.e = call.e /\ call'.clst = call.clst /\ call'.scl = call.scl
           /\ call'.btw = call.btw /\ call'.left = call.left /\ call'.tok = call.tok
           /\ call'.got = x
<1> PICK v_fn : v_fn = call.fn  OBVIOUS
<1> PICK v_pc : v_pc = call.pc  OBVIOUS
<1> PICK v_name : v_name = call.name  OBVIOUS
<1> PICK v_new : v_new = call.new  OBVIOUS
<1> PICK v_i : v_i = call.i  OBVIOUS
<1> PICK v_dir : v_dir = call.dir  OBVIOUS
<1> PICK v_e : v_e = call.e  OBVIOUS
<1> PICK v_clst : v_clst = call.clst  OBVIOUS
<1> PICK v_scl : v_scl = call.scl  OBVIOUS
<1> PICK v_btw : v_btw = call.btw  OBVIOUS
<1> PICK v_left : v_left = call.left  OBVIOUS
<1> PICK v_tok : v_tok = call.tok  OBVIOUS
<1> PICK v_got : v_got = call.got  OBVIOUS
<1>0. call = CallRec(v_fn, v_pc, v_name, v_new, v_i, v_dir, v_e, v_clst, v_scl, v_btw, v_left, v_tok, v_got)
  BY DEF IsCall
<1> PICK u0 : u0 = x  OBVIOUS
<1> PICK r0 : r0 = [call EXCEPT !.got = u0]  OBVIOUS
<1>1. call' = r0  BY DEF CallGot
<1>a. r0 = CallRec(v_fn, v_pc, v_name, v_new, v_i, v_dir, v_e, v_clst, v_scl, v_btw, v_left, v_tok, u0)
  BY ONLY <1>0, r0 = [call EXCEPT !.got = u0] DEF CallRec
<1>2. call' = CallRec(v_fn, v_pc, v_name, v_new, v_i, v_dir, v_e, v_clst, v_scl, v_btw, v_left, v_tok, u0)  BY <1>1, <1>a
<1>3. /\ call'.fn = v_fn /\ call'.pc = v_pc /\ call'.name = v_name /\ call'.new = v_new
      /\ call'.i = v_i /\ call'.dir = v_dir /\ call'.e = v_e /\ call'.clst = v_clst
      /\ call'.scl = v_scl /\ call'.btw = v_btw /\ call'.left = v_left /\ call'.tok = v_tok
      /\ call'.got = u0
  BY ONLY <1>2 DEF CallRec
<1>4. IsCall'  BY ONLY <1>2, <1>3 DEF IsCall
<1> QED  BY <1>3, <1>4

(* The call goes on at x with cluster y.                                   *)
CallPcClst(x, y) == [call EXCEPT !.pc = x, !.clst = y]
(* The call at another place and cluster.                                  *)
LEMMA CallPcClstFields ==
    ASSUME IsCall, NEW x, NEW y,
           call' = CallPcClst(x, y)
    PROVE  /\ IsCall'
           /\ call'.fn = call.fn /\ call'.pc = x /\ call'.name = call.name
           /\ call'.new = call.new /\ call'.i = call.i /\ call'.dir = call.dir
           /\ call'.e = call.e /\ call'.clst = y /\ call'.scl = call.scl /\ call'.btw = call.btw
           /\ call'.left = call.left /\ call'.tok = call.tok /\ call'.got = call.got
<1> PICK v_fn : v_fn = call.fn  OBVIOUS
<1> PICK v_pc : v_pc = call.pc  OBVIOUS
<1> PICK v_name : v_name = call.name  OBVIOUS
<1> PICK v_new : v_new = call.new  OBVIOUS
<1> PICK v_i : v_i = call.i  OBVIOUS
<1> PICK v_dir : v_dir = call.dir  OBVIOUS
<1> PICK v_e : v_e = call.e  OBVIOUS
<1> PICK v_clst : v_clst = call.clst  OBVIOUS
<1> PICK v_scl : v_scl = call.scl  OBVIOUS
<1> PICK v_btw : v_btw = call.btw  OBVIOUS
<1> PICK v_left : v_left = call.left  OBVIOUS
<1> PICK v_tok : v_tok = call.tok  OBVIOUS
<1> PICK v_got : v_got = call.got  OBVIOUS
<1>0. call = CallRec(v_fn, v_pc, v_name, v_new, v_i, v_dir, v_e, v_clst, v_scl, v_btw, v_left, v_tok, v_got)
  BY DEF IsCall
<1> PICK u0 : u0 = x  OBVIOUS
<1> PICK u1 : u1 = y  OBVIOUS
<1> PICK r0 : r0 = [call EXCEPT !.pc = u0]  OBVIOUS
<1> PICK r1 : r1 = [r0 EXCEPT !.clst = u1]  OBVIOUS
<1>1. call' = r1  BY DEF CallPcClst
<1>a. r0 = CallRec(v_fn, u0, v_name, v_new, v_i, v_dir, v_e, v_clst, v_scl, v_btw, v_left, v_tok, v_got)
  BY ONLY <1>0, r0 = [call EXCEPT !.pc = u0] DEF CallRec
<1>b. r1 = CallRec(v_fn, u0, v_name, v_new, v_i, v_dir, v_e, u1, v_scl, v_btw, v_left, v_tok, v_got)
  BY ONLY <1>a, r1 = [r0 EXCEPT !.clst = u1] DEF CallRec
<1>2. call' = CallRec(v_fn, u0, v_name, v_new, v_i, v_dir, v_e, u1, v_scl, v_btw, v_left, v_tok, v_got)  BY <1>1, <1>b
<1>3. /\ call'.fn = v_fn /\ call'.pc = u0 /\ call'.name = v_name /\ call'.new = v_new
      /\ call'.i = v_i /\ call'.dir = v_dir /\ call'.e = v_e /\ call'.clst = u1
      /\ call'.scl = v_scl /\ call'.btw = v_btw /\ call'.left = v_left /\ call'.tok = v_tok
      /\ call'.got = v_got
  BY ONLY <1>2 DEF CallRec
<1>4. IsCall'  BY ONLY <1>2, <1>3 DEF IsCall
<1> QED  BY <1>3, <1>4

(* f_write has x bytes left.                                               *)
CallLeft(x) == [call EXCEPT !.pc = "round", !.left = x]
(* The call with fewer bytes left.                                         *)
LEMMA CallLeftFields ==
    ASSUME IsCall, NEW x,
           call' = CallLeft(x)
    PROVE  /\ IsCall'
           /\ call'.fn = call.fn /\ call'.pc = "round" /\ call'.name = call.name
           /\ call'.new = call.new /\ call'.i = call.i /\ call'.dir = call.dir
           /\ call'.e = call.e /\ call'.clst = call.clst /\ call'.scl = call.scl
           /\ call'.btw = call.btw /\ call'.left = x /\ call'.tok = call.tok
           /\ call'.got = call.got
<1> PICK v_fn : v_fn = call.fn  OBVIOUS
<1> PICK v_pc : v_pc = call.pc  OBVIOUS
<1> PICK v_name : v_name = call.name  OBVIOUS
<1> PICK v_new : v_new = call.new  OBVIOUS
<1> PICK v_i : v_i = call.i  OBVIOUS
<1> PICK v_dir : v_dir = call.dir  OBVIOUS
<1> PICK v_e : v_e = call.e  OBVIOUS
<1> PICK v_clst : v_clst = call.clst  OBVIOUS
<1> PICK v_scl : v_scl = call.scl  OBVIOUS
<1> PICK v_btw : v_btw = call.btw  OBVIOUS
<1> PICK v_left : v_left = call.left  OBVIOUS
<1> PICK v_tok : v_tok = call.tok  OBVIOUS
<1> PICK v_got : v_got = call.got  OBVIOUS
<1>0. call = CallRec(v_fn, v_pc, v_name, v_new, v_i, v_dir, v_e, v_clst, v_scl, v_btw, v_left, v_tok, v_got)
  BY DEF IsCall
<1> PICK u0 : u0 = "round"  OBVIOUS
<1> PICK u1 : u1 = x  OBVIOUS
<1> PICK r0 : r0 = [call EXCEPT !.pc = u0]  OBVIOUS
<1> PICK r1 : r1 = [r0 EXCEPT !.left = u1]  OBVIOUS
<1>1. call' = r1  BY DEF CallLeft
<1>a. r0 = CallRec(v_fn, u0, v_name, v_new, v_i, v_dir, v_e, v_clst, v_scl, v_btw, v_left, v_tok, v_got)
  BY ONLY <1>0, r0 = [call EXCEPT !.pc = u0] DEF CallRec
<1>b. r1 = CallRec(v_fn, u0, v_name, v_new, v_i, v_dir, v_e, v_clst, v_scl, v_btw, u1, v_tok, v_got)
  BY ONLY <1>a, r1 = [r0 EXCEPT !.left = u1] DEF CallRec
<1>2. call' = CallRec(v_fn, u0, v_name, v_new, v_i, v_dir, v_e, v_clst, v_scl, v_btw, u1, v_tok, v_got)  BY <1>1, <1>b
<1>3. /\ call'.fn = v_fn /\ call'.pc = u0 /\ call'.name = v_name /\ call'.new = v_new
      /\ call'.i = v_i /\ call'.dir = v_dir /\ call'.e = v_e /\ call'.clst = v_clst
      /\ call'.scl = v_scl /\ call'.btw = v_btw /\ call'.left = u1 /\ call'.tok = v_tok
      /\ call'.got = v_got
  BY ONLY <1>2 DEF CallRec
<1>4. IsCall'  BY ONLY <1>2, <1>3 DEF IsCall
<1> QED  BY <1>3, <1>4

(* The call needs an entry for x.                                          *)
CallAlloc(x) == [call EXCEPT !.pc = "alloc", !.i = 1, !.new = x]
(* The call in search of a free slot.                                      *)
LEMMA CallAllocFields ==
    ASSUME IsCall, NEW x,
           call' = CallAlloc(x)
    PROVE  /\ IsCall'
           /\ call'.fn = call.fn /\ call'.pc = "alloc" /\ call'.name = call.name
           /\ call'.new = x /\ call'.i = 1 /\ call'.dir = call.dir /\ call'.e = call.e
           /\ call'.clst = call.clst /\ call'.scl = call.scl /\ call'.btw = call.btw
           /\ call'.left = call.left /\ call'.tok = call.tok /\ call'.got = call.got
<1> PICK v_fn : v_fn = call.fn  OBVIOUS
<1> PICK v_pc : v_pc = call.pc  OBVIOUS
<1> PICK v_name : v_name = call.name  OBVIOUS
<1> PICK v_new : v_new = call.new  OBVIOUS
<1> PICK v_i : v_i = call.i  OBVIOUS
<1> PICK v_dir : v_dir = call.dir  OBVIOUS
<1> PICK v_e : v_e = call.e  OBVIOUS
<1> PICK v_clst : v_clst = call.clst  OBVIOUS
<1> PICK v_scl : v_scl = call.scl  OBVIOUS
<1> PICK v_btw : v_btw = call.btw  OBVIOUS
<1> PICK v_left : v_left = call.left  OBVIOUS
<1> PICK v_tok : v_tok = call.tok  OBVIOUS
<1> PICK v_got : v_got = call.got  OBVIOUS
<1>0. call = CallRec(v_fn, v_pc, v_name, v_new, v_i, v_dir, v_e, v_clst, v_scl, v_btw, v_left, v_tok, v_got)
  BY DEF IsCall
<1> PICK u0 : u0 = "alloc"  OBVIOUS
<1> PICK u1 : u1 = 1  OBVIOUS
<1> PICK u2 : u2 = x  OBVIOUS
<1> PICK r0 : r0 = [call EXCEPT !.pc = u0]  OBVIOUS
<1> PICK r1 : r1 = [r0 EXCEPT !.i = u1]  OBVIOUS
<1> PICK r2 : r2 = [r1 EXCEPT !.new = u2]  OBVIOUS
<1>1. call' = r2  BY DEF CallAlloc
<1>a. r0 = CallRec(v_fn, u0, v_name, v_new, v_i, v_dir, v_e, v_clst, v_scl, v_btw, v_left, v_tok, v_got)
  BY ONLY <1>0, r0 = [call EXCEPT !.pc = u0] DEF CallRec
<1>b. r1 = CallRec(v_fn, u0, v_name, v_new, u1, v_dir, v_e, v_clst, v_scl, v_btw, v_left, v_tok, v_got)
  BY ONLY <1>a, r1 = [r0 EXCEPT !.i = u1] DEF CallRec
<1>c. r2 = CallRec(v_fn, u0, v_name, u2, u1, v_dir, v_e, v_clst, v_scl, v_btw, v_left, v_tok, v_got)
  BY ONLY <1>b, r2 = [r1 EXCEPT !.new = u2] DEF CallRec
<1>2. call' = CallRec(v_fn, u0, v_name, u2, u1, v_dir, v_e, v_clst, v_scl, v_btw, v_left, v_tok, v_got)  BY <1>1, <1>c
<1>3. /\ call'.fn = v_fn /\ call'.pc = u0 /\ call'.name = v_name /\ call'.new = u2
      /\ call'.i = u1 /\ call'.dir = v_dir /\ call'.e = v_e /\ call'.clst = v_clst
      /\ call'.scl = v_scl /\ call'.btw = v_btw /\ call'.left = v_left /\ call'.tok = v_tok
      /\ call'.got = v_got
  BY ONLY <1>2 DEF CallRec
<1>4. IsCall'  BY ONLY <1>2, <1>3 DEF IsCall
<1> QED  BY <1>3, <1>4

(* f_rename found the entry x.                                             *)
CallNew(x) == [call EXCEPT !.pc = "find_new", !.i = 1, !.dir = call.i, !.e = x]
(* The call in search of the new name.                                     *)
LEMMA CallNewFields ==
    ASSUME IsCall, NEW x,
           call' = CallNew(x)
    PROVE  /\ IsCall'
           /\ call'.fn = call.fn /\ call'.pc = "find_new" /\ call'.name = call.name
           /\ call'.new = call.new /\ call'.i = 1 /\ call'.dir = call.i /\ call'.e = x
           /\ call'.clst = call.clst /\ call'.scl = call.scl /\ call'.btw = call.btw
           /\ call'.left = call.left /\ call'.tok = call.tok /\ call'.got = call.got
<1> PICK v_fn : v_fn = call.fn  OBVIOUS
<1> PICK v_pc : v_pc = call.pc  OBVIOUS
<1> PICK v_name : v_name = call.name  OBVIOUS
<1> PICK v_new : v_new = call.new  OBVIOUS
<1> PICK v_i : v_i = call.i  OBVIOUS
<1> PICK v_dir : v_dir = call.dir  OBVIOUS
<1> PICK v_e : v_e = call.e  OBVIOUS
<1> PICK v_clst : v_clst = call.clst  OBVIOUS
<1> PICK v_scl : v_scl = call.scl  OBVIOUS
<1> PICK v_btw : v_btw = call.btw  OBVIOUS
<1> PICK v_left : v_left = call.left  OBVIOUS
<1> PICK v_tok : v_tok = call.tok  OBVIOUS
<1> PICK v_got : v_got = call.got  OBVIOUS
<1>0. call = CallRec(v_fn, v_pc, v_name, v_new, v_i, v_dir, v_e, v_clst, v_scl, v_btw, v_left, v_tok, v_got)
  BY DEF IsCall
<1> PICK u0 : u0 = "find_new"  OBVIOUS
<1> PICK u1 : u1 = 1  OBVIOUS
<1> PICK u2 : u2 = call.i  OBVIOUS
<1> PICK u3 : u3 = x  OBVIOUS
<1> PICK r0 : r0 = [call EXCEPT !.pc = u0]  OBVIOUS
<1> PICK r1 : r1 = [r0 EXCEPT !.i = u1]  OBVIOUS
<1> PICK r2 : r2 = [r1 EXCEPT !.dir = u2]  OBVIOUS
<1> PICK r3 : r3 = [r2 EXCEPT !.e = u3]  OBVIOUS
<1>1. call' = r3  BY DEF CallNew
<1>a. r0 = CallRec(v_fn, u0, v_name, v_new, v_i, v_dir, v_e, v_clst, v_scl, v_btw, v_left, v_tok, v_got)
  BY ONLY <1>0, r0 = [call EXCEPT !.pc = u0] DEF CallRec
<1>b. r1 = CallRec(v_fn, u0, v_name, v_new, u1, v_dir, v_e, v_clst, v_scl, v_btw, v_left, v_tok, v_got)
  BY ONLY <1>a, r1 = [r0 EXCEPT !.i = u1] DEF CallRec
<1>c. r2 = CallRec(v_fn, u0, v_name, v_new, u1, u2, v_e, v_clst, v_scl, v_btw, v_left, v_tok, v_got)
  BY ONLY <1>b, r2 = [r1 EXCEPT !.dir = u2] DEF CallRec
<1>d. r3 = CallRec(v_fn, u0, v_name, v_new, u1, u2, u3, v_clst, v_scl, v_btw, v_left, v_tok, v_got)
  BY ONLY <1>c, r3 = [r2 EXCEPT !.e = u3] DEF CallRec
<1>2. call' = CallRec(v_fn, u0, v_name, v_new, u1, u2, u3, v_clst, v_scl, v_btw, v_left, v_tok, v_got)  BY <1>1, <1>d
<1>3. /\ call'.fn = v_fn /\ call'.pc = u0 /\ call'.name = v_name /\ call'.new = v_new
      /\ call'.i = u1 /\ call'.dir = u2 /\ call'.e = u3 /\ call'.clst = v_clst
      /\ call'.scl = v_scl /\ call'.btw = v_btw /\ call'.left = v_left /\ call'.tok = v_tok
      /\ call'.got = v_got
  BY ONLY <1>2 DEF CallRec
<1>4. IsCall'  BY ONLY <1>2, <1>3 DEF IsCall
<1> QED  BY <1>3, <1>4

(* create_chain searches from x on.                                        *)
CallSearch(x) == [call EXCEPT !.pc = "search", !.scl = x, !.clst = x]
(* The call in search of a free cluster.                                   *)
LEMMA CallSearchFields ==
    ASSUME IsCall, NEW x,
           call' = CallSearch(x)
    PROVE  /\ IsCall'
           /\ call'.fn = call.fn /\ call'.pc = "search" /\ call'.name = call.name
           /\ call'.new = call.new /\ call'.i = call.i /\ call'.dir = call.dir
           /\ call'.e = call.e /\ call'.clst = x /\ call'.scl = x /\ call'.btw = call.btw
           /\ call'.left = call.left /\ call'.tok = call.tok /\ call'.got = call.got
<1> PICK v_fn : v_fn = call.fn  OBVIOUS
<1> PICK v_pc : v_pc = call.pc  OBVIOUS
<1> PICK v_name : v_name = call.name  OBVIOUS
<1> PICK v_new : v_new = call.new  OBVIOUS
<1> PICK v_i : v_i = call.i  OBVIOUS
<1> PICK v_dir : v_dir = call.dir  OBVIOUS
<1> PICK v_e : v_e = call.e  OBVIOUS
<1> PICK v_clst : v_clst = call.clst  OBVIOUS
<1> PICK v_scl : v_scl = call.scl  OBVIOUS
<1> PICK v_btw : v_btw = call.btw  OBVIOUS
<1> PICK v_left : v_left = call.left  OBVIOUS
<1> PICK v_tok : v_tok = call.tok  OBVIOUS
<1> PICK v_got : v_got = call.got  OBVIOUS
<1>0. call = CallRec(v_fn, v_pc, v_name, v_new, v_i, v_dir, v_e, v_clst, v_scl, v_btw, v_left, v_tok, v_got)
  BY DEF IsCall
<1> PICK u0 : u0 = "search"  OBVIOUS
<1> PICK u1 : u1 = x  OBVIOUS
<1> PICK u2 : u2 = x  OBVIOUS
<1> PICK r0 : r0 = [call EXCEPT !.pc = u0]  OBVIOUS
<1> PICK r1 : r1 = [r0 EXCEPT !.scl = u1]  OBVIOUS
<1> PICK r2 : r2 = [r1 EXCEPT !.clst = u2]  OBVIOUS
<1>1. call' = r2  BY DEF CallSearch
<1>a. r0 = CallRec(v_fn, u0, v_name, v_new, v_i, v_dir, v_e, v_clst, v_scl, v_btw, v_left, v_tok, v_got)
  BY ONLY <1>0, r0 = [call EXCEPT !.pc = u0] DEF CallRec
<1>b. r1 = CallRec(v_fn, u0, v_name, v_new, v_i, v_dir, v_e, v_clst, u1, v_btw, v_left, v_tok, v_got)
  BY ONLY <1>a, r1 = [r0 EXCEPT !.scl = u1] DEF CallRec
<1>c. r2 = CallRec(v_fn, u0, v_name, v_new, v_i, v_dir, v_e, u2, u1, v_btw, v_left, v_tok, v_got)
  BY ONLY <1>b, r2 = [r1 EXCEPT !.clst = u2] DEF CallRec
<1>2. call' = CallRec(v_fn, u0, v_name, v_new, v_i, v_dir, v_e, u2, u1, v_btw, v_left, v_tok, v_got)  BY <1>1, <1>c
<1>3. /\ call'.fn = v_fn /\ call'.pc = u0 /\ call'.name = v_name /\ call'.new = v_new
      /\ call'.i = v_i /\ call'.dir = v_dir /\ call'.e = v_e /\ call'.clst = u2
      /\ call'.scl = u1 /\ call'.btw = v_btw /\ call'.left = v_left /\ call'.tok = v_tok
      /\ call'.got = v_got
  BY ONLY <1>2 DEF CallRec
<1>4. IsCall'  BY ONLY <1>2, <1>3 DEF IsCall
<1> QED  BY <1>3, <1>4

(* f_open emptied the entry x and frees its chain from y on.               *)
CallFree(x, y) == [call EXCEPT !.pc = "free", !.dir = call.i, !.e = x, !.clst = y]
(* The call about to free a chain.                                         *)
LEMMA CallFreeFields ==
    ASSUME IsCall, NEW x, NEW y,
           call' = CallFree(x, y)
    PROVE  /\ IsCall'
           /\ call'.fn = call.fn /\ call'.pc = "free" /\ call'.name = call.name
           /\ call'.new = call.new /\ call'.i = call.i /\ call'.dir = call.i /\ call'.e = x
           /\ call'.clst = y /\ call'.scl = call.scl /\ call'.btw = call.btw
           /\ call'.left = call.left /\ call'.tok = call.tok /\ call'.got = call.got
<1> PICK v_fn : v_fn = call.fn  OBVIOUS
<1> PICK v_pc : v_pc = call.pc  OBVIOUS
<1> PICK v_name : v_name = call.name  OBVIOUS
<1> PICK v_new : v_new = call.new  OBVIOUS
<1> PICK v_i : v_i = call.i  OBVIOUS
<1> PICK v_dir : v_dir = call.dir  OBVIOUS
<1> PICK v_e : v_e = call.e  OBVIOUS
<1> PICK v_clst : v_clst = call.clst  OBVIOUS
<1> PICK v_scl : v_scl = call.scl  OBVIOUS
<1> PICK v_btw : v_btw = call.btw  OBVIOUS
<1> PICK v_left : v_left = call.left  OBVIOUS
<1> PICK v_tok : v_tok = call.tok  OBVIOUS
<1> PICK v_got : v_got = call.got  OBVIOUS
<1>0. call = CallRec(v_fn, v_pc, v_name, v_new, v_i, v_dir, v_e, v_clst, v_scl, v_btw, v_left, v_tok, v_got)
  BY DEF IsCall
<1> PICK u0 : u0 = "free"  OBVIOUS
<1> PICK u1 : u1 = call.i  OBVIOUS
<1> PICK u2 : u2 = x  OBVIOUS
<1> PICK u3 : u3 = y  OBVIOUS
<1> PICK r0 : r0 = [call EXCEPT !.pc = u0]  OBVIOUS
<1> PICK r1 : r1 = [r0 EXCEPT !.dir = u1]  OBVIOUS
<1> PICK r2 : r2 = [r1 EXCEPT !.e = u2]  OBVIOUS
<1> PICK r3 : r3 = [r2 EXCEPT !.clst = u3]  OBVIOUS
<1>1. call' = r3  BY DEF CallFree
<1>a. r0 = CallRec(v_fn, u0, v_name, v_new, v_i, v_dir, v_e, v_clst, v_scl, v_btw, v_left, v_tok, v_got)
  BY ONLY <1>0, r0 = [call EXCEPT !.pc = u0] DEF CallRec
<1>b. r1 = CallRec(v_fn, u0, v_name, v_new, v_i, u1, v_e, v_clst, v_scl, v_btw, v_left, v_tok, v_got)
  BY ONLY <1>a, r1 = [r0 EXCEPT !.dir = u1] DEF CallRec
<1>c. r2 = CallRec(v_fn, u0, v_name, v_new, v_i, u1, u2, v_clst, v_scl, v_btw, v_left, v_tok, v_got)
  BY ONLY <1>b, r2 = [r1 EXCEPT !.e = u2] DEF CallRec
<1>d. r3 = CallRec(v_fn, u0, v_name, v_new, v_i, u1, u2, u3, v_scl, v_btw, v_left, v_tok, v_got)
  BY ONLY <1>c, r3 = [r2 EXCEPT !.clst = u3] DEF CallRec
<1>2. call' = CallRec(v_fn, u0, v_name, v_new, v_i, u1, u2, u3, v_scl, v_btw, v_left, v_tok, v_got)  BY <1>1, <1>d
<1>3. /\ call'.fn = v_fn /\ call'.pc = u0 /\ call'.name = v_name /\ call'.new = v_new
      /\ call'.i = v_i /\ call'.dir = u1 /\ call'.e = u2 /\ call'.clst = u3
      /\ call'.scl = v_scl /\ call'.btw = v_btw /\ call'.left = v_left /\ call'.tok = v_tok
      /\ call'.got = v_got
  BY ONLY <1>2 DEF CallRec
<1>4. IsCall'  BY ONLY <1>2, <1>3 DEF IsCall
<1> QED  BY <1>3, <1>4

(* The file object is no longer used.                                      *)
FpErr(x) == [fp EXCEPT !.err = x]
(* The file object with an error.                                          *)
LEMMA FpErrFields ==
    ASSUME IsFp, NEW x,
           fp' = FpErr(x)
    PROVE  /\ IsFp'
           /\ fp'.name = fp.name /\ fp'.write = fp.write /\ fp'.slot = fp.slot
           /\ fp'.sclust = fp.sclust /\ fp'.objsize = fp.objsize /\ fp'.fptr = fp.fptr
           /\ fp'.clust = fp.clust /\ fp'.sect = fp.sect /\ fp'.buf = fp.buf
           /\ fp'.dirty = fp.dirty /\ fp'.err = x /\ fp'.bytes = fp.bytes
<1> PICK v_name : v_name = fp.name  OBVIOUS
<1> PICK v_write : v_write = fp.write  OBVIOUS
<1> PICK v_slot : v_slot = fp.slot  OBVIOUS
<1> PICK v_sclust : v_sclust = fp.sclust  OBVIOUS
<1> PICK v_objsize : v_objsize = fp.objsize  OBVIOUS
<1> PICK v_fptr : v_fptr = fp.fptr  OBVIOUS
<1> PICK v_clust : v_clust = fp.clust  OBVIOUS
<1> PICK v_sect : v_sect = fp.sect  OBVIOUS
<1> PICK v_buf : v_buf = fp.buf  OBVIOUS
<1> PICK v_dirty : v_dirty = fp.dirty  OBVIOUS
<1> PICK v_err : v_err = fp.err  OBVIOUS
<1> PICK v_bytes : v_bytes = fp.bytes  OBVIOUS
<1>0. fp = FpRec(v_name, v_write, v_slot, v_sclust, v_objsize, v_fptr, v_clust, v_sect, v_buf, v_dirty, v_err, v_bytes)
  BY DEF IsFp
<1> PICK u0 : u0 = x  OBVIOUS
<1> PICK r0 : r0 = [fp EXCEPT !.err = u0]  OBVIOUS
<1>1. fp' = r0  BY DEF FpErr
<1>a. r0 = FpRec(v_name, v_write, v_slot, v_sclust, v_objsize, v_fptr, v_clust, v_sect, v_buf, v_dirty, u0, v_bytes)
  BY ONLY <1>0, r0 = [fp EXCEPT !.err = u0] DEF FpRec
<1>2. fp' = FpRec(v_name, v_write, v_slot, v_sclust, v_objsize, v_fptr, v_clust, v_sect, v_buf, v_dirty, u0, v_bytes)  BY <1>1, <1>a
<1>3. /\ fp'.name = v_name /\ fp'.write = v_write /\ fp'.slot = v_slot
      /\ fp'.sclust = v_sclust /\ fp'.objsize = v_objsize /\ fp'.fptr = v_fptr
      /\ fp'.clust = v_clust /\ fp'.sect = v_sect /\ fp'.buf = v_buf /\ fp'.dirty = v_dirty
      /\ fp'.err = u0 /\ fp'.bytes = v_bytes
  BY ONLY <1>2 DEF FpRec
<1>4. IsFp'  BY ONLY <1>2, <1>3 DEF IsFp
<1> QED  BY <1>3, <1>4

(* The buffer is written.                                                  *)
FpClean(x) == [fp EXCEPT !.dirty = x]
(* The file object with a clean buffer.                                    *)
LEMMA FpCleanFields ==
    ASSUME IsFp, NEW x,
           fp' = FpClean(x)
    PROVE  /\ IsFp'
           /\ fp'.name = fp.name /\ fp'.write = fp.write /\ fp'.slot = fp.slot
           /\ fp'.sclust = fp.sclust /\ fp'.objsize = fp.objsize /\ fp'.fptr = fp.fptr
           /\ fp'.clust = fp.clust /\ fp'.sect = fp.sect /\ fp'.buf = fp.buf /\ fp'.dirty = x
           /\ fp'.err = fp.err /\ fp'.bytes = fp.bytes
<1> PICK v_name : v_name = fp.name  OBVIOUS
<1> PICK v_write : v_write = fp.write  OBVIOUS
<1> PICK v_slot : v_slot = fp.slot  OBVIOUS
<1> PICK v_sclust : v_sclust = fp.sclust  OBVIOUS
<1> PICK v_objsize : v_objsize = fp.objsize  OBVIOUS
<1> PICK v_fptr : v_fptr = fp.fptr  OBVIOUS
<1> PICK v_clust : v_clust = fp.clust  OBVIOUS
<1> PICK v_sect : v_sect = fp.sect  OBVIOUS
<1> PICK v_buf : v_buf = fp.buf  OBVIOUS
<1> PICK v_dirty : v_dirty = fp.dirty  OBVIOUS
<1> PICK v_err : v_err = fp.err  OBVIOUS
<1> PICK v_bytes : v_bytes = fp.bytes  OBVIOUS
<1>0. fp = FpRec(v_name, v_write, v_slot, v_sclust, v_objsize, v_fptr, v_clust, v_sect, v_buf, v_dirty, v_err, v_bytes)
  BY DEF IsFp
<1> PICK u0 : u0 = x  OBVIOUS
<1> PICK r0 : r0 = [fp EXCEPT !.dirty = u0]  OBVIOUS
<1>1. fp' = r0  BY DEF FpClean
<1>a. r0 = FpRec(v_name, v_write, v_slot, v_sclust, v_objsize, v_fptr, v_clust, v_sect, v_buf, u0, v_err, v_bytes)
  BY ONLY <1>0, r0 = [fp EXCEPT !.dirty = u0] DEF FpRec
<1>2. fp' = FpRec(v_name, v_write, v_slot, v_sclust, v_objsize, v_fptr, v_clust, v_sect, v_buf, u0, v_err, v_bytes)  BY <1>1, <1>a
<1>3. /\ fp'.name = v_name /\ fp'.write = v_write /\ fp'.slot = v_slot
      /\ fp'.sclust = v_sclust /\ fp'.objsize = v_objsize /\ fp'.fptr = v_fptr
      /\ fp'.clust = v_clust /\ fp'.sect = v_sect /\ fp'.buf = v_buf /\ fp'.dirty = u0
      /\ fp'.err = v_err /\ fp'.bytes = v_bytes
  BY ONLY <1>2 DEF FpRec
<1>4. IsFp'  BY ONLY <1>2, <1>3 DEF IsFp
<1> QED  BY <1>3, <1>4

(* The file is at cluster x.                                               *)
(* The file has claimed cluster x, y is its first.                         *)
FpClaim(x, y) == [fp EXCEPT !.clust = x, !.sclust = y]
(* The file object with a claimed cluster.                                 *)
LEMMA FpClaimFields ==
    ASSUME IsFp, NEW x, NEW y,
           fp' = FpClaim(x, y)
    PROVE  /\ IsFp'
           /\ fp'.name = fp.name /\ fp'.write = fp.write /\ fp'.slot = fp.slot /\ fp'.sclust = y
           /\ fp'.objsize = fp.objsize /\ fp'.fptr = fp.fptr /\ fp'.clust = x
           /\ fp'.sect = fp.sect /\ fp'.buf = fp.buf /\ fp'.dirty = fp.dirty /\ fp'.err = fp.err
           /\ fp'.bytes = fp.bytes
<1> PICK v_name : v_name = fp.name  OBVIOUS
<1> PICK v_write : v_write = fp.write  OBVIOUS
<1> PICK v_slot : v_slot = fp.slot  OBVIOUS
<1> PICK v_sclust : v_sclust = fp.sclust  OBVIOUS
<1> PICK v_objsize : v_objsize = fp.objsize  OBVIOUS
<1> PICK v_fptr : v_fptr = fp.fptr  OBVIOUS
<1> PICK v_clust : v_clust = fp.clust  OBVIOUS
<1> PICK v_sect : v_sect = fp.sect  OBVIOUS
<1> PICK v_buf : v_buf = fp.buf  OBVIOUS
<1> PICK v_dirty : v_dirty = fp.dirty  OBVIOUS
<1> PICK v_err : v_err = fp.err  OBVIOUS
<1> PICK v_bytes : v_bytes = fp.bytes  OBVIOUS
<1>0. fp = FpRec(v_name, v_write, v_slot, v_sclust, v_objsize, v_fptr, v_clust, v_sect, v_buf, v_dirty, v_err, v_bytes)
  BY DEF IsFp
<1> PICK u0 : u0 = x  OBVIOUS
<1> PICK u1 : u1 = y  OBVIOUS
<1> PICK r0 : r0 = [fp EXCEPT !.clust = u0]  OBVIOUS
<1> PICK r1 : r1 = [r0 EXCEPT !.sclust = u1]  OBVIOUS
<1>1. fp' = r1  BY DEF FpClaim
<1>a. r0 = FpRec(v_name, v_write, v_slot, v_sclust, v_objsize, v_fptr, u0, v_sect, v_buf, v_dirty, v_err, v_bytes)
  BY ONLY <1>0, r0 = [fp EXCEPT !.clust = u0] DEF FpRec
<1>b. r1 = FpRec(v_name, v_write, v_slot, u1, v_objsize, v_fptr, u0, v_sect, v_buf, v_dirty, v_err, v_bytes)
  BY ONLY <1>a, r1 = [r0 EXCEPT !.sclust = u1] DEF FpRec
<1>2. fp' = FpRec(v_name, v_write, v_slot, u1, v_objsize, v_fptr, u0, v_sect, v_buf, v_dirty, v_err, v_bytes)  BY <1>1, <1>b
<1>3. /\ fp'.name = v_name /\ fp'.write = v_write /\ fp'.slot = v_slot /\ fp'.sclust = u1
      /\ fp'.objsize = v_objsize /\ fp'.fptr = v_fptr /\ fp'.clust = u0
      /\ fp'.sect = v_sect /\ fp'.buf = v_buf /\ fp'.dirty = v_dirty /\ fp'.err = v_err
      /\ fp'.bytes = v_bytes
  BY ONLY <1>2 DEF FpRec
<1>4. IsFp'  BY ONLY <1>2, <1>3 DEF IsFp
<1> QED  BY <1>3, <1>4

(* f_read has read up to y, in cluster x.                                  *)
FpNext(x, y) == [fp EXCEPT !.clust = x, !.fptr = y]
(* The file object further on in its chain.                                *)
LEMMA FpNextFields ==
    ASSUME IsFp, NEW x, NEW y,
           fp' = FpNext(x, y)
    PROVE  /\ IsFp'
           /\ fp'.name = fp.name /\ fp'.write = fp.write /\ fp'.slot = fp.slot
           /\ fp'.sclust = fp.sclust /\ fp'.objsize = fp.objsize /\ fp'.fptr = y
           /\ fp'.clust = x /\ fp'.sect = fp.sect /\ fp'.buf = fp.buf /\ fp'.dirty = fp.dirty
           /\ fp'.err = fp.err /\ fp'.bytes = fp.bytes
<1> PICK v_name : v_name = fp.name  OBVIOUS
<1> PICK v_write : v_write = fp.write  OBVIOUS
<1> PICK v_slot : v_slot = fp.slot  OBVIOUS
<1> PICK v_sclust : v_sclust = fp.sclust  OBVIOUS
<1> PICK v_objsize : v_objsize = fp.objsize  OBVIOUS
<1> PICK v_fptr : v_fptr = fp.fptr  OBVIOUS
<1> PICK v_clust : v_clust = fp.clust  OBVIOUS
<1> PICK v_sect : v_sect = fp.sect  OBVIOUS
<1> PICK v_buf : v_buf = fp.buf  OBVIOUS
<1> PICK v_dirty : v_dirty = fp.dirty  OBVIOUS
<1> PICK v_err : v_err = fp.err  OBVIOUS
<1> PICK v_bytes : v_bytes = fp.bytes  OBVIOUS
<1>0. fp = FpRec(v_name, v_write, v_slot, v_sclust, v_objsize, v_fptr, v_clust, v_sect, v_buf, v_dirty, v_err, v_bytes)
  BY DEF IsFp
<1> PICK u0 : u0 = x  OBVIOUS
<1> PICK u1 : u1 = y  OBVIOUS
<1> PICK r0 : r0 = [fp EXCEPT !.clust = u0]  OBVIOUS
<1> PICK r1 : r1 = [r0 EXCEPT !.fptr = u1]  OBVIOUS
<1>1. fp' = r1  BY DEF FpNext
<1>a. r0 = FpRec(v_name, v_write, v_slot, v_sclust, v_objsize, v_fptr, u0, v_sect, v_buf, v_dirty, v_err, v_bytes)
  BY ONLY <1>0, r0 = [fp EXCEPT !.clust = u0] DEF FpRec
<1>b. r1 = FpRec(v_name, v_write, v_slot, v_sclust, v_objsize, u1, u0, v_sect, v_buf, v_dirty, v_err, v_bytes)
  BY ONLY <1>a, r1 = [r0 EXCEPT !.fptr = u1] DEF FpRec
<1>2. fp' = FpRec(v_name, v_write, v_slot, v_sclust, v_objsize, u1, u0, v_sect, v_buf, v_dirty, v_err, v_bytes)  BY <1>1, <1>b
<1>3. /\ fp'.name = v_name /\ fp'.write = v_write /\ fp'.slot = v_slot
      /\ fp'.sclust = v_sclust /\ fp'.objsize = v_objsize /\ fp'.fptr = u1
      /\ fp'.clust = u0 /\ fp'.sect = v_sect /\ fp'.buf = v_buf /\ fp'.dirty = v_dirty
      /\ fp'.err = v_err /\ fp'.bytes = v_bytes
  BY ONLY <1>2 DEF FpRec
<1>4. IsFp'  BY ONLY <1>2, <1>3 DEF IsFp
<1> QED  BY <1>3, <1>4

(* f_write has written up to x.                                            *)
FpWrote(x, y, z) == [fp EXCEPT !.fptr = x, !.objsize = y, !.bytes = z]
(* The file object after bytes written.                                    *)
LEMMA FpWroteFields ==
    ASSUME IsFp, NEW x, NEW y, NEW z,
           fp' = FpWrote(x, y, z)
    PROVE  /\ IsFp'
           /\ fp'.name = fp.name /\ fp'.write = fp.write /\ fp'.slot = fp.slot
           /\ fp'.sclust = fp.sclust /\ fp'.objsize = y /\ fp'.fptr = x /\ fp'.clust = fp.clust
           /\ fp'.sect = fp.sect /\ fp'.buf = fp.buf /\ fp'.dirty = fp.dirty /\ fp'.err = fp.err
           /\ fp'.bytes = z
<1> PICK v_name : v_name = fp.name  OBVIOUS
<1> PICK v_write : v_write = fp.write  OBVIOUS
<1> PICK v_slot : v_slot = fp.slot  OBVIOUS
<1> PICK v_sclust : v_sclust = fp.sclust  OBVIOUS
<1> PICK v_objsize : v_objsize = fp.objsize  OBVIOUS
<1> PICK v_fptr : v_fptr = fp.fptr  OBVIOUS
<1> PICK v_clust : v_clust = fp.clust  OBVIOUS
<1> PICK v_sect : v_sect = fp.sect  OBVIOUS
<1> PICK v_buf : v_buf = fp.buf  OBVIOUS
<1> PICK v_dirty : v_dirty = fp.dirty  OBVIOUS
<1> PICK v_err : v_err = fp.err  OBVIOUS
<1> PICK v_bytes : v_bytes = fp.bytes  OBVIOUS
<1>0. fp = FpRec(v_name, v_write, v_slot, v_sclust, v_objsize, v_fptr, v_clust, v_sect, v_buf, v_dirty, v_err, v_bytes)
  BY DEF IsFp
<1> PICK u0 : u0 = x  OBVIOUS
<1> PICK u1 : u1 = y  OBVIOUS
<1> PICK u2 : u2 = z  OBVIOUS
<1> PICK r0 : r0 = [fp EXCEPT !.fptr = u0]  OBVIOUS
<1> PICK r1 : r1 = [r0 EXCEPT !.objsize = u1]  OBVIOUS
<1> PICK r2 : r2 = [r1 EXCEPT !.bytes = u2]  OBVIOUS
<1>1. fp' = r2  BY DEF FpWrote
<1>a. r0 = FpRec(v_name, v_write, v_slot, v_sclust, v_objsize, u0, v_clust, v_sect, v_buf, v_dirty, v_err, v_bytes)
  BY ONLY <1>0, r0 = [fp EXCEPT !.fptr = u0] DEF FpRec
<1>b. r1 = FpRec(v_name, v_write, v_slot, v_sclust, u1, u0, v_clust, v_sect, v_buf, v_dirty, v_err, v_bytes)
  BY ONLY <1>a, r1 = [r0 EXCEPT !.objsize = u1] DEF FpRec
<1>c. r2 = FpRec(v_name, v_write, v_slot, v_sclust, u1, u0, v_clust, v_sect, v_buf, v_dirty, v_err, u2)
  BY ONLY <1>b, r2 = [r1 EXCEPT !.bytes = u2] DEF FpRec
<1>2. fp' = FpRec(v_name, v_write, v_slot, v_sclust, u1, u0, v_clust, v_sect, v_buf, v_dirty, v_err, u2)  BY <1>1, <1>c
<1>3. /\ fp'.name = v_name /\ fp'.write = v_write /\ fp'.slot = v_slot
      /\ fp'.sclust = v_sclust /\ fp'.objsize = u1 /\ fp'.fptr = u0 /\ fp'.clust = v_clust
      /\ fp'.sect = v_sect /\ fp'.buf = v_buf /\ fp'.dirty = v_dirty /\ fp'.err = v_err
      /\ fp'.bytes = u2
  BY ONLY <1>2 DEF FpRec
<1>4. IsFp'  BY ONLY <1>2, <1>3 DEF IsFp
<1> QED  BY <1>3, <1>4

(* f_write has put bytes into the buffer.                                  *)
(* The buffer is for sector x.                                             *)
FatInd == FsSound /\ FatIInv

(* The card and the driver's view of it are images.                        *)
LEMMA ImgsNow ==
    ASSUME FsSound
    PROVE  CardImg \in Imgs /\ ViewImg \in Imgs
<1> PICK m : m = Start(NoFault)  OBVIOUS
<1>1. NoFault \in Faults  BY DEF Faults
<1>2. SoundRec(m) /\ OffOf(m) = FALSE /\ Card(m) = CardImg /\ Seen(m) = ViewImg
  BY <1>1, StartSound
<1> QED  BY <1>2, SeenType

(* What FsSound says of the window.                                        *)
LEMMA WindowIs == FsSound => WindowCoherent
<1> SUFFICES ASSUME FsSound PROVE WindowCoherent  OBVIOUS
<1> PICK m : m = Start(NoFault)  OBVIOUS
<1>1. NoFault \in Faults  BY DEF Faults
<1>2. DiskOf(m) = disk /\ SectOf(m) = fs.winsect /\ WinOf(m) = fs.win /\ FlagOf(m) = fs.wflag
  BY <1>1, StartSound
<1>3. WindowSound(m)  BY DEF FsSound
<1>4. /\ fs.winsect \in Sectors \cup {NoSector}
      /\ fs.wflag \in BOOLEAN
      /\ fs.wflag => fs.winsect \in Windowed
      /\ ~fs.wflag /\ fs.winsect \in Windowed => fs.win = disk[fs.winsect]
  BY <1>2, <1>3 DEF WindowSound
<1> QED  BY <1>4 DEF WindowCoherent, Windowed

(* The same after a step.                                                  *)
LEMMA WindowIsNext == FsSound' => WindowCoherent'
BY WindowIs, PTL

(* A step went well or a fault struck.                                     *)
Struck(f, m) == FuseOf(Start(f)) = -1 /\ ~OffOf(m) => ResOf(m) = "OK"
Honest(W, mayof, mov) == \A w \in W : Good(w, mayof, mov)

(* What every step leaves.                                                 *)
LEMMA StepBase ==
    ASSUME FatInd, NEW f \in Faults, NEW m, NEW W, Passes(Start(f), m, W), Step(m, f), Struck(f, m),
           Honest(W, may', moving'), Good(CardImg, may', moving'), MayType', RepliesHonest', IsCall'
    PROVE  /\ FsSound' /\ Base'
           /\ Goes(m) => /\ ViewImg' = Seen(m) /\ ViewImg' \in W
                         /\ fs'.mounted = fs.mounted
                         /\ fs'.wflag = FlagOf(m) /\ fs'.winsect = SectOf(m)
                         /\ fs'.last_clst = HintOf(m)
           /\ ~Goes(m) => faults' # 0
           /\ OffOf(m) => fs' = NoFs /\ ViewImg' = CardImg'
           /\ ~OffOf(m) => fs'.mounted = fs.mounted /\ ViewImg' = Seen(m) /\ ViewImg' \in W
           /\ CardImg' = Card(m) /\ CardImg' \in {CardImg} \cup W
           /\ faults' = 0 => faults = 0
<1>1. FsSound  BY DEF FatInd
<1>2. /\ FsSound'
      /\ CardImg' = Card(m) /\ CardImg' \in {CardImg} \cup W
      /\ OffOf(m) \in BOOLEAN
      /\ OffOf(m) => fs' = NoFs /\ ViewImg' = CardImg'
      /\ ~OffOf(m) => /\ ViewImg' = Seen(m) /\ ViewImg' \in W
                      /\ fs'.mounted = fs.mounted
                      /\ fs'.winsect = SectOf(m) /\ fs'.wflag = FlagOf(m)
                      /\ fs'.last_clst = HintOf(m)
      /\ faults' = 0 => /\ faults = 0 /\ OffOf(m) = FALSE /\ FuseOf(Start(f)) = -1
                        /\ Mirrored(disk) => Mirrored(disk')
  BY ONLY <1>1, f \in Faults, Passes(Start(f), m, W), Step(m, f), StepSound
<1>3. Goes(m) <=> ResOf(m) = "OK" /\ ~OffOf(m)  BY DEF Goes, ResOf, OffOf
<1>4. ~Goes(m) => faults' # 0  BY <1>2, <1>3 DEF Struck
<1>5. Good(CardImg', may', moving')  BY <1>2 DEF Honest
<1>6. Good(ViewImg', may', moving')  BY <1>2, <1>5 DEF Honest
<1>7. WindowCoherent'  BY <1>2, WindowIsNext
<1>8. faults = 0 => Mirrored(disk)  BY DEF FatInd, FatIInv, Base, Mirrored
<1>9. faults' = 0 => Mirrored(disk')  BY <1>2, <1>8
<1>10. faults' = 0 => \A s \in FatSectors : disk'[s] = disk'[Mirror(s)]  BY <1>9 DEF Mirrored
<1>11. Base'  BY <1>5, <1>6, <1>7, <1>10 DEF Base
<1> QED  BY <1>2, <1>3, <1>4, <1>11

(* A look at a slot.                                                       *)
LEMMA LookedAt ==
    ASSUME FatInd, NEW f \in Faults, call.i \in 1 .. Slots, NEW m, m = Looked(f)
    PROVE  /\ Passes(Start(f), m, {ViewImg}) /\ Struck(f, m)
           /\ Goes(m) => WinOf(m)[call.i] = ViewImg.dir[call.i] /\ SectOf(m) = DirSector(call.i)
           /\ Goes(m) /\ ~fs.wflag => ~FlagOf(m)
           /\ Goes(m) => Seen(m) = ViewImg /\ SoundRec(m) /\ OffOf(m) = FALSE
<1> PICK s : s = Start(f)  OBVIOUS
<1> PICK i : i = call.i  OBVIOUS
<1>1. SoundRec(s) /\ OffOf(s) = FALSE /\ Seen(s) = ViewImg /\ FlagOf(s) = fs.wflag
  BY StartSound DEF FatInd
<1>2. DirSector(i) \in Windowed  BY SectorKinds DEF Windowed
<1>3. m = move_window(s, DirSector(i))  BY DEF Looked
<1>4. /\ Passes(s, m, {Seen(s)})
      /\ ~OffOf(m) /\ ResOf(m) = "OK" => SectOf(m) = DirSector(i)
      /\ FuseOf(s) = -1 => ResOf(m) = "OK"
      /\ ~OffOf(m) /\ ~FlagOf(s) => ~FlagOf(m)
  BY ONLY <1>1, <1>2, <1>3, MoveSound
<1>5. Goes(m) <=> ResOf(m) = "OK" /\ ~OffOf(m)  BY DEF Goes, ResOf, OffOf
<1>6. SoundRec(m) /\ OffOf(m) \in BOOLEAN  BY <1>4 DEF Passes, SoundRec, Shaped
<1>7. Goes(m) => Seen(m) = ViewImg /\ OffOf(m) = FALSE  BY <1>1, <1>4, <1>5, <1>6 DEF Passes
<1>8. Goes(m) => WinOf(m)[i] = Seen(m).dir[i]
  BY <1>4, <1>5, <1>6, <1>7, WindowShows
<1> QED  BY <1>1, <1>4, <1>5, <1>6, <1>7, <1>8 DEF Struck

(* Where the call is tells the phase.                                      *)
LEMMA PhaseAt ==
    ASSUME FatInd
    PROVE  /\ call.pc = "idle" => Rest \/ WriteOpen \/ ReadOpen
           /\ call.pc = "find" => Find
           /\ call.pc = "find_new" => FindNew
           /\ call.pc = "alloc" => Alloc
           /\ call.pc = "free" => FreePhase
           /\ call.pc = "back" => Back
           /\ call.pc = "move" => Move
           /\ call.pc = "sync" => SyncRename \/ SyncUnlink \/ SyncClose
           /\ call.pc = "round" => Round
           /\ call.pc = "follow" => Following
           /\ call.pc = "next" => Trying
           /\ call.pc = "search" => Search
           /\ call.pc = "claim" => Claiming
           /\ call.pc = "flush" => Flushing \/ FlushLast
           /\ call.pc = "store" => Storing
           /\ call.pc = "entry" => EntryPhase
           /\ call.pc = "read" => Read
<1>1. Phases  BY DEF FatInd, FatIInv
<1>2. NoCall.pc = "idle"  BY DEF NoCall
<1>3. /\ Rest => call.pc = "idle"
      /\ WriteOpen => call.pc = "idle"
      /\ ReadOpen => call.pc = "idle"
  BY <1>2 DEF Rest, WriteOpen, ReadOpen
<1>4. /\ Find => call.pc = "find"
      /\ FindNew => call.pc = "find_new"
      /\ Alloc => call.pc = "alloc"
      /\ FreePhase => call.pc = "free"
      /\ Back => call.pc = "back"
      /\ Move => call.pc = "move"
      /\ SyncRename => call.pc = "sync"
      /\ SyncUnlink => call.pc = "sync"
      /\ SyncClose => call.pc = "sync"
  BY DEF Find, FindNew, Alloc, FreePhase, Back, Move, SyncRename, SyncUnlink, SyncClose
<1>5. /\ Round => call.pc = "round"
      /\ Following => call.pc = "follow"
      /\ Trying => call.pc = "next"
      /\ Search => call.pc = "search"
      /\ Claiming => call.pc = "claim"
      /\ Flushing => call.pc = "flush"
      /\ FlushLast => call.pc = "flush"
      /\ Storing => call.pc = "store"
      /\ EntryPhase => call.pc = "entry"
      /\ Read => call.pc = "read"
  BY DEF Round, Following, Trying, Search, Claiming, Flushing, FlushLast, Storing, EntryPhase, Read
<1> QED  BY ONLY <1>1, <1>3, <1>4, <1>5 DEF Phases

(* The call is over.                                                       *)
LEMMA NoCallIs ==
    ASSUME call' = NoCall
    PROVE  /\ IsCall' /\ call'.pc = "idle" /\ call'.fn = "none"
<1>1. call' = CallRec("none", "idle", NoName, NoName, 0, 0, Never, 0, 0, 0, 0, 0, <<>>)
  BY DEF NoCall, CallRec
<1>2. /\ call'.fn = "none" /\ call'.pc = "idle" /\ call'.name = NoName /\ call'.new = NoName
      /\ call'.i = 0 /\ call'.dir = 0 /\ call'.e = Never /\ call'.clst = 0 /\ call'.scl = 0
      /\ call'.btw = 0 /\ call'.left = 0 /\ call'.tok = 0 /\ call'.got = <<>>
  BY ONLY <1>1 DEF CallRec
<1> QED  BY ONLY <1>1, <1>2 DEF IsCall

(* The same after a step.                                                  *)
LEMMA NoReplyNext == reply' = NoReply => RepliesHonest'
BY DEF NoReply, RepliesHonest

(* A call other than f_write and f_read ends on a fault.                   *)
LEMMA CutRest ==
    ASSUME FatInd, Calling, Closed \/ call.fn = "f_close", call.fn \notin {"f_write", "f_read"},
           NEW f \in Faults, NEW m, NEW W, Passes(Start(f), m, W), Step(m, f), Struck(f, m),
           Honest(W, may, moving), Cut(m)
    PROVE  FatInd'
<1>1. /\ ~Goes(m) /\ call' = NoCall /\ may' = may /\ reply' = reply /\ moving' = moving
  BY DEF Cut
<1>2. fp' = NoFp
  <2>1. fp' = CASE m.off \/ call.fn = "f_close" -> NoFp
               [] ~m.off /\ call.fn \in {"f_write", "f_read"} -> [fp EXCEPT !.err = m.res]
               [] OTHER -> fp
    BY DEF Cut
  <2>2. CASE call.fn = "f_close"  BY <2>1, <2>2
  <2>3. CASE m.off /\ call.fn # "f_close"  BY <2>1, <2>3
  <2>4. CASE ~m.off /\ call.fn # "f_close"
    <3>1. fp' = fp  BY <2>1, <2>4
    <3> QED  BY <2>4, <3>1 DEF Closed
  <2> QED  BY <2>2, <2>3, <2>4
<1>3. reply' = NoReply /\ MayType /\ fs.mounted  BY <1>1 DEF Calling, FatInd, FatIInv, Base
<1>4. MayType'  BY <1>1, <1>3 DEF MayType
<1>5. IsCall'  BY <1>1, NoCallIs
<1>6. RepliesHonest'  BY <1>3, NoReplyNext
<1>7. Honest(W, may', moving') /\ Good(CardImg, may', moving')
  BY <1>1 DEF FatInd, FatIInv, Base
<1>8. /\ FsSound' /\ Base'
      /\ ~Goes(m) => faults' # 0
      /\ OffOf(m) => fs' = NoFs
      /\ ~OffOf(m) => fs'.mounted = fs.mounted
  BY <1>4, <1>5, <1>6, <1>7, StepBase
<1>9. Rest'
  <2>1. ~fs'.mounted => fs' = NoFs  BY <1>3, <1>8
  <2>2. faults' # 0  BY <1>1, <1>8
  <2> QED  BY <1>1, <1>2, <2>1, <2>2 DEF Rest, Closed, Clean
<1> QED  BY <1>8, <1>9 DEF FatInd, FatIInv, Phases

(* A look that goes on changes nothing but the window.                     *)
LEMMA LookGoes ==
    ASSUME FatInd, Calling, Clean, moving = {}, call.i \in 1 .. Slots,
           NEW f \in Faults, NEW m, m = Looked(f), Step(m, f), Goes(m),
           IsCall', MayType', RepliesHonest', may' = may, moving' = moving
    PROVE  /\ FsSound' /\ Base' /\ ViewImg' = ViewImg /\ fs'.mounted /\ Clean'
           /\ WinOf(m)[call.i] = ViewImg.dir[call.i]
<1>1. /\ Passes(Start(f), m, {ViewImg}) /\ Struck(f, m)
      /\ WinOf(m)[call.i] = ViewImg.dir[call.i] /\ SectOf(m) = DirSector(call.i)
      /\ ~fs.wflag => ~FlagOf(m)
  BY ONLY FatInd, f \in Faults, call.i \in 1 .. Slots, m = Looked(f), Goes(m), LookedAt
<1>2. Honest({ViewImg}, may', moving') /\ Good(CardImg, may', moving')
  BY DEF Honest, FatInd, FatIInv, Base
<1>3. /\ FsSound' /\ Base'
      /\ ViewImg' \in {ViewImg}
      /\ fs'.mounted = fs.mounted
      /\ fs'.wflag = FlagOf(m)
      /\ faults' = 0 => faults = 0
  BY <1>1, <1>2, StepBase
<1>4. fs'.mounted  BY <1>3 DEF Calling
<1>5. Clean'  BY <1>1, <1>3 DEF Clean, Quiet
<1> QED  BY <1>1, <1>3, <1>4, <1>5

(* A look at a directory slot that is cut short ends the call and keeps    *)
(* the invariant.                                                          *)
LEMMA LookCut ==
    ASSUME FatInd, Calling, Closed, call.fn \in {"f_open_create", "f_open_read", "f_unlink", "f_rename"},
           call.i \in 1 .. Slots, NEW f \in Faults, NEW m, m = Looked(f), Step(m, f), Cut(m)
    PROVE  FatInd'
<1>1. Passes(Start(f), m, {ViewImg}) /\ Struck(f, m)
  BY ONLY FatInd, f \in Faults, call.i \in 1 .. Slots, m = Looked(f), LookedAt
<1>2. Honest({ViewImg}, may, moving)
  BY DEF Honest, FatInd, FatIInv, Base
<1>3. call.fn \notin {"f_write", "f_read"}  OBVIOUS
<1> QED  BY <1>1, <1>2, <1>3, CutRest

(* What the three scans have in common.                                    *)
LEMMA ScanFacts ==
    ASSUME FatInd, Scanning
    PROVE  /\ Calling /\ Clean /\ Closed /\ moving = {} /\ call.i \in 1 .. Slots
           /\ call.fn \in {"f_open_create", "f_open_read", "f_unlink", "f_rename"}
           /\ MayType /\ IsCall
           /\ call.pc \in {"find", "find_new", "alloc"}
<1>1. call.pc \in {"find", "find_new", "alloc"}  BY DEF Scanning
<1>2. MayType /\ IsCall  BY DEF FatInd, FatIInv, Base
<1>3. CASE call.pc = "find"  BY <1>1, <1>2, <1>3, PhaseAt DEF Find
<1>4. CASE call.pc = "find_new"  BY <1>1, <1>2, <1>4, PhaseAt DEF FindNew, Old
<1>5. CASE call.pc = "alloc"  BY <1>1, <1>2, <1>5, PhaseAt DEF Alloc, Old
<1> QED  BY <1>1, <1>3, <1>4, <1>5

(* What the entry looked at is.                                            *)
LEMMA HitIs ==
    ASSUME FatInd, Scanning, NEW m, Goes(m), NEW e, WinOf(m)[call.i] = e
    PROVE  /\ m.win[call.i] = e
           /\ call.pc = "find" => (Hit(m) <=> IsFile(e) /\ e.name = call.name)
           /\ call.pc = "find_new" => (Hit(m) <=> IsFile(e) /\ e.name = call.new)
           /\ call.pc = "alloc" => (Hit(m) <=> ~IsFile(e))
<1>1. m.win[call.i] = e  BY DEF WinOf
<1>2. Hit(m) <=> Matches(e, Wanted)  BY <1>1 DEF Hit
<1>3. CASE call.pc = "find"
  <2>1. Wanted = {call.name}  BY <1>3 DEF Wanted
  <2> QED  BY <1>1, <1>2, <1>3, <2>1 DEF Matches
<1>4. CASE call.pc = "find_new"
  <2>1. Wanted = {call.new}  BY <1>4 DEF Wanted
  <2> QED  BY <1>1, <1>2, <1>4, <2>1 DEF Matches
<1>5. CASE call.pc = "alloc"
  <2>1. Wanted = {}  BY <1>5 DEF Wanted
  <2> QED  BY <1>1, <1>2, <1>5, <2>1 DEF Matches
<1> QED  BY <1>3, <1>4, <1>5 DEF Scanning

(* One slot further on in the search for a file.                           *)
LEMMA ScannedMore ==
    ASSUME NEW n, Scanned(n), ViewImg' = ViewImg, call.i \in 1 .. Slots, call'.i = call.i + 1,
           ViewImg.dir[call.i] # Never, ~(IsFile(ViewImg.dir[call.i]) /\ ViewImg.dir[call.i].name = n)
    PROVE  Scanned(n)'
<1> PICK i : i = call.i  OBVIOUS
<1>1. \A j \in 1 .. (i + 1) - 1 : j \in 1 .. i - 1 \/ j = i  OBVIOUS
<1>2. \A j \in 1 .. (i + 1) - 1 : /\ ViewImg.dir[j] # Never
                                  /\ IsFile(ViewImg.dir[j]) => ViewImg.dir[j].name # n
  BY <1>1 DEF Scanned
<1> QED  BY <1>2 DEF Scanned

(* dir_next keeps the invariant.                                           *)
LEMMA Keep_dir_next ==
    ASSUME FatInd, dir_next
    PROVE  FatInd'
<1>0. Scanning  BY DEF dir_next
<1>1. /\ Calling /\ Clean /\ Closed /\ moving = {} /\ call.i \in 1 .. Slots
      /\ call.fn \in {"f_open_create", "f_open_read", "f_unlink", "f_rename"}
      /\ MayType /\ IsCall
      /\ call.pc \in {"find", "find_new", "alloc"}
  BY <1>0, ScanFacts
<1> PICK f \in Faults : \E m \in {Looked(f)} :
          /\ Step(m, f)
          /\ \/ Cut(m)
             \/ /\ Goes(m) /\ ~Hit(m)
                /\ m.win[call.i] # Never /\ call.i < Slots
                /\ GoesOn([call EXCEPT !.i = @ + 1])
  BY DEF dir_next
<1> PICK m : /\ m = Looked(f) /\ Step(m, f)
             /\ \/ Cut(m)
                \/ /\ Goes(m) /\ ~Hit(m)
                   /\ m.win[call.i] # Never /\ call.i < Slots
                   /\ GoesOn([call EXCEPT !.i = @ + 1])
  OBVIOUS
<1>2. CASE Cut(m)
  BY <1>1, <1>2, LookCut
<1>3. CASE /\ Goes(m) /\ ~Hit(m)
           /\ m.win[call.i] # Never /\ call.i < Slots
           /\ GoesOn([call EXCEPT !.i = @ + 1])
  <2>1. /\ call' = CallAt(call.i + 1) /\ fp' = fp /\ may' = may /\ reply' = reply /\ moving' = moving
    BY <1>3 DEF GoesOn, CallAt
  <2>2. /\ IsCall'
        /\ call'.fn = call.fn /\ call'.pc = call.pc /\ call'.name = call.name /\ call'.new = call.new
        /\ call'.i = call.i + 1 /\ call'.dir = call.dir /\ call'.e = call.e
    BY <1>1, <2>1, CallAtFields
  <2>3. MayType'  BY <1>1, <2>1 DEF MayType
  <2>4. RepliesHonest'  BY <1>1, <2>1, NoReplyNext DEF Calling
  <2>5. /\ FsSound' /\ Base' /\ ViewImg' = ViewImg /\ fs'.mounted /\ Clean'
        /\ WinOf(m)[call.i] = ViewImg.dir[call.i]
    BY <1>1, <1>3, <2>1, <2>2, <2>3, <2>4, LookGoes
  <2>6. Calling' /\ Closed' /\ moving' = {} /\ call'.i \in 1 .. Slots
    <3>1. call'.i \in 1 .. Slots
      <4>1. call.i \in 1 .. Slots /\ call.i < Slots /\ Slots \in Nat  BY <1>1, <1>3, Sizes
      <4>2. call.i + 1 \in 1 .. Slots  BY ONLY <4>1
      <4> QED  BY <2>2, <4>2
    <3> QED  BY <1>1, <2>1, <2>5, <3>1 DEF Calling, Closed
  <2> PICK e : e = ViewImg.dir[call.i]  OBVIOUS
  <2>7. /\ e # Never
        /\ call.pc = "find" => ~(IsFile(e) /\ e.name = call.name)
        /\ call.pc = "find_new" => ~(IsFile(e) /\ e.name = call.new)
        /\ call.pc = "alloc" => IsFile(e)
    <3>1. /\ m.win[call.i] = e
          /\ call.pc = "find" => (Hit(m) <=> IsFile(e) /\ e.name = call.name)
          /\ call.pc = "find_new" => (Hit(m) <=> IsFile(e) /\ e.name = call.new)
          /\ call.pc = "alloc" => (Hit(m) <=> ~IsFile(e))
      BY <1>0, <1>3, <2>5, HitIs
    <3> QED  BY <1>3, <3>1
  <2>8. CASE call.pc = "find"
    <3>1. Find  BY <2>8, PhaseAt
    <3>2. Scanned(call.name)'
      <4>1. PICK n : n = call.name  OBVIOUS
      <4>2. Scanned(n)'  BY <1>1, <2>2, <2>5, <2>7, <2>8, <3>1, <4>1, ScannedMore DEF Find
      <4>3. call'.name = n  BY <2>2, <4>1
      <4> QED  BY <4>2, <4>3 DEF Scanned
    <3>3. Find'  BY <2>1, <2>2, <2>5, <2>6, <2>8, <3>1, <3>2 DEF Find
    <3> QED  BY <2>5, <3>3 DEF FatInd, FatIInv, Phases
  <2>9. CASE call.pc = "find_new"
    <3>1. FindNew  BY <2>9, PhaseAt
    <3>2. Scanned(call.new)'
      <4>1. PICK n : n = call.new  OBVIOUS
      <4>2. Scanned(n)'  BY <1>1, <2>2, <2>5, <2>7, <2>9, <3>1, <4>1, ScannedMore DEF FindNew
      <4>3. call'.new = n  BY <2>2, <4>1
      <4> QED  BY <4>2, <4>3 DEF Scanned
    <3>3. Old'  BY <2>2, <2>5, <3>1 DEF FindNew, Old
    <3>4. FindNew'  BY <2>2, <2>5, <2>6, <2>9, <3>2, <3>3 DEF FindNew
    <3> QED  BY <2>5, <3>4 DEF FatInd, FatIInv, Phases
  <2>10. CASE call.pc = "alloc"
    <3>1. Alloc  BY <2>10, PhaseAt
    <3>2. \A j \in 1 .. call'.i - 1 : IsFile(ViewImg'.dir[j])
      <4> PICK i : i = call.i  OBVIOUS
      <4>1. \A j \in 1 .. (i + 1) - 1 : j \in 1 .. i - 1 \/ j = i  BY <1>1
      <4>2. \A j \in 1 .. i - 1 : IsFile(ViewImg.dir[j])  BY <3>1 DEF Alloc
      <4> QED  BY <2>2, <2>5, <2>7, <2>10, <4>1, <4>2
    <3>3. ~Named(ViewImg', call'.new)  BY <2>2, <2>5, <3>1 DEF Alloc
    <3>4. (call.fn = "f_open_create" /\ {<<>>} \in may[call.new]) \/ Old  BY <3>1 DEF Alloc
    <3>5. (call'.fn = "f_open_create" /\ {<<>>} \in may'[call'.new]) \/ Old'
      BY <2>1, <2>2, <2>5, <3>4 DEF Old
    <3>6. Alloc'  BY <2>2, <2>5, <2>6, <2>10, <3>1, <3>2, <3>3, <3>5 DEF Alloc
    <3> QED  BY <2>5, <3>6 DEF FatInd, FatIInv, Phases
  <2> QED  BY <1>1, <2>8, <2>9, <2>10
<1> QED  BY <1>2, <1>3

(* The end of the directory: no file has the name.                         *)
LEMMA NotNamed ==
    ASSUME NEW n, Scanned(n), Tight(ViewImg), call.i \in 1 .. Slots,
           ViewImg.dir[call.i] = Never \/ call.i = Slots,
           ~(IsFile(ViewImg.dir[call.i]) /\ ViewImg.dir[call.i].name = n)
    PROVE  ~Named(ViewImg, n)
<1> SUFFICES ASSUME NEW j \in 1 .. Slots, IsFile(ViewImg.dir[j]), ViewImg.dir[j].name = n
             PROVE  FALSE
  BY DEF Named, Files
<1>1. Slots \in Nat  BY Sizes
<1>2. CASE j < call.i
  <2>1. j \in 1 .. call.i - 1  BY <1>2
  <2> QED  BY <2>1 DEF Scanned
<1>3. CASE j = call.i  BY <1>3
<1>4. CASE call.i < j
  <2>1. ViewImg.dir[call.i] = Never  BY <1>1, <1>4
  <2>2. ViewImg.dir[j] = Never  BY <1>4, <2>1 DEF Tight
  <2> QED  BY <2>2, EntryFields
<1> QED  BY <1>2, <1>3, <1>4

(* What a file may hold is a sequence of bytes, or no file.                *)
LEMMA MayPick ==
    ASSUME MayType, NEW n \in Names, NEW x \in UNION may[n]
    PROVE  {x} \in may[n] /\ x \in Octets
<1>1. PICK s \in may[n] : x \in s  OBVIOUS
<1>2. s = {} \/ \E y \in UNION may[n] : y \in Octets /\ s = {y}
  BY DEF MayType
<1>3. PICK y : y \in Octets /\ s = {y}  BY <1>1, <1>2
<1> QED  BY <1>1, <1>3

(* f_open leaves a file object.                                            *)
LEMMA ObjectIs ==
    ASSUME NEW e, NEW n \in Names, NEW c \in {0} \cup Clusters, NEW z \in Nat, e = File(n, c, z),
           NEW i \in 1 .. Slots, NEW w, fp' = FileObject(e, i, w)
    PROVE  /\ FileOpen(w)'
           /\ fp'.name = n /\ fp'.slot = i /\ fp'.sclust = c /\ fp'.objsize = z /\ fp'.fptr = 0
           /\ fp'.clust = 0 /\ fp'.dirty = FALSE /\ fp'.bytes = <<>> /\ fp'.err = "OK"
<1> PICK b : b = [k \in 1 .. SectorSize |-> 0]  OBVIOUS
<1>1. e.name = n /\ e.clust = c /\ e.size = z  BY EntryFields
<1>2. fp' = FpRec(n, w, i, c, z, 0, 0, 0, b, FALSE, "OK", <<>>)
  BY <1>1 DEF FileObject, FpRec
<1>3. /\ fp'.name = n /\ fp'.write = w /\ fp'.slot = i /\ fp'.sclust = c /\ fp'.objsize = z
      /\ fp'.fptr = 0 /\ fp'.clust = 0 /\ fp'.sect = 0 /\ fp'.buf = b /\ fp'.dirty = FALSE
      /\ fp'.err = "OK" /\ fp'.bytes = <<>>
  BY ONLY <1>2 DEF FpRec
<1>4. IsFp'  BY ONLY <1>2, <1>3 DEF IsFp
<1>5. b \in Sectorful  BY DEF Sectorful
<1>6. <<>> \in Octets  BY DEF Octets
<1>7. 0 \in Nat /\ FALSE \in BOOLEAN  OBVIOUS
<1>8. FileOpen(w)'  BY ONLY <1>3, <1>4, <1>5, <1>6, <1>7, n \in Names, i \in 1 .. Slots,
                          c \in {0} \cup Clusters, z \in Nat DEF FileOpen
<1> QED  BY <1>3, <1>8

(* NotFound keeps the invariant.                                           *)
LEMMA Keep_NotFound ==
    ASSUME FatInd, NotFound
    PROVE  FatInd'
<1>0. Scanning  BY DEF NotFound
<1>1. /\ Calling /\ Clean /\ Closed /\ moving = {} /\ call.i \in 1 .. Slots
      /\ call.fn \in {"f_open_create", "f_open_read", "f_unlink", "f_rename"}
      /\ MayType /\ IsCall
      /\ call.pc \in {"find", "find_new", "alloc"}
  BY <1>0, ScanFacts
<1> DEFINE A == /\ call.pc = "find_new" \/ (call.pc = "find" /\ call.fn = "f_open_create")
                /\ GoesOn([call EXCEPT !.pc = "alloc", !.i = 1,
                                     !.new = IF call.pc = "find" THEN call.name ELSE @])
           B == /\ call.pc = "alloc" \/ (call.pc = "find" /\ call.fn # "f_open_create")
                /\ call' = NoCall
                /\ reply' = IF call.fn = "f_open_read" THEN [call |-> "f_open", name |-> call.name]
                            ELSE NoReply
                /\ UNCHANGED <<fp, may, moving>>
<1> PICK f \in Faults : \E m \in {Looked(f)} :
                           /\ Step(m, f) /\ Goes(m) /\ ~Hit(m)
                           /\ m.win[call.i] = Never \/ call.i = Slots
                           /\ A \/ B
  BY DEF NotFound
<1> PICK m : /\ m = Looked(f) /\ Step(m, f)
             /\ Goes(m) /\ ~Hit(m)
             /\ m.win[call.i] = Never \/ call.i = Slots
             /\ A \/ B
  OBVIOUS
<1> PICK e : e = ViewImg.dir[call.i]  OBVIOUS
<1>2. WinOf(m)[call.i] = e
  BY <1>1, LookedAt
<1>3. /\ m.win[call.i] = e
      /\ call.pc = "find" => ~(IsFile(e) /\ e.name = call.name)
      /\ call.pc = "find_new" => ~(IsFile(e) /\ e.name = call.new)
      /\ call.pc = "alloc" => IsFile(e)
  <2>1. /\ m.win[call.i] = e
        /\ call.pc = "find" => (Hit(m) <=> IsFile(e) /\ e.name = call.name)
        /\ call.pc = "find_new" => (Hit(m) <=> IsFile(e) /\ e.name = call.new)
        /\ call.pc = "alloc" => (Hit(m) <=> ~IsFile(e))
    BY <1>0, <1>2, HitIs
  <2> QED  BY <2>1
<1>4. Tight(ViewImg) /\ There(ViewImg, may)  BY DEF FatInd, FatIInv, Base, Good
<1>5. ASSUME call.pc = "find" PROVE ~Named(ViewImg, call.name) /\ Find
  <2>1. Find  BY <1>5, PhaseAt
  <2> PICK n : n = call.name  OBVIOUS
  <2>2. Scanned(n)  BY <2>1 DEF Find
  <2> QED  BY <1>1, <1>3, <1>4, <1>5, <2>1, <2>2, NotNamed
<1>6. ASSUME call.pc = "find_new" PROVE ~Named(ViewImg, call.new) /\ FindNew
  <2>1. FindNew  BY <1>6, PhaseAt
  <2> PICK n : n = call.new  OBVIOUS
  <2>2. Scanned(n)  BY <2>1 DEF FindNew
  <2> QED  BY <1>1, <1>3, <1>4, <1>6, <2>1, <2>2, NotNamed
<1>7. CASE A
  <2> PICK n : n = IF call.pc = "find" THEN call.name ELSE call.new  OBVIOUS
  <2>1. /\ call' = CallAlloc(n) /\ fp' = fp /\ may' = may /\ reply' = reply /\ moving' = moving
        /\ call.pc = "find_new" \/ (call.pc = "find" /\ call.fn = "f_open_create")
    BY <1>7 DEF GoesOn, CallAlloc
  <2>2. /\ IsCall'
        /\ call'.fn = call.fn /\ call'.pc = "alloc" /\ call'.name = call.name /\ call'.new = n
        /\ call'.i = 1 /\ call'.dir = call.dir /\ call'.e = call.e
    BY <1>1, <2>1, CallAllocFields
  <2>3. MayType'  BY <1>1, <2>1 DEF MayType
  <2>4. RepliesHonest'  BY <1>1, <2>1, NoReplyNext DEF Calling
  <2>5. /\ FsSound' /\ Base' /\ ViewImg' = ViewImg /\ fs'.mounted /\ Clean'
    BY <1>1, <2>1, <2>2, <2>3, <2>4, LookGoes
  <2>6. Calling' /\ Closed' /\ moving' = {} /\ call'.i \in 1 .. Slots
    BY <1>1, <2>1, <2>2, <2>5, Sizes DEF Calling, Closed
  <2>7. n \in Names /\ ~Named(ViewImg, n)
    BY <1>5, <1>6, <2>1 DEF Find, FindNew, Old
  <2>8. (call'.fn = "f_open_create" /\ {<<>>} \in may'[n]) \/ Old'
    <3>1. CASE call.pc = "find"
      BY <1>5, <2>1, <2>2, <3>1 DEF Find
    <3>2. CASE call.pc = "find_new"
      <4>1. n = call.new /\ Old  BY <1>6, <3>2 DEF FindNew
      <4> QED  BY <2>2, <2>5, <4>1 DEF Old
    <3> QED  BY <2>1, <3>1, <3>2
  <2>9. \A j \in 1 .. call'.i - 1 : IsFile(ViewImg'.dir[j])  BY <2>2
  <2>10. Alloc'  BY <2>2, <2>5, <2>6, <2>7, <2>8, <2>9 DEF Alloc
  <2> QED  BY <2>5, <2>10 DEF FatInd, FatIInv, Phases
<1>8. CASE B
  <2>1. /\ call' = NoCall /\ fp' = fp /\ may' = may /\ moving' = moving
        /\ reply' = IF call.fn = "f_open_read" THEN [call |-> "f_open", name |-> call.name]
                    ELSE NoReply
    BY <1>8
  <2>2. IsCall'  BY <2>1, NoCallIs
  <2>3. MayType'  BY <1>1, <2>1 DEF MayType
  <2>4. RepliesHonest'
    <3>1. CASE call.fn # "f_open_read"  BY <2>1, <3>1, NoReplyNext
    <3>2. CASE call.fn = "f_open_read"
      <4>1. call.pc = "find"
        BY <1>1, <1>6, <3>2, PhaseAt DEF FindNew, Old, Alloc
      <4> PICK n : n = call.name  OBVIOUS
      <4>2. n \in Names /\ {} \in may[n]  BY <1>4, <1>5, <4>1 DEF Find, There
      <4>3. reply' = [call |-> "f_open", name |-> n]  BY <2>1, <3>2
      <4>4. reply'.call = "f_open" /\ reply'.name = n  BY ONLY <4>3
      <4> QED  BY <2>1, <4>2, <4>4 DEF RepliesHonest
    <3> QED  BY <3>1, <3>2
  <2>5. /\ FsSound' /\ Base' /\ ViewImg' = ViewImg /\ fs'.mounted /\ Clean'
    BY <1>1, <2>1, <2>2, <2>3, <2>4, LookGoes
  <2>6. Rest'  BY <1>1, <2>1, <2>5 DEF Rest, Closed
  <2> QED  BY <2>5, <2>6 DEF FatInd, FatIInv, Phases
<1> QED  BY <1>7, <1>8

(* OpenRead keeps the invariant.                                           *)
LEMMA Keep_OpenRead ==
    ASSUME FatInd, OpenRead
    PROVE  FatInd'
<1>0. Scanning /\ call.pc = "find"  BY DEF OpenRead, Scanning
<1>1. /\ Calling /\ Clean /\ Closed /\ moving = {} /\ call.i \in 1 .. Slots
      /\ MayType /\ IsCall
  BY <1>0, ScanFacts
<1> PICK f \in Faults : \E m \in {Looked(f)} :
                           Hit(m) /\ Step(m, f) /\ Opened(m.win[call.i], call.i, FALSE)
  BY DEF OpenRead
<1> PICK m : m = Looked(f) /\ Hit(m) /\ Step(m, f) /\ Opened(m.win[call.i], call.i, FALSE)
  OBVIOUS
<1> PICK e : e = ViewImg.dir[call.i]  OBVIOUS
<1>2. Goes(m)  BY DEF Hit
<1>3. WinOf(m)[call.i] = e
  BY <1>1, <1>2, LookedAt
<1>4. m.win[call.i] = e /\ IsFile(e) /\ e.name = call.name
  BY <1>0, <1>2, <1>3, HitIs
<1>5. /\ call' = NoCall /\ fp' = FileObject(e, call.i, FALSE)
      /\ may' = may /\ reply' = reply /\ moving' = moving
  BY <1>4 DEF Opened
<1>6. IsCall'  BY <1>5, NoCallIs
<1>7. MayType'  BY <1>1, <1>5 DEF MayType
<1>8. RepliesHonest'  BY <1>1, <1>5, NoReplyNext DEF Calling
<1>9. /\ FsSound' /\ Base' /\ ViewImg' = ViewImg /\ fs'.mounted /\ Clean'
  BY <1>1, <1>2, <1>5, <1>6, <1>7, <1>8, LookGoes
<1>10. ViewImg \in Imgs /\ call.i \in Files(ViewImg)
  BY <1>1, <1>4, ImgsNow DEF FatInd, Files
<1> PICK n, c, z : n = e.name /\ c = e.clust /\ z = e.size  OBVIOUS
<1>11. n \in Names /\ c \in {0} \cup Clusters /\ z \in Nat /\ e = File(n, c, z)
  BY <1>10, ImgFields, EntryFields
<1>12. PICK x \in UNION may[n] : Carries(ViewImg.fat, ViewImg.data, c, z, x)
  BY <1>10 DEF FatInd, FatIInv, Base, Good, Kept
<1>13. {x} \in may[n] /\ Len(x) = z  BY <1>1, <1>11, <1>12, MayPick DEF Carries
<1>14. /\ FileOpen(FALSE)'
       /\ fp'.name = n /\ fp'.sclust = c /\ fp'.objsize = z
  <2>1. call.i \in 1 .. Slots /\ n \in Names /\ c \in {0} \cup Clusters /\ z \in Nat
        /\ e = File(n, c, z) /\ fp' = FileObject(e, call.i, FALSE)
    BY <1>1, <1>5, <1>11
  <2> QED  BY ONLY <2>1, ObjectIs
<1>15. ReadCtx'  BY <1>1, <1>5, <1>9, <1>14 DEF ReadCtx
<1>16. x \in UNION may'[fp'.name] /\ Reading(x)'
  BY <1>5, <1>12, <1>13, <1>14 DEF Reading
<1>17. ReadOpen'
  BY <1>5, <1>9, <1>12, <1>14, <1>15, <1>16 DEF ReadOpen
<1> QED  BY <1>9, <1>17 DEF FatInd, FatIInv, Phases

(* FoundOld keeps the invariant.                                           *)
LEMMA Keep_FoundOld ==
    ASSUME FatInd, FoundOld
    PROVE  FatInd'
<1>0. Scanning /\ call.pc = "find" /\ call.fn = "f_rename"  BY DEF FoundOld, Scanning
<1>1. /\ Calling /\ Clean /\ Closed /\ moving = {} /\ call.i \in 1 .. Slots
      /\ MayType /\ IsCall
  BY <1>0, ScanFacts
<1> PICK f \in Faults : \E m \in {Looked(f)} :
          /\ Hit(m) /\ Step(m, f)
          /\ GoesOn([call EXCEPT !.pc = "find_new", !.i = 1, !.dir = call.i, !.e = m.win[call.i]])
  BY DEF FoundOld
<1> PICK m : /\ m = Looked(f) /\ Hit(m) /\ Step(m, f)
          /\ GoesOn([call EXCEPT !.pc = "find_new", !.i = 1, !.dir = call.i, !.e = m.win[call.i]])
  OBVIOUS
<1> PICK e : e = ViewImg.dir[call.i]  OBVIOUS
<1>2. Goes(m)  BY DEF Hit
<1>3. WinOf(m)[call.i] = e
  BY <1>1, <1>2, LookedAt
<1>4. m.win[call.i] = e /\ IsFile(e) /\ e.name = call.name
  BY <1>0, <1>2, <1>3, HitIs
<1>5. /\ call' = CallNew(e) /\ fp' = fp
      /\ may' = may /\ reply' = reply /\ moving' = moving
  BY <1>4 DEF GoesOn, CallNew
<1>6. /\ IsCall'
      /\ call'.fn = call.fn /\ call'.pc = "find_new" /\ call'.name = call.name /\ call'.new = call.new
      /\ call'.i = 1 /\ call'.dir = call.i /\ call'.e = e
  BY <1>1, <1>5, CallNewFields
<1>7. MayType'  BY <1>1, <1>5 DEF MayType
<1>8. RepliesHonest'  BY <1>1, <1>5, NoReplyNext DEF Calling
<1>9. /\ FsSound' /\ Base' /\ ViewImg' = ViewImg /\ fs'.mounted /\ Clean'
  BY <1>1, <1>2, <1>5, <1>6, <1>7, <1>8, LookGoes
<1>10. Find  BY <1>0, PhaseAt
<1>11. Old'
  BY <1>0, <1>1, <1>4, <1>6, <1>9, <1>10 DEF Old, Find
<1>12. Calling' /\ Closed' /\ moving' = {} /\ call'.i \in 1 .. Slots
  BY <1>1, <1>5, <1>6, <1>9, Sizes DEF Calling, Closed
<1>13. Scanned(call.new)'
  <2>1. 1 .. call'.i - 1 = {}  BY <1>6
  <2> QED  BY <2>1 DEF Scanned
<1>14. FindNew'  BY <1>6, <1>9, <1>11, <1>12, <1>13 DEF FindNew
<1> QED  BY <1>9, <1>14 DEF FatInd, FatIInv, Phases

(* Exists keeps the invariant.                                             *)
LEMMA Keep_Exists ==
    ASSUME FatInd, Exists
    PROVE  FatInd'
<1>0. Scanning  BY DEF Exists, Scanning
<1>1. /\ Calling /\ Clean /\ Closed /\ moving = {} /\ call.i \in 1 .. Slots
      /\ MayType /\ IsCall
  BY <1>0, ScanFacts
<1> PICK f \in Faults : \E m \in {Looked(f)} : Hit(m) /\ Step(m, f) /\ GoesOn(NoCall)
  BY DEF Exists
<1> PICK m : m = Looked(f) /\ Hit(m) /\ Step(m, f) /\ GoesOn(NoCall)
  OBVIOUS
<1>2. Goes(m)  BY DEF Hit
<1>5. /\ call' = NoCall /\ fp' = fp
      /\ may' = may /\ reply' = reply /\ moving' = moving
  BY DEF GoesOn
<1>6. IsCall'  BY <1>5, NoCallIs
<1>7. MayType'  BY <1>1, <1>5 DEF MayType
<1>8. RepliesHonest'  BY <1>1, <1>5, NoReplyNext DEF Calling
<1>9. /\ FsSound' /\ Base' /\ ViewImg' = ViewImg /\ fs'.mounted /\ Clean'
  BY <1>1, <1>2, <1>5, <1>6, <1>7, <1>8, LookGoes
<1>10. Rest'  BY <1>1, <1>5, <1>9 DEF Rest, Closed
<1> QED  BY <1>9, <1>10 DEF FatInd, FatIInv, Phases

(* What may be on the card, and the types of it.                           *)
MayOk(m) ==
    /\ m = [n \in Names |-> m[n]]
    /\ \A n \in Names : \A s \in m[n] : s = {} \/ \E x \in Octets : s = {x}
(* MayType is MayOk of may.                                                *)
LEMMA MayIs == MayType <=> MayOk(may)
<1>1. ASSUME MayType PROVE MayOk(may)  BY <1>1 DEF MayType, MayOk
<1>2. ASSUME MayOk(may) PROVE MayType
  <2>1. ASSUME NEW n \in Names, NEW s \in may[n], s # {}
        PROVE  \E x \in UNION may[n] : x \in Octets /\ s = {x}
    <3>1. PICK x \in Octets : s = {x}  BY <1>2, <2>1 DEF MayOk
    <3>2. x \in UNION may[n]  BY <2>1, <3>1
    <3> QED  BY <3>1, <3>2
  <2> QED  BY <1>2, <2>1 DEF MayType, MayOk
<1> QED  BY <1>1, <1>2

(* The same after a step.                                                  *)
LEMMA MayIsNext == MayType' <=> MayOk(may')
<1>1. (MayType <=> MayOk(may))'  BY MayIs, PTL
<1> QED  BY <1>1

(* A call adds T to what a file may hold.                                  *)
MayAdds(m, n, T) == [m EXCEPT ![n] = @ \cup T]
Told(T) == \A s \in T : s = {} \/ \E x \in Octets : s = {x}
(* A call that adds to what one file may hold.                             *)
LEMMA MayAdd ==
    ASSUME NEW m, MayOk(m), NEW n \in Names, NEW T, Told(T), NEW m2, m2 = MayAdds(m, n, T)
    PROVE  /\ MayOk(m2) /\ m2[n] = m[n] \cup T
           /\ \A a \in Names : a # n => m2[a] = m[a]
           /\ \A a \in Names : m[a] \subseteq m2[a]
<1>1. \A a \in Names : m2[a] = IF a = n THEN m[n] \cup T ELSE m[a]
  BY DEF MayOk, MayAdds
<1>2. m2 = [a \in Names |-> m2[a]]  BY DEF MayOk, MayAdds
<1> QED  BY <1>1, <1>2 DEF MayOk, Told

(* A call settles what a file holds.                                       *)
MaySets(m, n, T) == [m EXCEPT ![n] = T]
(* A call that settles what one file holds.                                *)
LEMMA MaySet ==
    ASSUME NEW m, MayOk(m), NEW n \in Names, NEW T, Told(T), NEW m2, m2 = MaySets(m, n, T)
    PROVE  /\ MayOk(m2) /\ m2[n] = T
           /\ \A a \in Names : a # n => m2[a] = m[a]
<1>1. \A a \in Names : m2[a] = IF a = n THEN T ELSE m[a]
  BY DEF MayOk, MaySets
<1>2. m2 = [a \in Names |-> m2[a]]  BY DEF MayOk, MaySets
<1> QED  BY <1>1, <1>2 DEF MayOk, Told

(* Bytes a file may hold.                                                  *)
LEMMA NoBytes == <<>> \in Octets
BY DEF Octets

(* What stays when neither the card nor the window changes.                *)
LEMMA Still ==
    ASSUME FatInd, disk' = disk, fs' = fs, faults' = faults,
           Good(ViewImg, may', moving'), Good(CardImg, may', moving'), MayType', RepliesHonest', IsCall'
    PROVE  FsSound' /\ Base' /\ ViewImg' = ViewImg /\ CardImg' = CardImg
<1>1. View' = View /\ ViewImg' = ViewImg /\ CardImg' = CardImg
  BY DEF View, ViewImg, CardImg
<1>2. Start(NoFault)' = Start(NoFault)  BY DEF Start
<1>3. FsSound'
  <2>1. FsSound  BY DEF FatInd
  <2>2. WindowSound(Start(NoFault))'  BY <1>2, <2>1 DEF FsSound
  <2> QED  BY <2>1, <2>2 DEF FsSound
<1>4. WindowCoherent'  BY <1>3, WindowIsNext
<1>5. faults' = 0 => \A s \in FatSectors : disk'[s] = disk'[Mirror(s)]
  BY DEF FatInd, FatIInv, Base
<1> QED  BY <1>1, <1>3, <1>4, <1>5 DEF Base

(* The phases between calls.                                               *)
LEMMA IdleIs ==
    ASSUME FatInd, call.pc = "idle"
    PROVE  /\ Rest \/ WriteOpen \/ ReadOpen
           /\ call = NoCall
           /\ ~fs.mounted => Rest
           /\ ~fp.open => Rest
           /\ fp.open /\ fp.write => WriteOpen
           /\ fp.open /\ ~fp.write => ReadOpen
<1>1. Rest \/ WriteOpen \/ ReadOpen  BY PhaseAt
<1>2. Rest => call = NoCall /\ fp = NoFp /\ fp.open = FALSE  BY DEF Rest, Closed, NoFp
<1>3. WriteOpen => call = NoCall /\ IsFp /\ fp.write = TRUE /\ fs.mounted
  BY DEF WriteOpen, Written, FileOpen
<1>4. ReadOpen => call = NoCall /\ IsFp /\ fp.write = FALSE /\ fs.mounted
  BY DEF ReadOpen, ReadCtx, FileOpen
<1>5. IsFp => fp.open = TRUE
  <2> SUFFICES ASSUME IsFp PROVE fp.open = TRUE  OBVIOUS
  <2> PICK a, b, c, d, e, f, g, h, i, j, k, l : fp = FpRec(a, b, c, d, e, f, g, h, i, j, k, l)
    BY DEF IsFp
  <2> QED  BY DEF FpRec
<1> QED  BY <1>1, <1>2, <1>3, <1>4, <1>5

(* What a call starts with.                                                *)
LEMMA Started ==
    ASSUME NEW f, NEW p, NEW n, NEW m, NEW i, NEW b, NEW t, NEW c,
           c = CallRec(f, p, n, m, i, 0, Never, 0, 0, b, b, t, <<>>), call' = c
    PROVE  /\ IsCall'
           /\ call'.fn = f /\ call'.pc = p /\ call'.name = n /\ call'.new = m /\ call'.i = i
           /\ call'.btw = b /\ call'.left = b /\ call'.tok = t /\ call'.got = <<>>
<1>1. call' = CallRec(f, p, n, m, i, 0, Never, 0, 0, b, b, t, <<>>)  OBVIOUS
<1>2. /\ call'.fn = f /\ call'.pc = p /\ call'.name = n /\ call'.new = m
      /\ call'.i = i /\ call'.dir = 0 /\ call'.e = Never /\ call'.clst = 0 /\ call'.scl = 0
      /\ call'.btw = b /\ call'.left = b /\ call'.tok = t /\ call'.got = <<>>
  BY ONLY <1>1 DEF CallRec
<1> QED  BY ONLY <1>1, <1>2 DEF IsCall

(* The records calls start with.                                           *)
LEMMA CallStarts ==
    /\ \A f, n : [NoCall EXCEPT !.fn = f, !.pc = "find", !.name = n, !.i = 1]
                 = CallRec(f, "find", n, NoName, 1, 0, Never, 0, 0, 0, 0, 0, <<>>)
    /\ \A old, new : [NoCall EXCEPT !.fn = "f_rename", !.pc = "find", !.name = old, !.new = new, !.i = 1]
                 = CallRec("f_rename", "find", old, new, 1, 0, Never, 0, 0, 0, 0, 0, <<>>)
    /\ \A n, tok : [NoCall EXCEPT !.fn = "f_write", !.pc = "round", !.btw = n, !.left = n, !.tok = tok]
                 = CallRec("f_write", "round", NoName, NoName, 0, 0, Never, 0, 0, n, n, tok, <<>>)
    /\ [NoCall EXCEPT !.fn = "f_read", !.pc = "read"]
                 = CallRec("f_read", "read", NoName, NoName, 0, 0, Never, 0, 0, 0, 0, 0, <<>>)
    /\ [NoCall EXCEPT !.fn = "f_close", !.pc = "flush"]
                 = CallRec("f_close", "flush", NoName, NoName, 0, 0, Never, 0, 0, 0, 0, 0, <<>>)
<1>0. NoCall = CallRec("none", "idle", NoName, NoName, 0, 0, Never, 0, 0, 0, 0, 0, <<>>)  BY DEF NoCall, CallRec
<1>1. ASSUME NEW f, NEW n
      PROVE  [NoCall EXCEPT !.fn = f, !.pc = "find", !.name = n, !.i = 1]
          = CallRec(f, "find", n, NoName, 1, 0, Never, 0, 0, 0, 0, 0, <<>>)
  <2> PICK r0 : r0 = [NoCall EXCEPT !.fn = f]  OBVIOUS
  <2> PICK r1 : r1 = [r0 EXCEPT !.pc = "find"]  OBVIOUS
  <2> PICK r2 : r2 = [r1 EXCEPT !.name = n]  OBVIOUS
  <2> PICK r3 : r3 = [r2 EXCEPT !.i = 1]  OBVIOUS
  <2>1. r0 = CallRec(f, "idle", NoName, NoName, 0, 0, Never, 0, 0, 0, 0, 0, <<>>)
    BY ONLY <1>0, r0 = [NoCall EXCEPT !.fn = f] DEF CallRec
  <2>2. r1 = CallRec(f, "find", NoName, NoName, 0, 0, Never, 0, 0, 0, 0, 0, <<>>)
    BY ONLY <2>1, r1 = [r0 EXCEPT !.pc = "find"] DEF CallRec
  <2>3. r2 = CallRec(f, "find", n, NoName, 0, 0, Never, 0, 0, 0, 0, 0, <<>>)
    BY ONLY <2>2, r2 = [r1 EXCEPT !.name = n] DEF CallRec
  <2>4. r3 = CallRec(f, "find", n, NoName, 1, 0, Never, 0, 0, 0, 0, 0, <<>>)
    BY ONLY <2>3, r3 = [r2 EXCEPT !.i = 1] DEF CallRec
  <2>9. [NoCall EXCEPT !.fn = f, !.pc = "find", !.name = n, !.i = 1] = r3  OBVIOUS
  <2> QED  BY ONLY <2>9, <2>4
<1>2. ASSUME NEW old, NEW new
      PROVE  [NoCall EXCEPT !.fn = "f_rename", !.pc = "find", !.name = old, !.new = new, !.i = 1]
          = CallRec("f_rename", "find", old, new, 1, 0, Never, 0, 0, 0, 0, 0, <<>>)
  <2> PICK r0 : r0 = [NoCall EXCEPT !.fn = "f_rename"]  OBVIOUS
  <2> PICK r1 : r1 = [r0 EXCEPT !.pc = "find"]  OBVIOUS
  <2> PICK r2 : r2 = [r1 EXCEPT !.name = old]  OBVIOUS
  <2> PICK r3 : r3 = [r2 EXCEPT !.new = new]  OBVIOUS
  <2> PICK r4 : r4 = [r3 EXCEPT !.i = 1]  OBVIOUS
  <2>1. r0 = CallRec("f_rename", "idle", NoName, NoName, 0, 0, Never, 0, 0, 0, 0, 0, <<>>)
    BY ONLY <1>0, r0 = [NoCall EXCEPT !.fn = "f_rename"] DEF CallRec
  <2>2. r1 = CallRec("f_rename", "find", NoName, NoName, 0, 0, Never, 0, 0, 0, 0, 0, <<>>)
    BY ONLY <2>1, r1 = [r0 EXCEPT !.pc = "find"] DEF CallRec
  <2>3. r2 = CallRec("f_rename", "find", old, NoName, 0, 0, Never, 0, 0, 0, 0, 0, <<>>)
    BY ONLY <2>2, r2 = [r1 EXCEPT !.name = old] DEF CallRec
  <2>4. r3 = CallRec("f_rename", "find", old, new, 0, 0, Never, 0, 0, 0, 0, 0, <<>>)
    BY ONLY <2>3, r3 = [r2 EXCEPT !.new = new] DEF CallRec
  <2>5. r4 = CallRec("f_rename", "find", old, new, 1, 0, Never, 0, 0, 0, 0, 0, <<>>)
    BY ONLY <2>4, r4 = [r3 EXCEPT !.i = 1] DEF CallRec
  <2>9. [NoCall EXCEPT !.fn = "f_rename", !.pc = "find", !.name = old, !.new = new, !.i = 1] = r4  OBVIOUS
  <2> QED  BY ONLY <2>9, <2>5
<1>3. ASSUME NEW n, NEW tok
      PROVE  [NoCall EXCEPT !.fn = "f_write", !.pc = "round", !.btw = n, !.left = n, !.tok = tok]
          = CallRec("f_write", "round", NoName, NoName, 0, 0, Never, 0, 0, n, n, tok, <<>>)
  <2> PICK r0 : r0 = [NoCall EXCEPT !.fn = "f_write"]  OBVIOUS
  <2> PICK r1 : r1 = [r0 EXCEPT !.pc = "round"]  OBVIOUS
  <2> PICK r2 : r2 = [r1 EXCEPT !.btw = n]  OBVIOUS
  <2> PICK r3 : r3 = [r2 EXCEPT !.left = n]  OBVIOUS
  <2> PICK r4 : r4 = [r3 EXCEPT !.tok = tok]  OBVIOUS
  <2>1. r0 = CallRec("f_write", "idle", NoName, NoName, 0, 0, Never, 0, 0, 0, 0, 0, <<>>)
    BY ONLY <1>0, r0 = [NoCall EXCEPT !.fn = "f_write"] DEF CallRec
  <2>2. r1 = CallRec("f_write", "round", NoName, NoName, 0, 0, Never, 0, 0, 0, 0, 0, <<>>)
    BY ONLY <2>1, r1 = [r0 EXCEPT !.pc = "round"] DEF CallRec
  <2>3. r2 = CallRec("f_write", "round", NoName, NoName, 0, 0, Never, 0, 0, n, 0, 0, <<>>)
    BY ONLY <2>2, r2 = [r1 EXCEPT !.btw = n] DEF CallRec
  <2>4. r3 = CallRec("f_write", "round", NoName, NoName, 0, 0, Never, 0, 0, n, n, 0, <<>>)
    BY ONLY <2>3, r3 = [r2 EXCEPT !.left = n] DEF CallRec
  <2>5. r4 = CallRec("f_write", "round", NoName, NoName, 0, 0, Never, 0, 0, n, n, tok, <<>>)
    BY ONLY <2>4, r4 = [r3 EXCEPT !.tok = tok] DEF CallRec
  <2>9. [NoCall EXCEPT !.fn = "f_write", !.pc = "round", !.btw = n, !.left = n, !.tok = tok] = r4  OBVIOUS
  <2> QED  BY ONLY <2>9, <2>5
<1>4. [NoCall EXCEPT !.fn = "f_read", !.pc = "read"]
          = CallRec("f_read", "read", NoName, NoName, 0, 0, Never, 0, 0, 0, 0, 0, <<>>)
  <2> PICK r0 : r0 = [NoCall EXCEPT !.fn = "f_read"]  OBVIOUS
  <2> PICK r1 : r1 = [r0 EXCEPT !.pc = "read"]  OBVIOUS
  <2>1. r0 = CallRec("f_read", "idle", NoName, NoName, 0, 0, Never, 0, 0, 0, 0, 0, <<>>)
    BY ONLY <1>0, r0 = [NoCall EXCEPT !.fn = "f_read"] DEF CallRec
  <2>2. r1 = CallRec("f_read", "read", NoName, NoName, 0, 0, Never, 0, 0, 0, 0, 0, <<>>)
    BY ONLY <2>1, r1 = [r0 EXCEPT !.pc = "read"] DEF CallRec
  <2>9. [NoCall EXCEPT !.fn = "f_read", !.pc = "read"] = r1  OBVIOUS
  <2> QED  BY ONLY <2>9, <2>2
<1>5. [NoCall EXCEPT !.fn = "f_close", !.pc = "flush"]
          = CallRec("f_close", "flush", NoName, NoName, 0, 0, Never, 0, 0, 0, 0, 0, <<>>)
  <2> PICK r0 : r0 = [NoCall EXCEPT !.fn = "f_close"]  OBVIOUS
  <2> PICK r1 : r1 = [r0 EXCEPT !.pc = "flush"]  OBVIOUS
  <2>1. r0 = CallRec("f_close", "idle", NoName, NoName, 0, 0, Never, 0, 0, 0, 0, 0, <<>>)
    BY ONLY <1>0, r0 = [NoCall EXCEPT !.fn = "f_close"] DEF CallRec
  <2>2. r1 = CallRec("f_close", "flush", NoName, NoName, 0, 0, Never, 0, 0, 0, 0, 0, <<>>)
    BY ONLY <2>1, r1 = [r0 EXCEPT !.pc = "flush"] DEF CallRec
  <2>9. [NoCall EXCEPT !.fn = "f_close", !.pc = "flush"] = r1  OBVIOUS
  <2> QED  BY ONLY <2>9, <2>2
<1> QED  BY <1>1, <1>2, <1>3, <1>4, <1>5

(* Without a mounted card nothing is open and no call runs.                *)
LEMMA Unmounted ==
    ASSUME FatInd, ~fs.mounted
    PROVE  Rest /\ fs = NoFs
<1>1. Phases  BY DEF FatInd, FatIInv
<1>2. ~Find /\ ~FindNew /\ ~Alloc /\ ~FreePhase /\ ~Back /\ ~Move /\ ~SyncRename /\ ~SyncUnlink
      /\ ~WriteOpen /\ ~ReadOpen
  BY DEF Find, FindNew, Alloc, FreePhase, Back, Move, SyncRename, SyncUnlink, WriteOpen, ReadOpen,
         Written, ReadCtx, Calling
<1>3. WriteCall => FALSE  BY DEF WriteCall, Calling
<1>4. ~Round /\ ~Following /\ ~Trying /\ ~Search /\ ~Claiming /\ ~Flushing /\ ~Storing
  BY <1>3 DEF Round, Following, Trying, Search, Claiming, Flushing, Storing, AtSector
<1>5. ~FlushLast /\ ~EntryPhase /\ ~SyncClose /\ ~Read
  BY DEF FlushLast, EntryPhase, SyncClose, Read, Closing, Calling
<1>6. Rest  BY ONLY <1>1, <1>2, <1>4, <1>5 DEF Phases
<1> QED  BY <1>6 DEF Rest

(* Nothing was in the window.                                              *)
LEMMA ViewPlain == ~fs.wflag => View = disk /\ ViewImg = CardImg
BY DEF View, ViewImg, CardImg

(* The same after a step.                                                  *)
LEMMA ViewPlainNext == fs'.wflag = FALSE => View' = disk' /\ ViewImg' = CardImg'
BY DEF View, ViewImg, CardImg

(* Mount keeps the invariant.                                              *)
LEMMA Keep_Mount ==
    ASSUME FatInd, Mount
    PROVE  FatInd'
<1>1. Rest /\ fs = NoFs  BY Unmounted DEF Mount
<1> PICK readable \in BOOLEAN :
          /\ fs' = find_volume(readable)
          /\ faults' = IF readable THEN faults ELSE faults + 1
  BY DEF Mount
<1>2. disk' = disk /\ fp' = fp /\ call' = call /\ may' = may /\ reply' = reply /\ moving' = moving
  BY DEF Mount
<1> PICK w, s, l, z : /\ w = IF readable THEN disk[InfoSector] ELSE <<>>
                      /\ s = IF readable THEN InfoSector ELSE NoSector
                      /\ l = IF readable THEN disk[InfoSector] ELSE Unknown
                      /\ z = IF readable THEN 0 ELSE 128
  OBVIOUS
<1>3. fs' = FsRec(w, s, FALSE, l, z, TRUE)
  BY DEF find_volume, NoFs, FsRec
<1>4. /\ fs'.win = w /\ fs'.winsect = s /\ fs'.wflag = FALSE /\ fs'.last_clst = l
      /\ fs'.fsi_flag = z /\ fs'.mounted = TRUE
  BY ONLY <1>3 DEF FsRec
<1>5. IsDisk(disk) /\ faults \in Nat  BY DEF FatInd, FsSound
<1>6. InfoSector \in Sectors  BY DEF Sectors
<1>7. l \in Int
  <2>1. disk[InfoSector] \in Int  BY <1>5, <1>6, HoldsKinds DEF IsDisk
  <2> QED  BY <2>1 DEF Unknown
<1>8. s \in Sectors \cup {NoSector} /\ s \notin Windowed
  BY <1>6, SectorKinds DEF Windowed
<1>9. NoFault \in Faults'  BY DEF Faults
<1> PICK m : m = Start(NoFault)'  OBVIOUS
<1>10. m = Rec(disk, w, s, FALSE, l, z, "OK", 0, -1, "none", FALSE)
  BY <1>2, <1>4 DEF Start, Rec, NoFault
<1>11. DiskOf(m) = disk /\ WinOf(m) = w /\ SectOf(m) = s /\ FlagOf(m) = FALSE
  <2>1. Fields(m, disk, w, s, FALSE, l, z, "OK", 0, -1, "none", FALSE)
    BY ONLY <1>10, RecFields
  <2> QED  BY ONLY <2>1 DEF Fields
<1>12. WindowSound(m)  BY <1>8, <1>11 DEF WindowSound
<1>13. faults' \in Nat /\ (faults' = 0 => faults = 0)  BY <1>5
<1>14. FsSound'
  <2>1. fs' = FsRec(fs'.win, fs'.winsect, fs'.wflag, fs'.last_clst, fs'.fsi_flag, fs'.mounted)
    BY <1>3, <1>4
  <2> QED  BY <1>2, <1>4, <1>5, <1>7, <1>12, <1>13, <2>1 DEF FsSound
<1>15. ViewImg' = ViewImg /\ CardImg' = CardImg
  <2>1. NoFs.wflag = FALSE  BY DEF NoFs
  <2>2. ViewImg = CardImg  BY <1>1, <2>1, ViewPlain
  <2>3. ViewImg' = CardImg'  BY <1>4, ViewPlainNext
  <2> QED  BY <1>2, <2>2, <2>3 DEF CardImg
<1>16. WindowCoherent'  BY <1>14, WindowIsNext
<1>17. Base /\ View = disk
  <2>1. NoFs.wflag = FALSE  BY DEF NoFs
  <2> QED  BY <1>1, <2>1, ViewPlain DEF FatInd, FatIInv
<1>18. RepliesHonest'
  <2>1. View' = View  BY <1>2, <1>4, <1>17, ViewPlainNext
  <2> QED  BY <1>2, <1>17, <2>1 DEF Base, RepliesHonest
<1>19. Base'
  <2>1. MayType' /\ IsCall'  BY <1>2, <1>17 DEF Base, MayType, IsCall
  <2>2. faults' = 0 => \A d \in FatSectors : disk'[d] = disk'[Mirror(d)]
    BY <1>2, <1>13, <1>17 DEF Base
  <2> QED  BY <1>2, <1>15, <1>16, <1>17, <1>18, <2>1, <2>2 DEF Base
<1>20. Rest'
  BY <1>1, <1>2, <1>4, <1>13, <1>15 DEF Rest, Closed, Clean, Quiet
<1> QED  BY <1>14, <1>19, <1>20 DEF FatInd, FatIInv, Phases

(* Unmount keeps the invariant.                                            *)
LEMMA Keep_Unmount ==
    ASSUME FatInd, Unmount
    PROVE  FatInd'
<1>0. /\ fs' = NoFs /\ reply' = NoReply /\ call.pc = "idle" /\ ~fp.open
      /\ disk' = disk /\ fp' = fp /\ call' = call /\ may' = may /\ moving' = moving /\ faults' = faults
  BY DEF Unmount
<1>1. Rest  BY <1>0, IdleIs
<1>2. /\ fs' = FsRec(<<>>, NoSector, FALSE, Unknown, 0, FALSE)
  BY <1>0 DEF NoFs, FsRec
<1>3. /\ fs'.win = <<>> /\ fs'.winsect = NoSector /\ fs'.wflag = FALSE /\ fs'.last_clst = Unknown
      /\ fs'.fsi_flag = 0 /\ fs'.mounted = FALSE
  BY ONLY <1>2 DEF FsRec
<1>4. Base  BY DEF FatInd, FatIInv
<1> PICK m : m = Start(NoFault)'  OBVIOUS
<1>5. m = Rec(disk, <<>>, NoSector, FALSE, Unknown, 0, "OK", 0, -1, "none", FALSE)
  BY <1>0, <1>3 DEF Start, Rec, NoFault
<1>6. DiskOf(m) = disk /\ WinOf(m) = <<>> /\ SectOf(m) = NoSector /\ FlagOf(m) = FALSE
  <2>1. Fields(m, disk, <<>>, NoSector, FALSE, Unknown, 0, "OK", 0, -1, "none", FALSE)
    BY ONLY <1>5, RecFields
  <2> QED  BY ONLY <2>1 DEF Fields
<1>7. WindowSound(m)
  BY <1>6, SectorKinds DEF WindowSound, Windowed
<1>8. FsSound'
  <2>1. fs' = FsRec(fs'.win, fs'.winsect, fs'.wflag, fs'.last_clst, fs'.fsi_flag, fs'.mounted)
    BY <1>2, <1>3
  <2>2. Unknown \in Int  BY DEF Unknown
  <2> QED  BY <1>0, <1>3, <1>7, <2>1, <2>2 DEF FatInd, FsSound
<1>9. CardImg' = CardImg /\ ViewImg' = CardImg
  BY <1>0, <1>3, ViewPlainNext DEF CardImg
<1>10. WindowCoherent' /\ RepliesHonest'  BY <1>0, <1>8, WindowIsNext, NoReplyNext
<1>11. Base'
  <2>1. MayType' /\ IsCall'  BY <1>0, <1>4 DEF Base, MayType, IsCall
  <2>2. faults' = 0 => \A d \in FatSectors : disk'[d] = disk'[Mirror(d)]
    BY <1>0, <1>4 DEF Base
  <2> QED  BY <1>0, <1>4, <1>9, <1>10, <2>1, <2>2 DEF Base
<1>12. Clean'
  <2>1. ASSUME faults = 0 PROVE ViewImg = CardImg /\ Lost(ViewImg) = {}
    BY <1>1, <2>1, ViewPlain DEF Rest, Clean, Quiet
  <2> QED  BY <1>0, <1>3, <1>9, <2>1 DEF Clean, Quiet
<1>13. Rest'  BY <1>0, <1>1, <1>12 DEF Rest, Closed
<1> QED  BY <1>8, <1>11, <1>13 DEF FatInd, FatIInv, Phases

(* A call begins with nothing else under way.                              *)
LEMMA Begun ==
    ASSUME FatInd, Begin, fp' = fp, IsCall', MayType',
           \A n \in Names : may[n] \subseteq may'[n]
    PROVE  /\ FsSound' /\ Base' /\ ViewImg' = ViewImg /\ CardImg' = CardImg /\ Calling'
           /\ fs' = fs /\ faults' = faults /\ moving' = {} /\ moving = {} /\ call.pc = "idle"
<1>1. /\ fs.mounted /\ call.pc = "idle" /\ moving = {} /\ reply' = NoReply
      /\ disk' = disk /\ fs' = fs /\ moving' = moving /\ faults' = faults
  BY DEF Begin
<1>2. RepliesHonest'  BY <1>1, NoReplyNext
<1>3. Good(ViewImg, may, {}) /\ Good(CardImg, may, {})  BY <1>1 DEF FatInd, FatIInv, Base
<1>4. ViewImg \in Imgs /\ CardImg \in Imgs  BY ImgsNow DEF FatInd
<1>5. Good(ViewImg, may', {}) /\ Good(CardImg, may', {})
  <2>1. ASSUME NEW v \in Imgs, Good(v, may, {}) PROVE Good(v, may', {})
    <3>1. Whole(v, {}) /\ Single(v)  BY <2>1 DEF Good
    <3> QED  BY <2>1, <3>1, GoodMay
  <2> QED  BY <1>3, <1>4, <2>1
<1> QED  BY <1>1, <1>2, <1>5, Still DEF Calling

(* The directory is looked for a name from its first slot on.              *)
LEMMA Finding ==
    ASSUME FatInd, Begin, ~fp.open, fp' = fp, MayType', \A a \in Names : may[a] \subseteq may'[a],
           NEW fn \in {"f_open_create", "f_open_read", "f_unlink", "f_rename"}, NEW n \in Names, NEW new,
           fn = "f_open_create" => {<<>>} \in may'[n],
           fn = "f_rename" => new \in Names /\ new # n,
           NEW c, c = CallRec(fn, "find", n, new, 1, 0, Never, 0, 0, 0, 0, 0, <<>>), call' = c
    PROVE  FatInd'
<1>1. /\ IsCall'
      /\ call'.fn = fn /\ call'.pc = "find" /\ call'.name = n /\ call'.new = new /\ call'.i = 1
  BY Started
<1>2. /\ FsSound' /\ Base' /\ ViewImg' = ViewImg /\ CardImg' = CardImg /\ Calling'
      /\ fs' = fs /\ faults' = faults /\ moving' = {} /\ moving = {} /\ call.pc = "idle"
  BY <1>1, Begun
<1>3. Rest  BY <1>2, IdleIs
<1>4. Closed' /\ Clean'  BY <1>2, <1>3 DEF Rest, Closed, Clean, Quiet
<1>5. call'.i \in 1 .. Slots  BY <1>1, Sizes
<1>6. Scanned(n)'
  <2>1. 1 .. call'.i - 1 = {}  BY <1>1
  <2> QED  BY <2>1 DEF Scanned
<1>7. Find'  BY <1>1, <1>2, <1>4, <1>5, <1>6 DEF Find, Scanned
<1> QED  BY <1>2, <1>7 DEF FatInd, FatIInv, Phases

(* f_open_create keeps the invariant.                                      *)
LEMMA Keep_f_open_create ==
    ASSUME FatInd, NEW n \in Names, f_open_create(n)
    PROVE  FatInd'
<1>1. /\ Begin /\ ~fp.open /\ fp' = fp
      /\ call' = [NoCall EXCEPT !.fn = "f_open_create", !.pc = "find", !.name = n, !.i = 1]
      /\ may' = MayAdds(may, n, {{<<>>}})
  BY DEF f_open_create, f_open, MayAdds
<1>2. call' = CallRec("f_open_create", "find", n, NoName, 1, 0, Never, 0, 0, 0, 0, 0, <<>>)
  BY ONLY <1>1, CallStarts
<1>3. Told({{<<>>}})  BY NoBytes DEF Told
<1>4. MayOk(may)  BY MayIs DEF FatInd, FatIInv, Base
<1>5. /\ MayOk(may') /\ may'[n] = may[n] \cup {{<<>>}}
      /\ \A a \in Names : may[a] \subseteq may'[a]
  BY <1>1, <1>3, <1>4, MayAdd
<1>6. MayType'  BY <1>5, MayIsNext
<1> QED  BY <1>1, <1>2, <1>5, <1>6, Finding

(* f_open_read keeps the invariant.                                        *)
LEMMA Keep_f_open_read ==
    ASSUME FatInd, NEW n \in Names, f_open_read(n)
    PROVE  FatInd'
<1>1. /\ Begin /\ ~fp.open /\ fp' = fp /\ may' = may
      /\ call' = [NoCall EXCEPT !.fn = "f_open_read", !.pc = "find", !.name = n, !.i = 1]
  BY DEF f_open_read, f_open
<1>2. call' = CallRec("f_open_read", "find", n, NoName, 1, 0, Never, 0, 0, 0, 0, 0, <<>>)
  BY ONLY <1>1, CallStarts
<1>3. MayType'  BY <1>1 DEF FatInd, FatIInv, Base, MayType
<1> QED  BY <1>1, <1>2, <1>3, Finding

(* f_unlink keeps the invariant.                                           *)
LEMMA Keep_f_unlink ==
    ASSUME FatInd, NEW n \in Names, f_unlink(n)
    PROVE  FatInd'
<1>1. /\ Begin /\ ~fp.open /\ fp' = fp /\ may' = may
      /\ call' = [NoCall EXCEPT !.fn = "f_unlink", !.pc = "find", !.name = n, !.i = 1]
  BY DEF f_unlink, f_open
<1>2. call' = CallRec("f_unlink", "find", n, NoName, 1, 0, Never, 0, 0, 0, 0, 0, <<>>)
  BY ONLY <1>1, CallStarts
<1>3. MayType'  BY <1>1 DEF FatInd, FatIInv, Base, MayType
<1> QED  BY <1>1, <1>2, <1>3, Finding

(* f_rename keeps the invariant.                                           *)
LEMMA Keep_f_rename ==
    ASSUME FatInd, NEW old \in Names, NEW new \in Names, f_rename(old, new)
    PROVE  FatInd'
<1>1. /\ Begin /\ ~fp.open /\ fp' = fp /\ may' = may /\ old # new
      /\ call' = [NoCall EXCEPT !.fn = "f_rename", !.pc = "find", !.name = old, !.new = new, !.i = 1]
  BY DEF f_rename
<1>2. call' = CallRec("f_rename", "find", old, new, 1, 0, Never, 0, 0, 0, 0, 0, <<>>)
  BY ONLY <1>1, CallStarts
<1>3. MayType'  BY <1>1 DEF FatInd, FatIInv, Base, MayType
<1> QED  BY <1>1, <1>2, <1>3, Finding

(* What a file being written keeps when neither it nor the card changes.   *)
LEMMA WrittenStill ==
    ASSUME Written, fp' = fp, ViewImg' = ViewImg, CardImg' = CardImg, moving' = moving,
           fs' = fs, faults' = faults
    PROVE  /\ Written'
           /\ Complete => Complete'
           /\ Owns({0}) => Owns({0})'
           /\ Owns({1}) => Owns({1})'
           /\ Owns({0, 1}) => Owns({0, 1})'
<1>1. Written'
  BY DEF Written, FileOpen, IsFp, Lossless
<1>2. ASSUME NEW k, NEW p PROVE Own(p, k) => Own(p, k)'
  BY DEF Own
<1>3. ASSUME NEW M, Owns(M) PROVE Owns(M)'
  <2> PICK k \in 0 .. LastCluster : \E p \in [1 .. k -> Clusters] :
        Own(p, k) /\ k \in {Nth(fp.fptr) + n : n \in M}
    BY <1>3 DEF Owns
  <2> PICK p \in [1 .. k -> Clusters] : Own(p, k) /\ k \in {Nth(fp.fptr) + n : n \in M}
    OBVIOUS
  <2>1. Own(p, k)' /\ k \in {Nth(fp'.fptr) + n : n \in M}  BY <1>2
  <2> QED  BY <2>1 DEF Owns
<1> QED  BY <1>1, <1>3 DEF Complete

(* f_write keeps the invariant.                                            *)
LEMMA Keep_f_write ==
    ASSUME FatInd, NEW w \in Writes, f_write(w[1], w[2])
    PROVE  FatInd'
<1> PICK n, tok : n = w[1] /\ tok = w[2]  OBVIOUS
<1>0. n \in Nat /\ tok \in Bytes  BY FatFsAssumption
<1>1. /\ Begin /\ fp.open /\ fp.write /\ fp.err = "OK" /\ fp' = fp /\ may' = may
      /\ call' = [NoCall EXCEPT !.fn = "f_write", !.pc = "round", !.btw = n, !.left = n, !.tok = tok]
  BY DEF f_write
<1>2. call' = CallRec("f_write", "round", NoName, NoName, 0, 0, Never, 0, 0, n, n, tok, <<>>)
  BY ONLY <1>1, CallStarts
<1>3. MayType' /\ \A a \in Names : may[a] \subseteq may'[a]
  BY <1>1 DEF FatInd, FatIInv, Base, MayType
<1>4. /\ IsCall'
      /\ call'.fn = "f_write" /\ call'.pc = "round" /\ call'.btw = n /\ call'.left = n /\ call'.tok = tok
  BY <1>2, Started
<1>5. /\ FsSound' /\ Base' /\ ViewImg' = ViewImg /\ CardImg' = CardImg /\ Calling'
      /\ fs' = fs /\ faults' = faults /\ moving' = {} /\ moving = {} /\ call.pc = "idle"
  BY <1>1, <1>3, <1>4, Begun
<1>6. WriteOpen  BY <1>1, <1>5, IdleIs
<1>7. Written' /\ Complete' /\ Owns({0})' /\ fp'.err = "OK"
  BY <1>1, <1>5, <1>6, WrittenStill DEF WriteOpen
<1>8. Round'  BY <1>0, <1>4, <1>5, <1>7 DEF Round, WriteCall
<1> QED  BY <1>5, <1>8 DEF FatInd, FatIInv, Phases

(* f_read keeps the invariant.                                             *)
LEMMA Keep_f_read ==
    ASSUME FatInd, f_read
    PROVE  FatInd'
<1>1. /\ Begin /\ fp.open /\ ~fp.write /\ fp.fptr = 0 /\ fp' = fp /\ may' = may
      /\ call' = [NoCall EXCEPT !.fn = "f_read", !.pc = "read"]
  BY DEF f_read
<1>2. call' = CallRec("f_read", "read", NoName, NoName, 0, 0, Never, 0, 0, 0, 0, 0, <<>>)
  BY ONLY <1>1, CallStarts
<1>3. MayType' /\ \A a \in Names : may[a] \subseteq may'[a]
  BY <1>1 DEF FatInd, FatIInv, Base, MayType
<1>4. /\ IsCall'
      /\ call'.fn = "f_read" /\ call'.pc = "read" /\ call'.got = <<>>
  BY <1>2, Started
<1>5. /\ FsSound' /\ Base' /\ ViewImg' = ViewImg /\ CardImg' = CardImg /\ Calling'
      /\ fs' = fs /\ faults' = faults /\ moving' = {} /\ moving = {} /\ call.pc = "idle"
  BY <1>1, <1>3, <1>4, Begun
<1>6. ReadOpen  BY <1>1, <1>5, IdleIs
<1>7. ReadCtx'  BY <1>1, <1>5, <1>6 DEF ReadOpen, ReadCtx, FileOpen, IsFp, Clean, Quiet
<1>8. PICK x \in UNION may[fp.name] :
         Reading(x) /\ Carries(ViewImg.fat, ViewImg.data, fp.sclust, fp.objsize, x)
  BY <1>6 DEF ReadOpen
<1>9. fp.fptr <= fp.objsize /\ fp.objsize \in Nat  BY <1>1, <1>6 DEF ReadOpen, ReadCtx, FileOpen
<1>10. 0 % SectorSize = 0
  <2>1. SectorSize \in Nat \ {0}  BY Sizes
  <2> QED  BY ONLY <2>1
<1>11. call'.got = SubSeq(x, 1, fp'.fptr)
  <2>1. SubSeq(x, 1, 0) = <<>>  OBVIOUS
  <2> QED  BY <1>1, <1>4, <2>1
<1>12. fp.objsize > 0 =>
               \E q \in [1 .. Nth(fp.objsize) -> Clusters] :
                  Bears(ViewImg.fat, ViewImg.data, q, fp.sclust, fp.objsize, x)
  BY <1>8 DEF Carries
<1>13. Read'
  <2>1. fp'.fptr = 0 /\ fp'.objsize = fp.objsize /\ fp'.name = fp.name /\ fp'.sclust = fp.sclust  BY <1>1
  <2>2. fp'.fptr <= fp'.objsize /\ (fp'.fptr < fp'.objsize => fp'.fptr % SectorSize = 0)
    BY <1>9, <1>10, <2>1
  <2>3. x \in UNION may'[fp'.name] /\ Reading(x)'  BY <1>1, <1>8 DEF Reading
  <2>4. fp'.objsize > 0 =>
               \E q \in [1 .. Nth(fp'.objsize) -> Clusters] :
                  /\ Bears(ViewImg'.fat, ViewImg'.data, q, fp'.sclust, fp'.objsize, x)
                  /\ fp'.fptr > 0 => fp'.clust = q[Nth(fp'.fptr)]
    BY <1>5, <1>12, <2>1
  <2> QED  BY <1>4, <1>5, <1>7, <1>11, <2>2, <2>3, <2>4 DEF Read
<1> QED  BY <1>5, <1>13 DEF FatInd, FatIInv, Phases

(* f_close keeps the invariant.                                            *)
LEMMA Keep_f_close ==
    ASSUME FatInd, f_close
    PROVE  FatInd'
<1>1. /\ fs.mounted /\ call.pc = "idle" /\ fp.open /\ fp.write
      /\ call' = [NoCall EXCEPT !.fn = "f_close", !.pc = "flush"]
      /\ may' = MayAdds(may, fp.name, {{fp.bytes}})
      /\ reply' = NoReply
      /\ disk' = disk /\ fs' = fs /\ fp' = fp /\ moving' = moving /\ faults' = faults
  BY DEF f_close, MayAdds
<1>2. call' = CallRec("f_close", "flush", NoName, NoName, 0, 0, Never, 0, 0, 0, 0, 0, <<>>)
  BY ONLY <1>1, CallStarts
<1>3. IsCall' /\ call'.fn = "f_close" /\ call'.pc = "flush"
  BY <1>2, Started
<1>4. WriteOpen  BY <1>1, IdleIs
<1>5. Written /\ moving = {}  BY <1>4 DEF WriteOpen, Written
<1> PICK n, x : n = fp.name /\ x = fp.bytes  OBVIOUS
<1>6. n \in Names /\ x \in Octets  BY <1>5 DEF Written, FileOpen
<1>7. Told({{x}})  BY <1>6 DEF Told
<1>8. MayOk(may)  BY MayIs DEF FatInd, FatIInv, Base
<1>9. /\ MayOk(may') /\ may'[n] = may[n] \cup {{x}}
      /\ \A a \in Names : may[a] \subseteq may'[a]
  <2> PICK T : T = {{x}}  OBVIOUS
  <2>1. may' = MayAdds(may, n, T) /\ Told(T)  BY <1>1, <1>7
  <2>2. n \in Names  BY <1>6
  <2>3. /\ MayOk(may') /\ may'[n] = may[n] \cup T
        /\ \A a \in Names : may[a] \subseteq may'[a]
    BY ONLY <1>8, <2>1, <2>2, MayAdd
  <2> QED  BY <2>3
<1>10. MayType'  BY <1>9, MayIsNext
<1>11. Good(ViewImg, may', moving') /\ Good(CardImg, may', moving')
  <2>1. ViewImg \in Imgs /\ CardImg \in Imgs  BY ImgsNow DEF FatInd
  <2>2. Good(ViewImg, may, {}) /\ Good(CardImg, may, {})  BY <1>5 DEF FatInd, FatIInv, Base
  <2>3. ASSUME NEW v \in Imgs, Good(v, may, {}) PROVE Good(v, may', {})
    <3>1. Whole(v, {}) /\ Single(v)  BY <2>3 DEF Good
    <3> QED  BY <1>9, <2>3, <3>1, GoodMay
  <2> QED  BY <1>1, <1>5, <2>1, <2>2, <2>3
<1>12. RepliesHonest'  BY <1>1, NoReplyNext
<1>13. FsSound' /\ Base' /\ ViewImg' = ViewImg /\ CardImg' = CardImg
  BY <1>1, <1>3, <1>10, <1>11, <1>12, Still
<1>14. Written' /\ Owns({0, 1})'
  BY <1>1, <1>4, <1>5, <1>13, WrittenStill DEF WriteOpen
<1>15. Closing'
  BY <1>1, <1>3, <1>9 DEF Closing, Calling
<1>16. FlushLast'  BY <1>3, <1>14, <1>15 DEF FlushLast
<1> QED  BY <1>13, <1>16 DEF FatInd, FatIInv, Phases

(* f_close_read keeps the invariant.                                       *)
LEMMA Keep_f_close_read ==
    ASSUME FatInd, f_close_read
    PROVE  FatInd'
<1>1. /\ fs.mounted /\ call.pc = "idle" /\ fp.open /\ ~fp.write
      /\ fp' = NoFp /\ reply' = NoReply /\ call' = call
      /\ disk' = disk /\ fs' = fs /\ may' = may /\ moving' = moving /\ faults' = faults
  BY DEF f_close_read
<1>2. ReadOpen  BY <1>1, IdleIs
<1>3. Base  BY DEF FatInd, FatIInv
<1>4. MayType' /\ IsCall' /\ RepliesHonest'  BY <1>1, <1>3, NoReplyNext DEF Base, MayType, IsCall
<1>5. FsSound' /\ Base' /\ ViewImg' = ViewImg
  BY <1>1, <1>3, <1>4, Still DEF Base
<1>6. Rest'
  BY <1>1, <1>2, <1>5 DEF ReadOpen, ReadCtx, Rest, Closed, Clean, Quiet
<1> QED  BY <1>5, <1>6 DEF FatInd, FatIInv, Phases

(* Nothing happens.                                                        *)
LEMMA Keep_Nothing ==
    ASSUME FatInd, UNCHANGED fat_vars
    PROVE  FatInd'
<1>1. /\ disk' = disk /\ fs' = fs /\ fp' = fp /\ call' = call /\ may' = may /\ reply' = reply
      /\ moving' = moving /\ faults' = faults
  BY DEF fat_vars
<1>2. Base  BY DEF FatInd, FatIInv
<1>3. View' = View  BY <1>1 DEF View
<1>4. MayType' /\ IsCall' /\ RepliesHonest'
  BY <1>1, <1>2, <1>3 DEF Base, MayType, IsCall, RepliesHonest
<1>5. FsSound' /\ Base' /\ ViewImg' = ViewImg /\ CardImg' = CardImg
  BY <1>1, <1>2, <1>4, Still DEF Base
<1>6. Phases'
  <2>1. Phases  BY DEF FatInd, FatIInv
  <2>2. /\ Calling => Calling'
        /\ Closed => Closed'
        /\ Clean => Clean'
        /\ \A S : Lossless(S) => Lossless(S)'
        /\ \A n : Scanned(n) => Scanned(n)'
        /\ OnBoundary => OnBoundary'
    BY <1>1, <1>5 DEF Calling, Closed, Clean, Quiet, Lossless, Scanned, OnBoundary
  <2>3. /\ Old => Old'
        /\ Emptying => Emptying'
        /\ Gone => Gone'
    BY <1>1, <1>5 DEF Old, Emptying, Gone
  <2>4. MoveCtx => MoveCtx'
    BY <1>1, <1>5, <2>2 DEF MoveCtx
  <2>5. Rest => Rest'  BY <1>1, <2>2 DEF Rest
  <2>6. Find => Find'  BY <1>1, <1>5, <2>2 DEF Find
  <2>7. FindNew => FindNew'  BY <1>1, <1>5, <2>2, <2>3 DEF FindNew
  <2>8. Alloc => Alloc'  BY <1>1, <1>5, <2>2, <2>3 DEF Alloc
  <2>9. FreePhase => FreePhase'  BY <1>1, <1>5, <2>2, <2>3 DEF FreePhase, Lossless
  <2>10. Back => Back'  BY <1>1, <1>5, <2>2, <2>3 DEF Back
  <2>11. Move => Move'  BY <1>1, <1>5, <2>2, <2>4 DEF Move
  <2>12. SyncRename => SyncRename'  BY <1>1, <1>5, <2>2, <2>4 DEF SyncRename
  <2>13. SyncUnlink => SyncUnlink'  BY <1>1, <1>5, <2>2, <2>3 DEF SyncUnlink
  <2>14. Written => /\ Written' /\ (Complete => Complete') /\ (Owns({0}) => Owns({0})')
                    /\ (Owns({1}) => Owns({1})') /\ (Owns({0, 1}) => Owns({0, 1})')
    BY <1>1, <1>5, WrittenStill
  <2>15. WriteOpen => WriteOpen'  BY <1>1, <2>14 DEF WriteOpen
  <2>16. WriteCall => WriteCall' /\ Written  BY <1>1, <2>2, <2>14 DEF WriteCall
  <2>17. AtSector => AtSector' /\ Written  BY <1>1, <2>2, <2>16 DEF AtSector
  <2>18. /\ Round => Round'
         /\ Following => Following'
         /\ Trying => Trying'
    BY <1>1, <2>14, <2>16, <2>17 DEF Round, Following, Trying
  <2>19. Search => Search'
    BY <1>1, <1>5, <2>14, <2>17 DEF Search, Covered
  <2>20. /\ Claiming => Claiming'
         /\ Flushing => Flushing'
         /\ Storing => Storing'
    BY <1>1, <1>5, <2>14, <2>17 DEF Claiming, Flushing, Storing
  <2>21. Closing => Closing'  BY <1>1, <2>2 DEF Closing
  <2>22. /\ FlushLast => FlushLast'
         /\ EntryPhase => EntryPhase'
    BY <1>1, <2>14, <2>21 DEF FlushLast, EntryPhase
  <2>23. SyncClose => SyncClose'
    BY <1>1, <1>5, <2>2, <2>21 DEF SyncClose, FileOpen, IsFp
  <2>24. ReadCtx => ReadCtx'
    BY <1>1, <2>2 DEF ReadCtx, FileOpen, IsFp
  <2>25. ReadOpen => ReadOpen'
    BY <1>1, <1>5, <2>24 DEF ReadOpen, Reading
  <2>26. Read => Read'
    BY <1>1, <1>5, <2>2, <2>24 DEF Read, Reading
  <2> QED  BY <2>1, <2>5, <2>6, <2>7, <2>8, <2>9, <2>10, <2>11, <2>12, <2>13, <2>15, <2>18, <2>19,
              <2>20, <2>22, <2>23, <2>25, <2>26 DEF Phases
<1> QED  BY <1>5, <1>6 DEF FatInd, FatIInv

(* A record whose result is OK.                                            *)
LEMMA OkSame ==
    ASSUME NEW m, IsRec(m), ResOf(m) = "OK"
    PROVE  Ok(m) = m
<1> PICK w : w = Ok(m)  OBVIOUS
<1>1. Fields(w, DiskOf(m), WinOf(m), SectOf(m), FlagOf(m), HintOf(m), InfoOf(m),
             "OK", ValOf(m), FuseOf(m), FaultOf(m), OffOf(m))
  BY UpdOk
<1>2. w = Rec(DiskOf(m), WinOf(m), SectOf(m), FlagOf(m), HintOf(m), InfoOf(m),
             "OK", ValOf(m), FuseOf(m), FaultOf(m), OffOf(m))
  BY <1>1 DEF Fields, IsRec
<1>3. m = Rec(DiskOf(m), WinOf(m), SectOf(m), FlagOf(m), HintOf(m), InfoOf(m),
             "OK", ValOf(m), FuseOf(m), FaultOf(m), OffOf(m))
  BY DEF IsRec
<1> QED  BY <1>2, <1>3

(* A step goes on when nothing failed and the power is on.                 *)
LEMMA GoesIs ==
    ASSUME NEW m
    PROVE  Goes(m) <=> ResOf(m) = "OK" /\ ~OffOf(m)
BY DEF Goes, ResOf, OffOf

(* An entry is changed in the window.                                      *)
LEMMA PokePasses ==
    ASSUME NEW m, SoundRec(m), OffOf(m) = FALSE, NEW i \in 1 .. Slots, SectOf(m) = DirSector(i),
           NEW x \in DirEntries, NEW w, w = Poke(m, i, x), NEW v, v = SetDir(Seen(m), i, x)
    PROVE  /\ Passes(m, w, {v}) /\ Seen(w) = v /\ SoundRec(w) /\ Card(w) = Card(m)
           /\ ResOf(w) = "OK" /\ OffOf(w) = FALSE /\ SectOf(w) = DirSector(i)
           /\ FuseOf(w) = FuseOf(m)
<1>1. AtSect(m, DirSector(i))  BY DEF AtSect
<1>2. /\ SoundRec(w)
      /\ DiskOf(w) = DiskOf(m) /\ Card(w) = Card(m)
      /\ ~OffOf(m) => Seen(w) = SetDir(Seen(m), i, x)
      /\ ResOf(w) = "OK" /\ SectOf(w) = SectOf(m)
      /\ FuseOf(w) = FuseOf(m) /\ FaultOf(w) = FaultOf(m) /\ OffOf(w) = OffOf(m)
  BY <1>1, PokeDir
<1>3. Passes(m, w, {v})  BY <1>2 DEF Passes
<1> QED  BY <1>2, <1>3

(* The slot looked at is changed.                                          *)
ShowsAt(m, i, x) == WinOf(m)[i] = x
SameFat(v, w) == v.fat = w.fat
Changes(f, i, m, x, w, v) ==
    /\ f \in Faults /\ i \in 1 .. Slots /\ i = call.i /\ m = Looked(f) /\ Goes(m)
    /\ x \in DirEntries /\ w = Poke(m, i, x) /\ v = SetDir(ViewImg, i, x)
(* The slot looked at is changed in the window, the card not yet.          *)
LEMMA LookPoke ==
    ASSUME FatInd, NEW f, NEW i, NEW m, NEW x, NEW w, NEW v, Changes(f, i, m, x, w, v)
    PROVE  /\ Passes(Start(f), w, {ViewImg, v}) /\ Struck(f, w) /\ Goes(w)
           /\ Seen(w) = v /\ SoundRec(w) /\ OffOf(w) = FALSE
           /\ SectOf(w) = DirSector(i) /\ ShowsAt(w, i, x)
           /\ SameFat(v, Card(w))
<1>0. /\ f \in Faults /\ i \in 1 .. Slots /\ i = call.i /\ m = Looked(f) /\ Goes(m)
      /\ x \in DirEntries /\ w = Poke(m, i, x) /\ v = SetDir(ViewImg, i, x)
  BY DEF Changes
<1>1. /\ Passes(Start(f), m, {ViewImg}) /\ Struck(f, m)
      /\ WinOf(m)[i] = ViewImg.dir[i] /\ SectOf(m) = DirSector(i)
      /\ Seen(m) = ViewImg /\ SoundRec(m) /\ OffOf(m) = FALSE
  BY <1>0, LookedAt
<1>2. ResOf(m) = "OK"  BY <1>0, GoesIs
<1>3. Ok(m) = m  BY <1>1, <1>2, OkSame DEF SoundRec, Shaped
<1>4. w = Poke(m, i, x)  BY <1>0
<1>5. /\ Passes(m, w, {v}) /\ Seen(w) = v /\ SoundRec(w)
      /\ ResOf(w) = "OK" /\ OffOf(w) = FALSE /\ SectOf(w) = DirSector(i)
  <2>1. v = SetDir(Seen(m), i, x)  BY <1>0, <1>1
  <2>2. i \in 1 .. Slots /\ x \in DirEntries  BY <1>0
  <2> QED  BY ONLY <1>1, <1>4, <2>1, <2>2, PokePasses
<1>6. SoundRec(Start(f))  BY <1>0, StartSound DEF FatInd
<1>7. Passes(Start(f), w, {ViewImg, v})
  <2> PICK s, W : s = Start(f) /\ W = {ViewImg, v}  OBVIOUS
  <2>1. {ViewImg} \subseteq W /\ {v} \subseteq W  OBVIOUS
  <2>2. SoundRec(s) /\ Passes(s, m, {ViewImg})  BY <1>1, <1>6
  <2>3. Passes(s, w, W)  BY ONLY <1>5, <2>1, <2>2, PassesThen
  <2> QED  BY <2>3
<1>8. ViewImg \in Imgs  BY ImgsNow DEF FatInd
<1>9. v.dir[i] = x  BY <1>0, <1>8, SetFields
<1>10. WinOf(w)[i] = x
  <2>1. WinOf(w)[i] = Seen(w).dir[i]  BY <1>0, <1>5, WindowShows
  <2> QED  BY <1>5, <1>9, <2>1
<1>11. DirSector(i) \in DirSectors  BY <1>0, SectorKinds
<1>12. v.fat = Card(w).fat  BY <1>5, <1>11, WindowShows
<1> QED  BY <1>5, <1>7, <1>10, <1>12, GoesIs DEF Struck, ShowsAt, SameFat

(* The window is there already.                                            *)
LEMMA LookPut ==
    ASSUME FatInd, NEW f \in Faults, NEW i \in 1 .. Slots, i = call.i, NEW m, m = Looked(f), Goes(m),
           NEW x
    PROVE  DirPut(m, i, x) = Poke(m, i, x)
<1>1. SectOf(m) = DirSector(i) /\ SoundRec(m)
  BY LookedAt
<1>2. ResOf(m) = "OK"  BY GoesIs
<1>3. Ok(m) = m  BY <1>1, <1>2, OkSame DEF SoundRec, Shaped
<1>4. DirSector(i) = m.winsect  BY <1>1 DEF SectOf
<1>5. move_window(m, DirSector(i)) = m  BY <1>3, <1>4 DEF move_window
<1>6. m.res = "OK"  BY <1>2 DEF ResOf
<1> QED  BY <1>5, <1>6 DEF DirPut, Then

(* An empty file takes no sector.                                          *)
LEMMA NthZero == Nth(0) = 0 /\ 0 % SectorSize = 0
<1> PICK s : s = SectorSize  OBVIOUS
<1>1. s \in Nat \ {0}  BY Sizes
<1>2. (0 - 1) \div s = -1 /\ 0 % s = 0  BY ONLY <1>1
<1> QED  BY <1>2 DEF Nth

(* A file is open for writing, with nothing in it yet.                     *)
LEMMA FreshOpen ==
    ASSUME NEW n \in Names, NEW i \in 1 .. Slots, fp' = FileObject(File(n, 0, 0), i, TRUE),
           call' = NoCall, moving' = {}, fs'.mounted, ViewImg' \in Imgs,
           ViewImg'.dir[i] = File(n, 0, 0), ViewImg'.fat = CardImg'.fat, Lossless({})'
    PROVE  WriteOpen'
<1> PICK e : e = File(n, 0, 0)  OBVIOUS
<1>1. 0 \in {0} \cup Clusters /\ 0 \in Nat  OBVIOUS
<1>2. /\ FileOpen(TRUE)'
      /\ fp'.name = n /\ fp'.slot = i /\ fp'.sclust = 0 /\ fp'.objsize = 0 /\ fp'.fptr = 0
      /\ fp'.clust = 0 /\ fp'.dirty = FALSE /\ fp'.bytes = <<>> /\ fp'.err = "OK"
  <2>1. fp' = FileObject(e, i, TRUE)  OBVIOUS
  <2> QED  BY ONLY <1>1, <2>1, n \in Names, i \in 1 .. Slots, e = File(n, 0, 0), ObjectIs
<1>3. Lossless({fp.sclust})'  BY DEF Lossless
<1>4. Len(<<>>) = 0  OBVIOUS
<1>5. Written'  BY <1>2, <1>3, <1>4 DEF Written
<1>6. Complete'  BY <1>2, NthZero DEF Complete
<1>7. Owns({0})' /\ Owns({0, 1})'
  <2> PICK p : p = [j \in 1 .. 0 |-> 2]  OBVIOUS
  <2>1. p \in [1 .. 0 -> Clusters] /\ Span(p, 0) = {}  BY DEF Span
  <2>2. \A v : Apart(v, Span(p, 0))  <3> SUFFICES ASSUME NEW v PROVE Apart(v, {})  BY <2>1
    <3> QED  BY DEF Apart
  <2>3. Chain(ViewImg, p, 0)'  BY <2>1 DEF Chain
  <2>4. Held(ViewImg.data, p, fp.fptr, fp.buf, fp.dirty, fp.bytes)'
    <3> PICK z : z = fp'.fptr  OBVIOUS
    <3>0. z = 0  BY <1>2
    <3>1. 1 .. z = {}  BY ONLY <3>0
    <3> QED  BY <3>1 DEF Held
  <2>5. Own(p, 0)'  BY <1>2, <2>2, <2>3, <2>4, NthZero DEF Own
  <2>6. 0 \in {Nth(fp'.fptr) + z : z \in {0}} /\ 0 \in {Nth(fp'.fptr) + z : z \in {0, 1}}
    <3>1. Nth(fp'.fptr) = 0  BY <1>2, NthZero
    <3>2. 0 + 0 = 0 /\ 0 \in {0} /\ 0 \in {0, 1}  OBVIOUS
    <3> QED  BY ONLY <3>1, <3>2
  <2>7. 0 \in 0 .. LastCluster  BY Sizes
  <2> QED  BY <2>1, <2>5, <2>6, <2>7 DEF Owns
<1> QED  BY <1>2, <1>5, <1>6, <1>7 DEF WriteOpen

(* Overwrite keeps the invariant.                                          *)
LEMMA Keep_Overwrite ==
    ASSUME FatInd, Overwrite
    PROVE  FatInd'
<1>0. Scanning /\ call.pc = "find" /\ call.fn = "f_open_create"  BY DEF Overwrite, Scanning
<1>1. /\ Calling /\ Clean /\ Closed /\ moving = {} /\ call.i \in 1 .. Slots
      /\ MayType /\ IsCall
  BY <1>0, ScanFacts
<1> PICK f \in Faults : \E m \in {Looked(f)} :
          LET e == m.win[call.i]
              t == Emptied(m, call.i)
          IN  /\ Hit(m) /\ Step(t, f)
              /\ \/ e.clust = 0 /\ Opened(t.win[call.i], call.i, TRUE)
                 \/ /\ e.clust # 0
                    /\ GoesOn([call EXCEPT !.pc = "free", !.dir = call.i, !.e = e, !.clst = e.clust])
  BY DEF Overwrite
<1> PICK m : /\ m = Looked(f) /\ Hit(m) /\ Step(Emptied(m, call.i), f)
             /\ \/ m.win[call.i].clust = 0 /\ Opened(Emptied(m, call.i).win[call.i], call.i, TRUE)
                \/ /\ m.win[call.i].clust # 0
                   /\ GoesOn([call EXCEPT !.pc = "free", !.dir = call.i, !.e = m.win[call.i],
                                          !.clst = m.win[call.i].clust])
  OBVIOUS
<1> PICK v, i, e, n : v = ViewImg /\ i = call.i /\ e = ViewImg.dir[call.i] /\ n = call.name  OBVIOUS
<1>2. Goes(m)  BY DEF Hit
<1>3. WinOf(m)[call.i] = e
  BY <1>1, <1>2, LookedAt
<1>4. m.win[call.i] = e /\ IsFile(e) /\ e.name = n
  BY <1>0, <1>2, <1>3, HitIs
<1>5. Find  BY <1>0, PhaseAt
<1>6. n \in Names /\ {<<>>} \in may[n]  BY <1>0, <1>5 DEF Find
<1>7. v \in Imgs /\ CardImg \in Imgs  BY ImgsNow DEF FatInd
<1>8. i \in 1 .. Slots /\ i \in Files(v) /\ v.dir[i] = e  BY <1>1, <1>4 DEF Files
<1> PICK x, t, w : x = File(n, 0, 0) /\ t = Poke(m, i, x) /\ w = SetDir(v, i, x)  OBVIOUS
<1>9. x \in DirEntries  BY <1>6, EntryFields
<1>10. Emptied(m, call.i) = t  BY <1>4 DEF Emptied
<1>11. /\ Passes(Start(f), t, {v, w}) /\ Struck(f, t) /\ Goes(t)
       /\ Seen(t) = w /\ SoundRec(t) /\ OffOf(t) = FALSE
       /\ SectOf(t) = DirSector(i) /\ WinOf(t)[i] = x
       /\ w.fat = Card(t).fat
  <2>1. f \in Faults /\ i = call.i /\ m = Looked(f) /\ FatInd  OBVIOUS
  <2>2. w = SetDir(ViewImg, i, x)  OBVIOUS
  <2>3. t = Poke(m, i, x)  OBVIOUS
  <2>4. i \in 1 .. Slots  BY <1>8
  <2>5. /\ Passes(Start(f), t, {ViewImg, w}) /\ Struck(f, t) /\ Goes(t)
        /\ Seen(t) = w /\ SoundRec(t) /\ OffOf(t) = FALSE
        /\ SectOf(t) = DirSector(i) /\ ShowsAt(t, i, x)
        /\ SameFat(w, Card(t))
    <3>1. Changes(f, i, m, x, t, w)
      BY ONLY <1>2, <1>9, <2>1, <2>2, <2>3, <2>4 DEF Changes
    <3> QED  BY ONLY <2>1, <3>1, LookPoke
  <2> QED  BY <2>5 DEF ShowsAt, SameFat
<1>12. Good(v, may, {}) /\ Good(CardImg, may, {})  BY <1>1 DEF FatInd, FatIInv, Base
<1>13. LetsGo(v, i, x, may)  BY <1>4, <1>6, <1>8 DEF LetsGo
<1>14. /\ Good(w, may, {}) /\ w \in Imgs /\ w.fat = v.fat /\ w.dir[i] = x
       /\ v.dir[i].clust # 0 => v.dir[i].clust \in Clusters /\ NoRef(w, v.dir[i].clust)
       /\ Lost(w) \subseteq Lost(v) \cup {v.dir[i].clust}
  BY <1>7, <1>8, <1>12, <1>13, LetGoGood
<1>15. may' = may /\ reply' = reply /\ moving' = moving
  BY DEF Opened, GoesOn
<1>16. MayType' /\ RepliesHonest'
  BY <1>1, <1>15, NoReplyNext DEF MayType, Calling
<1>17. Honest({v, w}, may', moving') /\ Good(CardImg, may', moving')
  BY <1>1, <1>12, <1>14, <1>15 DEF Honest
<1>18. ASSUME IsCall'
       PROVE  /\ FsSound' /\ Base' /\ ViewImg' = w /\ fs'.mounted
              /\ CardImg' = Card(t) /\ (faults' = 0 => faults = 0)
  <2>1. Step(t, f)  BY <1>10
  <2>2. /\ FsSound' /\ Base'
        /\ Goes(t) => ViewImg' = Seen(t) /\ fs'.mounted = fs.mounted
        /\ CardImg' = Card(t)
        /\ faults' = 0 => faults = 0
    BY <1>11, <1>16, <1>17, <1>18, <2>1, StepBase
  <2> QED  BY <1>1, <1>11, <2>2 DEF Calling
<1>19. CASE /\ m.win[call.i].clust = 0 /\ Opened(Emptied(m, call.i).win[call.i], call.i, TRUE)
  <2>1. t.win[i] = x  BY <1>11 DEF WinOf
  <2>2. fp' = FileObject(x, i, TRUE) /\ call' = NoCall
    BY <1>10, <1>19, <2>1 DEF Opened
  <2>3. IsCall'  BY <2>2, NoCallIs
  <2>4. Lossless({})'
    <3>1. faults' = 0 => Lost(v) = {}  BY <1>1, <1>18, <2>3 DEF Clean, Quiet
    <3>2. Lost(w) \subseteq Lost(v) \cup {0}  BY <1>4, <1>8, <1>14, <1>19
    <3>3. 0 \notin Lost(w)  BY EntryFields DEF Lost
    <3> QED  BY <1>18, <2>3, <3>1, <3>2, <3>3 DEF Lossless
  <2>5. ViewImg'.dir[i] = File(n, 0, 0) /\ ViewImg'.fat = CardImg'.fat /\ ViewImg' \in Imgs
    BY <1>11, <1>14, <1>18, <2>3
  <2>6. moving' = {} /\ fs'.mounted  BY <1>1, <1>15, <1>18, <2>3
  <2>7. WriteOpen'  BY <1>6, <1>8, <2>2, <2>4, <2>5, <2>6, FreshOpen
  <2> QED  BY <1>18, <2>3, <2>7 DEF FatInd, FatIInv, Phases
<1>20. CASE /\ m.win[call.i].clust # 0
            /\ GoesOn([call EXCEPT !.pc = "free", !.dir = call.i, !.e = m.win[call.i],
                                   !.clst = m.win[call.i].clust])
  <2> PICK c : c = e.clust  OBVIOUS
  <2>1. call' = CallFree(e, c) /\ fp' = fp
    BY <1>4, <1>20 DEF GoesOn, CallFree
  <2>2. /\ IsCall'
        /\ call'.fn = call.fn /\ call'.pc = "free" /\ call'.name = call.name
        /\ call'.dir = call.i /\ call'.e = e /\ call'.clst = c
    BY <1>1, <2>1, CallFreeFields
  <2>3. c \in Clusters /\ NoRef(w, c) /\ Lost(w) \subseteq Lost(v) \cup {c}
    BY <1>4, <1>8, <1>14, <1>20
  <2>4. Lossless({c})'
    <3>1. faults' = 0 => Lost(v) = {}  BY <1>1, <1>18, <2>2 DEF Clean, Quiet
    <3> QED  BY <1>18, <2>2, <2>3, <3>1 DEF Lossless
  <2>5. Emptying'
    <3>1. e \in DirEntries  BY <1>7, <1>8, ImgFields
    <3> QED  BY <1>0, <1>4, <1>6, <1>8, <1>14, <1>18, <2>2, <3>1 DEF Emptying
  <2>6. Calling' /\ Closed' /\ moving' = {}
    BY <1>1, <1>15, <1>18, <2>1, <2>2 DEF Calling, Closed
  <2>7. FreePhase'
    <3>1. Lossless({call.clst})'  BY <2>2, <2>4 DEF Lossless
    <3> QED  BY <1>18, <2>2, <2>3, <2>5, <2>6, <3>1 DEF FreePhase
  <2> QED  BY <1>18, <2>2, <2>7 DEF FatInd, FatIInv, Phases
<1> QED  BY <1>19, <1>20

(* Unlink keeps the invariant.                                             *)
LEMMA Keep_Unlink ==
    ASSUME FatInd, Unlink
    PROVE  FatInd'
<1>0. Scanning /\ call.pc = "find" /\ call.fn = "f_unlink"  BY DEF Unlink, Scanning
<1>1. /\ Calling /\ Clean /\ Closed /\ moving = {} /\ call.i \in 1 .. Slots
      /\ MayType /\ IsCall
  BY <1>0, ScanFacts
<1> PICK f \in Faults : \E m \in {Looked(f)} :
          LET clust == m.win[call.i].clust
          IN  /\ Hit(m) /\ Step(dir_remove(m, call.i), f)
              /\ call' = [call EXCEPT !.pc = IF clust = 0 THEN "sync" ELSE "free", !.clst = clust]
              /\ may' = [may EXCEPT ![call.name] = @ \cup {{}}]
              /\ UNCHANGED <<fp, reply, moving>>
  BY DEF Unlink
<1> PICK m : /\ m = Looked(f) /\ Hit(m) /\ Step(dir_remove(m, call.i), f)
             /\ call' = [call EXCEPT !.pc = IF m.win[call.i].clust = 0 THEN "sync" ELSE "free",
                                     !.clst = m.win[call.i].clust]
             /\ may' = [may EXCEPT ![call.name] = @ \cup {{}}]
             /\ UNCHANGED <<fp, reply, moving>>
  OBVIOUS
<1> PICK v, i, e, n : v = ViewImg /\ i = call.i /\ e = ViewImg.dir[call.i] /\ n = call.name  OBVIOUS
<1>2. Goes(m)  BY DEF Hit
<1>3. WinOf(m)[call.i] = e
  BY <1>1, <1>2, LookedAt
<1>4. m.win[call.i] = e /\ IsFile(e) /\ e.name = n
  BY <1>0, <1>2, <1>3, HitIs
<1>5. Find  BY <1>0, PhaseAt
<1>6. n \in Names  BY <1>5 DEF Find
<1>7. v \in Imgs /\ CardImg \in Imgs  BY ImgsNow DEF FatInd
<1>8. i \in 1 .. Slots /\ i \in Files(v) /\ v.dir[i] = e  BY <1>1, <1>4 DEF Files
<1> PICK c, p, t, w : /\ c = e.clust /\ p = IF c = 0 THEN "sync" ELSE "free"
                      /\ t = DirPut(m, i, Deleted) /\ w = SetDir(v, i, Deleted)
  OBVIOUS
<1>9. Deleted \in DirEntries  BY EntryFields
<1>10. dir_remove(m, call.i) = t  BY DEF dir_remove, DirPut
<1>11. /\ Passes(Start(f), t, {v, w}) /\ Struck(f, t) /\ Goes(t)
       /\ Seen(t) = w /\ SoundRec(t) /\ OffOf(t) = FALSE
  <2>1. f \in Faults /\ i = call.i /\ m = Looked(f) /\ FatInd  OBVIOUS
  <2>2. w = SetDir(ViewImg, i, Deleted)  OBVIOUS
  <2>3. t = Poke(m, i, Deleted)
    <3>1. DirPut(m, i, Deleted) = Poke(m, i, Deleted)
      BY ONLY <1>2, <2>1, <1>8, LookPut
    <3> QED  BY <3>1
  <2>4. i \in 1 .. Slots  BY <1>8
  <2>5. /\ Passes(Start(f), t, {ViewImg, w}) /\ Struck(f, t) /\ Goes(t)
        /\ Seen(t) = w /\ SoundRec(t) /\ OffOf(t) = FALSE
        /\ SectOf(t) = DirSector(i) /\ ShowsAt(t, i, Deleted)
        /\ SameFat(w, Card(t))
    <3>1. Changes(f, i, m, Deleted, t, w)
      BY ONLY <1>2, <1>9, <2>1, <2>2, <2>3, <2>4 DEF Changes
    <3> QED  BY ONLY <2>1, <3>1, LookPoke
  <2> QED  BY <2>5 DEF ShowsAt, SameFat
<1>12. /\ call' = CallPcClst(p, c) /\ fp' = fp /\ reply' = reply /\ moving' = moving
       /\ may' = MayAdds(may, n, {{}})
  BY <1>4 DEF CallPcClst, MayAdds
<1>13. /\ IsCall'
       /\ call'.fn = call.fn /\ call'.pc = p /\ call'.name = call.name /\ call'.clst = c
  BY <1>1, <1>12, CallPcClstFields
<1>14. /\ MayOk(may') /\ may'[n] = may[n] \cup {{}}
       /\ \A a \in Names : may[a] \subseteq may'[a]
  <2>1. Told({{}}) /\ MayOk(may)  BY <1>1, MayIs DEF Told
  <2> PICK T : T = {{}}  OBVIOUS
  <2>2. may' = MayAdds(may, n, T) /\ Told(T)  BY <1>12, <2>1
  <2>3. /\ MayOk(may') /\ may'[n] = may[n] \cup T
        /\ \A a \in Names : may[a] \subseteq may'[a]
    BY ONLY <1>6, <2>1, <2>2, MayAdd
  <2> QED  BY ONLY <2>3, T = {{}}
<1>15. MayType' /\ RepliesHonest'
  BY <1>1, <1>12, <1>14, NoReplyNext, MayIsNext DEF Calling
<1>16. Good(v, may', {}) /\ Good(CardImg, may', {})
  <2>1. Good(v, may, {}) /\ Good(CardImg, may, {})  BY <1>1 DEF FatInd, FatIInv, Base
  <2>2. ASSUME NEW u \in Imgs, Good(u, may, {}) PROVE Good(u, may', {})
    <3>1. Whole(u, {}) /\ Single(u)  BY <2>2 DEF Good
    <3> QED  BY ONLY <1>14, <2>2, <3>1, GoodMay
  <2> QED  BY <1>7, <2>1, <2>2
<1>17. LetsGo(v, i, Deleted, may')  BY <1>4, <1>8, <1>14 DEF LetsGo
<1>18. /\ Good(w, may', {}) /\ w \in Imgs
       /\ v.dir[i].clust # 0 => v.dir[i].clust \in Clusters /\ NoRef(w, v.dir[i].clust)
       /\ Lost(w) \subseteq Lost(v) \cup {v.dir[i].clust}
       /\ ~Named(w, v.dir[i].name)
  BY <1>7, <1>8, <1>16, <1>17, LetGoGood
<1>19. /\ FsSound' /\ Base' /\ ViewImg' = w /\ fs'.mounted
       /\ (faults' = 0 => faults = 0)
  <2>1. Step(t, f)  BY <1>10
  <2>2. Honest({v, w}, may', moving') /\ Good(CardImg, may', moving')
    BY <1>1, <1>12, <1>16, <1>18 DEF Honest
  <2>3. /\ FsSound' /\ Base'
        /\ Goes(t) => ViewImg' = Seen(t) /\ fs'.mounted = fs.mounted
        /\ faults' = 0 => faults = 0
    BY <1>11, <1>13, <1>15, <2>1, <2>2, StepBase
  <2> QED  BY <1>1, <1>11, <2>3 DEF Calling
<1>20. Calling' /\ Closed' /\ moving' = {}
  BY <1>1, <1>12, <1>19 DEF Calling, Closed
<1>21. Gone'
  BY <1>0, <1>4, <1>6, <1>8, <1>13, <1>14, <1>18, <1>19 DEF Gone
<1>22. Lossless({c})' /\ (c = 0 => Lossless({})')
  <2>1. faults' = 0 => Lost(v) = {}  BY <1>1, <1>19 DEF Clean, Quiet
  <2>2. 0 \notin Lost(w)  BY EntryFields DEF Lost
  <2> QED  BY <1>8, <1>18, <1>19, <2>1, <2>2 DEF Lossless
<1>23. CASE c = 0
  <2>1. SyncUnlink'  BY <1>13, <1>20, <1>21, <1>22, <1>23 DEF SyncUnlink
  <2> QED  BY <1>19, <2>1 DEF FatInd, FatIInv, Phases
<1>24. CASE c # 0
  <2>1. Lossless({call.clst})'  BY <1>13, <1>22 DEF Lossless
  <2>2. FreePhase'  BY <1>8, <1>13, <1>18, <1>19, <1>20, <1>21, <1>24, <2>1 DEF FreePhase
  <2> QED  BY <1>19, <2>2 DEF FatInd, FatIInv, Phases
<1> QED  BY <1>23, <1>24

(* A second entry of a file: what the names may hold.                      *)
MayMoves(m2, m, old, new) ==
    /\ MayOk(m2) /\ m2[new] = m[new] \cup m[old] \cup {{<<>>}} /\ m2[old] = m[old] \cup {{}}
    /\ \A a \in Names : m[a] \subseteq m2[a]
(* What the names of a rename may hold while both have an entry.           *)
LEMMA MayMove ==
    ASSUME MayOk(may), NEW old \in Names, NEW new \in Names, old # new, NEW m2,
           m2 = [may EXCEPT ![new] = @ \cup may[old] \cup {{<<>>}}, ![old] = @ \cup {{}}]
    PROVE  MayMoves(m2, may, old, new)
<1> PICK T, U : T = may[new] \cup may[old] \cup {{<<>>}} /\ U = may[old] \cup {{}}  OBVIOUS
<1>1. Told(T) /\ Told(U)  BY NoBytes DEF Told, MayOk
<1>2. may = [n \in Names |-> may[n]]  BY DEF MayOk
<1>3. m2 = [n \in Names |-> IF n = old THEN U ELSE IF n = new THEN T ELSE may[n]]
  BY <1>2
<1>4. m2[old] = U /\ m2[new] = T /\ \A n \in Names : n # old /\ n # new => m2[n] = may[n]
  BY <1>3
<1>5. m2 = [n \in Names |-> m2[n]]  BY <1>3
<1>6. ASSUME NEW n \in Names, NEW s \in m2[n] PROVE s = {} \/ \E x \in Octets : s = {x}
  BY <1>1, <1>4, <1>6 DEF Told, MayOk
<1>7. MayOk(m2)  BY <1>5, <1>6 DEF MayOk
<1> QED  BY <1>4, <1>7 DEF MayMoves

(* dir_register keeps the invariant.                                       *)
LEMMA Keep_dir_register ==
    ASSUME FatInd, dir_register
    PROVE  FatInd'
<1>0. Scanning /\ call.pc = "alloc"  BY DEF dir_register, Scanning
<1>1. /\ Calling /\ Clean /\ Closed /\ moving = {} /\ call.i \in 1 .. Slots
      /\ MayType /\ IsCall
  BY <1>0, ScanFacts
<1>A. Alloc  BY <1>0, PhaseAt
<1> DEFINE A(e) == call.fn = "f_open_create" /\ Opened(e, call.i, TRUE)
           B == /\ call.fn = "f_rename"
                /\ call' = [call EXCEPT !.pc = "move"]
                /\ may' = [may EXCEPT ![call.new] = @ \cup may[call.name] \cup {{<<>>}},
                                      ![call.name] = @ \cup {{}}]
                /\ moving' = {<<call.name, call.new, {} \notin may[call.name]>>}
                /\ UNCHANGED <<fp, reply>>
<1> PICK f \in Faults : \E m \in {Looked(f)} :
          /\ Hit(m) /\ Step(Poke(m, call.i, File(call.new, 0, 0)), f)
          /\ A(File(call.new, 0, 0)) \/ B
  BY DEF dir_register
<1> PICK m : /\ m = Looked(f) /\ Hit(m) /\ Step(Poke(m, call.i, File(call.new, 0, 0)), f)
             /\ A(File(call.new, 0, 0)) \/ B
  OBVIOUS
<1> PICK v, i, e, n, x : /\ v = ViewImg /\ i = call.i /\ e = ViewImg.dir[call.i] /\ n = call.new
                         /\ x = File(n, 0, 0)
  OBVIOUS
<1> PICK t, w : t = Poke(m, i, x) /\ w = SetDir(v, i, x)  OBVIOUS
<1> HIDE DEF A, B
<1>2. Goes(m)  BY DEF Hit
<1>3. WinOf(m)[call.i] = e
  BY <1>1, <1>2, LookedAt
<1>4. ~IsFile(e)
  BY <1>0, <1>2, <1>3, HitIs
<1>5. n \in Names /\ ~Named(v, n) /\ \A j \in 1 .. i - 1 : IsFile(v.dir[j])
  BY <1>A DEF Alloc
<1>6. v \in Imgs /\ CardImg \in Imgs  BY ImgsNow DEF FatInd
<1>7. i \in 1 .. Slots /\ ~IsFile(v.dir[i])  BY <1>1, <1>4
<1>8. \A j \in 1 .. i - 1 : v.dir[j] # Never  BY <1>5, EntryFields
<1>9. x \in DirEntries  BY <1>5, EntryFields
<1>10. /\ Passes(Start(f), t, {v, w}) /\ Struck(f, t) /\ Goes(t)
       /\ Seen(t) = w /\ SoundRec(t) /\ OffOf(t) = FALSE
       /\ SectOf(t) = DirSector(i) /\ WinOf(t)[i] = x
       /\ w.fat = Card(t).fat
  <2>1. f \in Faults /\ i = call.i /\ m = Looked(f) /\ FatInd /\ w = SetDir(ViewImg, i, x) /\ t = Poke(m, i, x)
    OBVIOUS
  <2>2. Changes(f, i, m, x, t, w)
    BY ONLY <1>2, <1>7, <1>9, <2>1 DEF Changes
  <2>3. /\ Passes(Start(f), t, {ViewImg, w}) /\ Struck(f, t) /\ Goes(t)
        /\ Seen(t) = w /\ SoundRec(t) /\ OffOf(t) = FALSE
        /\ SectOf(t) = DirSector(i) /\ ShowsAt(t, i, x)
        /\ SameFat(w, Card(t))
    BY ONLY <2>1, <2>2, LookPoke
  <2> QED  BY <2>3 DEF ShowsAt, SameFat
<1>11. Good(v, may, {}) /\ Good(CardImg, may, {}) /\ Single(v)
  BY <1>1 DEF FatInd, FatIInv, Base, Good
<1>12. ASSUME NEW ma, NEW mo, Good(v, ma, mo), {<<>>} \in ma[n]
       PROVE  /\ Good(w, ma, mo) /\ w \in Imgs /\ w.fat = v.fat /\ w.dir[i] = x
              /\ \A j \in 1 .. Slots : j # i => w.dir[j] = v.dir[j]
              /\ Single(w)
              /\ Lost(w) \subseteq Lost(v)
  <2>1. w = SetDir(v, i, File(n, 0, 0)) /\ x = File(n, 0, 0)  OBVIOUS
  <2>2. /\ Good(w, ma, mo) /\ w \in Imgs /\ w.fat = v.fat /\ w.dir[i] = File(n, 0, 0)
        /\ \A j \in 1 .. Slots : j # i => w.dir[j] = v.dir[j]
        /\ Single(v) => Single(w)
        /\ Lost(w) \subseteq Lost(v)
    BY ONLY <1>5, <1>6, <1>7, <1>8, <1>12, <2>1, RegisterGood
  <2> QED  BY <1>11, <2>1, <2>2
<1>13. ASSUME IsCall', MayType', reply' = reply, Good(v, may', moving'), Good(CardImg, may', moving'),
              {<<>>} \in may'[n]
       PROVE  /\ FsSound' /\ Base' /\ ViewImg' = w /\ fs'.mounted
              /\ CardImg' = Card(t) /\ (faults' = 0 => faults = 0)
              /\ fs'.winsect = DirSector(i)
              /\ w \in Imgs /\ w.fat = v.fat /\ w.dir[i] = x
              /\ \A j \in 1 .. Slots : j # i => w.dir[j] = v.dir[j]
              /\ Single(w)
              /\ Lossless({})'
  <2>1. Step(t, f)  OBVIOUS
  <2>2. /\ Good(w, may', moving') /\ w \in Imgs /\ w.fat = v.fat /\ w.dir[i] = x
        /\ \A j \in 1 .. Slots : j # i => w.dir[j] = v.dir[j]
        /\ Single(w)
        /\ Lost(w) \subseteq Lost(v)
    <3> PICK ma, mo : ma = may' /\ mo = moving'  OBVIOUS
    <3>1. Good(v, ma, mo) /\ {<<>>} \in ma[n]  BY <1>13
    <3>2. /\ Good(w, ma, mo) /\ w \in Imgs /\ w.fat = v.fat /\ w.dir[i] = x
          /\ \A j \in 1 .. Slots : j # i => w.dir[j] = v.dir[j]
          /\ Single(w)
          /\ Lost(w) \subseteq Lost(v)
      BY <1>12, <3>1
    <3> QED  BY <3>2
  <2>3. Honest({v, w}, may', moving')
    BY <1>13, <2>2 DEF Honest
  <2>4. RepliesHonest'  BY <1>1, <1>13, NoReplyNext DEF Calling
  <2>5. /\ FsSound' /\ Base'
        /\ Goes(t) => /\ ViewImg' = Seen(t) /\ fs'.mounted = fs.mounted
                      /\ fs'.winsect = SectOf(t)
        /\ CardImg' = Card(t)
        /\ faults' = 0 => faults = 0
    BY <1>10, <1>13, <2>1, <2>3, <2>4, StepBase
  <2>6. Lossless({})'
    <3>1. faults' = 0 => Lost(v) = {}  BY <1>1, <2>5 DEF Clean, Quiet
    <3> QED  BY <1>10, <2>2, <2>5, <3>1 DEF Lossless
  <2> QED  BY <1>1, <1>10, <2>2, <2>5, <2>6 DEF Calling
<1>14. CASE A(x)
  <2>1. /\ call.fn = "f_open_create" /\ fp' = FileObject(x, i, TRUE) /\ call' = NoCall
        /\ may' = may /\ reply' = reply /\ moving' = moving
    BY <1>14 DEF A, Opened
  <2>2. IsCall'  BY <2>1, NoCallIs
  <2>3. MayType'  BY <1>1, <2>1 DEF MayType
  <2>4. {<<>>} \in may[n]  BY <1>A, <2>1 DEF Alloc, Old
  <2>5. Good(v, may', moving') /\ Good(CardImg, may', moving') /\ {<<>>} \in may'[n]
    BY <1>1, <1>11, <2>1, <2>4
  <2>6. /\ FsSound' /\ Base' /\ ViewImg' = w /\ fs'.mounted
        /\ CardImg' = Card(t)
        /\ w \in Imgs /\ w.fat = v.fat /\ w.dir[i] = x
        /\ Lossless({})'
    BY <1>13, <2>1, <2>2, <2>3, <2>5
  <2>7. WriteOpen'
    BY <1>1, <1>5, <1>7, <1>10, <2>1, <2>6, FreshOpen
  <2> QED  BY <2>6, <2>7 DEF FatInd, FatIInv, Phases
<1>15. CASE B
  <2> PICK old, p : old = call.name /\ p = ({} \notin may[call.name])  OBVIOUS
  <2>1. /\ call.fn = "f_rename" /\ call' = CallPc("move")
        /\ may' = [may EXCEPT ![n] = @ \cup may[old] \cup {{<<>>}}, ![old] = @ \cup {{}}]
        /\ moving' = {<<old, n, p>>} /\ fp' = fp /\ reply' = reply
    BY <1>15 DEF B, CallPc
  <2>2. /\ IsCall'
        /\ call'.fn = call.fn /\ call'.pc = "move" /\ call'.name = call.name /\ call'.new = call.new
        /\ call'.i = call.i /\ call'.dir = call.dir /\ call'.e = call.e
    BY <1>1, <2>1, CallPcFields
  <2>3. Old /\ old # n /\ old \in Names  BY <1>A, <2>1 DEF Alloc, Old
  <2>4. MayOk(may)  BY <1>1, MayIs
  <2>5. /\ MayOk(may') /\ may'[n] = may[n] \cup may[old] \cup {{<<>>}} /\ may'[old] = may[old] \cup {{}}
        /\ \A a \in Names : may[a] \subseteq may'[a]
    <3> PICK m2 : m2 = may'  OBVIOUS
    <3>1. m2 = [may EXCEPT ![n] = @ \cup may[old] \cup {{<<>>}}, ![old] = @ \cup {{}}]  BY <2>1
    <3>2. MayMoves(m2, may, old, n)  BY ONLY <1>5, <2>3, <2>4, <3>1, MayMove
    <3> QED  BY <3>2 DEF MayMoves
  <2>6. MayType'  BY <2>5, MayIsNext
  <2>7. moving' # {} /\ p \in BOOLEAN  BY <2>1
  <2>8. ASSUME NEW u \in Imgs, Good(u, may, {}) PROVE Good(u, may', moving')
    <3>1. Whole(u, moving')
      <4>1. There(u, may)  BY <2>8 DEF Good
      <4>2. p => Named(u, old)  BY <2>3, <4>1 DEF There
      <4> QED  BY <2>1, <4>2 DEF Whole
    <3> PICK ma, mo : ma = may' /\ mo = moving'  OBVIOUS
    <3>2. /\ \A a \in Names : may[a] \subseteq ma[a]
          /\ mo # {} /\ Whole(u, mo)
      BY <2>5, <2>7, <3>1
    <3>3. Good(u, ma, mo)  BY ONLY <2>8, <3>2, GoodMay
    <3> QED  BY <3>3
  <2>9. Good(v, may', moving') /\ Good(CardImg, may', moving')
    BY <1>6, <1>11, <2>8
  <2>10. {<<>>} \in may'[n]  BY <2>5
  <2>11. /\ FsSound' /\ Base' /\ ViewImg' = w /\ fs'.mounted
         /\ fs'.winsect = DirSector(i)
         /\ w.dir[i] = x
         /\ \A j \in 1 .. Slots : j # i => w.dir[j] = v.dir[j]
         /\ Single(w)
         /\ Lossless({})'
    BY <1>13, <2>1, <2>2, <2>6, <2>9, <2>10
  <2>12. Calling' /\ Closed'
    BY <1>1, <2>1, <2>11 DEF Calling, Closed
  <2>13. /\ call.dir \in 1 .. Slots /\ v.dir[call.dir] = call.e /\ IsFile(call.e) /\ call.e.name = old
         /\ call.e \in DirEntries
    <3>1. /\ call.dir \in 1 .. Slots /\ v.dir[call.dir] = call.e /\ IsFile(call.e) /\ call.e.name = old
      BY <2>3 DEF Old
    <3> QED  BY <1>6, <3>1, ImgFields
  <2>14. w.dir[call.dir] = call.e
    <3>1. call.dir # i  BY <1>7, <2>13
    <3> QED  BY <2>11, <2>13, <3>1
  <2>15. MoveCtx'
    <3>1. moving' = {<<old, n, TRUE>>} \/ moving' = {<<old, n, FALSE>>}  BY <2>1, <2>7
    <3>2. {} \in may'[old] /\ may'[old] \subseteq may'[n] \cup {{}}  BY <2>5
    <3>3. Single(ViewImg')  BY <2>11
    <3>4. call'.fn = "f_rename" /\ call'.name = old /\ call'.new = n /\ call'.e = call.e
      BY <2>1, <2>2
    <3>5. old \in Names /\ n \in Names /\ n # old /\ call.e \in DirEntries
      BY <1>5, <2>3, <2>13
    <3>6. Lossless({})'  BY <2>11
    <3> QED  BY ONLY <3>1, <3>2, <3>3, <3>4, <3>5, <3>6 DEF MoveCtx
  <2>16. Move'
    BY <1>7, <2>2, <2>11, <2>12, <2>13, <2>14, <2>15 DEF Move
  <2> QED  BY <2>11, <2>16 DEF FatInd, FatIInv, Phases
<1> QED  BY <1>14, <1>15
=============================================================================
