--------------------------- MODULE SdmmcCmdProofs ---------------------------
(***************************************************************************)
(* Proofs about the command engine of the SDMMC driver, for every boundary,*)
(* every limit of the block count register, every request, every bound of  *)
(* a wait and every start of the timer: an accepted response is the one of *)
(* the command, a transfer that succeeds moved its blocks and no other,    *)
(* and a wait is as long as it says.                                       *)
(***************************************************************************)
EXTENDS SdmmcCmd, TLAPS

(* The card clock: a call has it, and remembers whether it has to stop it. *)
ClockInv ==
    /\ pc = "idle" => (regs.card_en = TRUE <=> ClockWanted)
    /\ pc # "idle" => /\ host.card_clock_enabled = TRUE
                      /\ regs.card_en = TRUE
                      /\ restore = FALSE <=> ClockWanted

(* A command on the line is the one of the call, and not answered yet; the *)
(* interrupts are enabled for as long as one may be looked at.             *)
LineInv ==
    /\ cmdline = "command" <=> pc = "response" /\ owner = FALSE
    /\ pc \in {"response", "dma"} => enabled = TRUE
    /\ pc \notin {"response", "dma"} => enabled = FALSE
    /\ pc \in {"dma", "busy"} => owner = TRUE
    /\ pc = "dma" => IsData
    /\ pc = "response" /\ "RESPONSE" \in norintsts =>
           owner = TRUE \/ "ERROR" \in norintsts

(* The address at which the engine stops next is a boundary, the first one *)
(* above the block it is at.                                               *)
StopInv ==
    /\ dma_addr_next % Boundary = 0
    /\ dma # "paused" /\ blkcnt > 0 =>
           admaaddr < dma_addr_next /\ dma_addr_next <= admaaddr + Boundary
    /\ dma = "paused" => admaaddr = dma_addr_next
    /\ "DMA_END" \in norintsts /\ "DATA_END" \notin norintsts => dma = "paused"

(* How far a transfer is: the blocks behind the engine are moved, those    *)
(* before it are counted.                                                  *)
MovingInv ==
    /\ cmd.n > 0
    /\ cmd.buf <= admaaddr /\ admaaddr + blkcnt = cmd.buf + BlockCount
    /\ moved = cmd.buf .. (admaaddr - 1)
    /\ "DATA_END" \in norintsts => blkcnt = 0
    /\ pc = "response" /\ owner = FALSE => blkcnt > 0

EngineInv ==
    /\ dma # "off" =>
           pc \in {"response", "dma"} /\ IsData /\ owner = TRUE /\ blkcnt > 0
    /\ IsData /\ pc \in {"response", "dma"} => MovingInv /\ StopInv
    /\ IsData /\ pc = "busy" => moved = cmd.buf .. (cmd.buf + BlockCount - 1)

(* The timer against the deadline, in a wait for a bit and in a transfer.  *)
(* A wait whose deadline wrapped is over before it starts.                 *)
TimerInv ==
    /\ wrapped = TRUE /\ pc \in PollLoops \cup {"dma"} =>
           waited = 0 /\ now > deadline
    /\ wrapped = FALSE /\ pc \in PollLoops =>
           \/ deadline = TmrMod - 1
           \/ now + WaitBound = deadline + waited /\ now <= deadline + 1
    /\ wrapped = FALSE /\ pc = "dma" =>
           now + DmaBound = deadline + waited /\ now <= deadline

IInv == TypeOK /\ ClockInv /\ LineInv /\ EngineInv /\ TimerInv

-----------------------------------------------------------------------------
(* Arithmetic of the timer and of the boundaries. *)
LEMMA ModSmall ==
    ASSUME NEW a \in Nat, NEW m \in Nat \ {0}, a < m + m
    PROVE  a % m = IF a < m THEN a ELSE a - m
  OBVIOUS

LEMMA Weaker ==
    ASSUME NEW a \in Nat, NEW b \in Nat, a <= b
    PROVE  a <= b + 1
  OBVIOUS

LEMMA Division ==
    ASSUME NEW a \in Nat, NEW b \in Nat \ {0}
    PROVE  /\ a = b * (a \div b) + (a % b)
           /\ a \div b \in Nat
           /\ a % b \in 0 .. (b - 1)
  OBVIOUS

LEMMA Multiple ==
    ASSUME NEW k \in Nat, NEW b \in Nat \ {0}
    PROVE  (b * k) % b = 0
  OBVIOUS

LEMMA Apart ==
    ASSUME NEW k \in Int, NEW b \in Nat \ {0}, k >= 1
    PROVE  b * k >= b
  OBVIOUS

(* The first boundary above a block. *)
LEMMA FirstBoundary ==
    ASSUME NEW a \in Nat
    PROVE  /\ NextBoundary(a) \in Nat /\ NextBoundary(a) % Boundary = 0
           /\ a < NextBoundary(a) /\ NextBoundary(a) <= a + Boundary
  <1> DEFINE B == Boundary
             q == a \div B
  <1>1. B \in Nat \ {0}
    BY CmdAssumption
  <1>2. a = B * q + (a % B) /\ q \in Nat /\ a % B \in 0 .. (B - 1)
    <2> HIDE DEF B
    <2> QED  BY <1>1, Division
  <1>3. NextBoundary(a) = B * q + B
    BY <1>1, <1>2 DEF NextBoundary
  <1>4. B * q + B = B * (q + 1)
    <2> HIDE DEF B, q
    <2> QED  BY <1>1, <1>2
  <1>5. (B * (q + 1)) % B = 0
    <2> HIDE DEF B, q
    <2> QED  BY <1>1, <1>2, Multiple
  <1>6. NextBoundary(a) = a + B - (a % B)
    BY DEF NextBoundary
  <1> HIDE DEF B, q
  <1>7. B * (q + 1) \in Nat
    BY <1>1, <1>2
  <1>8. a < NextBoundary(a) /\ NextBoundary(a) <= a + B
    BY <1>1, <1>2, <1>6
  <1> QED  BY <1>3, <1>4, <1>5, <1>7, <1>8 DEF B

(* The boundary after a boundary. *)
LEMMA BoundaryAfter ==
    ASSUME NEW d \in Nat, d % Boundary = 0
    PROVE  (d + Boundary) % Boundary = 0
  <1> DEFINE B == Boundary
             q == d \div B
  <1>1. B \in Nat \ {0}
    BY CmdAssumption
  <1>2. d = B * q + (d % B) /\ q \in Nat
    <2> HIDE DEF B
    <2> QED  BY <1>1, Division
  <1>3. d % B = 0
    OBVIOUS
  <1> HIDE DEF B, q
  <1>4. d + B = B * (q + 1)
    BY <1>1, <1>2, <1>3
  <1>5. (B * (q + 1)) % B = 0
    BY <1>1, <1>2, Multiple
  <1> QED  BY <1>4, <1>5 DEF B

(* Between a block and the boundary above it there is no boundary. *)
LEMMA BoundaryHit ==
    ASSUME NEW a \in Nat, NEW d \in Nat,
           d % Boundary = 0, a < d, d <= a + Boundary,
           (a + 1) % Boundary = 0
    PROVE  a + 1 = d
  <1> DEFINE B == Boundary
             q == d \div B
             p == (a + 1) \div B
  <1>1. B \in Nat \ {0} /\ a + 1 \in Nat
    BY CmdAssumption
  <1>2. d = B * q + (d % B) /\ q \in Nat
    <2> HIDE DEF B
    <2> QED  BY <1>1, Division
  <1>3. a + 1 = B * p + ((a + 1) % B) /\ p \in Nat
    <2> HIDE DEF B
    <2> QED  BY <1>1, Division
  <1>4. d % B = 0 /\ (a + 1) % B = 0 /\ a < d /\ d <= a + B
    OBVIOUS
  <1> HIDE DEF B, q, p
  <1>5. d - (a + 1) = B * (q - p)
    BY <1>1, <1>2, <1>3, <1>4
  <1>6. ~(q - p >= 1)
    BY <1>1, <1>2, <1>3, <1>4, <1>5, Apart
  <1>7. ~(p - q >= 1)
    <2>1. (a + 1) - d = B * (p - q)
      BY <1>1, <1>2, <1>3, <1>4
    <2> QED  BY <1>1, <1>2, <1>3, <1>4, <2>1, Apart
  <1>8. q = p
    BY <1>2, <1>3, <1>6, <1>7
  <1> QED  BY <1>2, <1>3, <1>4, <1>8

(* Every command of a call has these fields, and a boundary counts blocks. *)
Commands == [kind : {"plain", "busy", "stop", "data"}, buf : Nat, n : Nat,
             aligned : BOOLEAN]

LEMMA CommandType ==
    ASSUME NEW c \in Requests \cup {StopTransmission}
    PROVE  /\ c.kind \in {"plain", "busy", "stop", "data"}
           /\ c.buf \in Nat /\ c.n \in Nat /\ c.aligned \in BOOLEAN
  <1>1. CASE c \in Transfers
    BY <1>1, CmdAssumption
  <1>2. CASE c = NoData
    BY <1>2 DEF NoData
  <1>3. CASE c = [NoData EXCEPT !.kind = "busy"]
    BY <1>3 DEF NoData
  <1>4. CASE c = StopTransmission
    BY <1>4 DEF StopTransmission, NoData
  <1> QED  BY <1>1, <1>2, <1>3, <1>4 DEF Requests

LEMMA BlockCountType ==
    ASSUME TypeOK
    PROVE  /\ BlockCount \in 0 .. MaxBlocks
           /\ cmd.n > 0 => BlockCount > 0
           /\ cmd.buf \in Nat /\ cmd.n \in Nat
  BY CommandType, CmdAssumption DEF TypeOK, BlockCount

LEMMA IdleCommand == NoData \in Requests /\ NoData.kind = "plain"
  BY DEF Requests, NoData

(* The error status is the only field of the host a command changes. *)
LEMMA HostError ==
    ASSUME NEW e \in Errors, host \in HostRecords,
           host' = [host EXCEPT !.error_sts = e]
    PROVE  /\ host' \in HostRecords
           /\ host'.card_clock_enabled = host.card_clock_enabled
           /\ host'.powersave_enabled = host.powersave_enabled
  BY DEF HostRecords

(* A new wait has its whole time, or ends at once. *)
LEMMA WaitStarts ==
    ASSUME TypeOK, NEW bound \in {WaitBound, DmaBound}, Wait(bound), now' = now
    PROVE  /\ deadline' \in 0 .. (TmrMod - 1) /\ wrapped' \in BOOLEAN
           /\ waited' = 0 /\ waited' \in Nat
           /\ wrapped' = TRUE => now' > deadline'
           /\ wrapped' = FALSE =>
                 now' + bound = deadline' + waited' /\ now' <= deadline'
  <1>1. /\ bound \in Nat \ {0} /\ bound < TmrMod /\ TmrMod \in Nat \ {0}
        /\ now \in Nat /\ now < TmrMod
    BY CmdAssumption DEF TypeOK
  <1>2. now + bound \in Nat /\ now + bound < TmrMod + TmrMod
    BY <1>1
  <1>3. deadline' = IF now + bound < TmrMod THEN now + bound
                    ELSE (now + bound) - TmrMod
    <2>1. deadline' = (now + bound) % TmrMod
      BY DEF Wait
    <2> QED  BY <1>1, <1>2, <2>1, ModSmall
  <1>4. wrapped' = (now + bound >= TmrMod) /\ waited' = 0
    BY DEF Wait
  <1>5. CASE now + bound < TmrMod
    <2>1. wrapped' = FALSE
      <3>1. ~(now + bound >= TmrMod)
        BY <1>1, <1>5
      <3>2. (now + bound >= TmrMod) = FALSE
        BY <3>1
      <3> QED  BY <1>4, <3>2, Zenon
    <2> QED  BY <1>1, <1>3, <1>4, <1>5, <2>1
  <1>6. CASE ~(now + bound < TmrMod)
    <2>1. wrapped' = TRUE
      <3>1. now + bound >= TmrMod
        BY <1>1, <1>6
      <3> QED  BY <1>4, <3>1, Zenon
    <2> QED  BY <1>1, <1>3, <1>4, <1>6, <2>1
  <1> QED  BY <1>5, <1>6

(* A call that ends leaves the controller quiet and the clock as it was.   *)
(* What it found in the status registers stays.                            *)
LEMMA FinishInv ==
    ASSUME IInv, pc # "idle", NEW r \in BOOLEAN, Finish(r),
           host' \in HostRecords,
           host'.card_clock_enabled = host.card_clock_enabled,
           host'.powersave_enabled = host.powersave_enabled,
           now' = now, cmdline' \in {"free", "held"}, datline' \in BOOLEAN,
           busy' \in BOOLEAN, norintsts' \subseteq Bits, enabled' = FALSE,
           errsts' \in Errors, dma' = "off", admaaddr' = admaaddr,
           blkcnt' = blkcnt, moved' = moved, owner' = owner
    PROVE  IInv'
  <1>1. /\ pc' = "idle" /\ cmd' = NoData /\ restore' = FALSE
        /\ result' \in BOOLEAN /\ deadline' = 0 /\ waited' = 0
        /\ wrapped' = FALSE /\ seen_blkcnt' = 0 /\ dma_addr_next' = dma_addr_next
    BY DEF Finish, Drop
  <1>2. /\ regs' \in RegRecords
        /\ regs'.card_en = (regs.card_en /\ ~restore)
    BY DEF Finish, IInv, TypeOK, RegRecords
  <1>3. TypeOK'
    <2>1. /\ pc' \in PollLoops \cup {"idle", "send", "dma"}
          /\ cmdline' \in {"free", "command", "held"}
      BY <1>1
    <2>2. seen_blkcnt' \in 0 .. MaxBlocks /\ deadline' \in 0 .. (TmrMod - 1)
      BY <1>1, CmdAssumption
    <2>3. cmd' \in (Requests \cup {StopTransmission})'
      BY <1>1, IdleCommand DEF Requests, StopTransmission
    <2> QED  BY <1>1, <1>2, <2>1, <2>2, <2>3 DEF IInv, TypeOK
  <1>4. ClockInv'
    <2>1. regs.card_en = TRUE /\ (restore = FALSE <=> ClockWanted)
      BY DEF IInv, ClockInv
    <2>2. ClockWanted' <=> ClockWanted
      BY DEF ClockWanted
    <2>3. restore \in BOOLEAN
      BY DEF IInv, TypeOK
    <2> QED  BY <1>1, <1>2, <2>1, <2>2, <2>3 DEF ClockInv
  <1>5. LineInv' /\ EngineInv'
    BY <1>1, IdleCommand DEF LineInv, EngineInv, IsData
  <1>6. TimerInv'
    BY <1>1 DEF TimerInv, PollLoops
  <1> QED  BY <1>3, <1>4, <1>5, <1>6 DEF IInv

(* A new wait satisfies the timer's invariant. *)
LEMMA WaitInv ==
    ASSUME IInv, NEW bound \in {WaitBound, DmaBound}, Wait(bound), now' = now,
           pc' \in PollLoops => bound = WaitBound,
           pc' = "dma" => bound = DmaBound
    PROVE  /\ TimerInv'
           /\ deadline' \in 0 .. (TmrMod - 1) /\ waited' \in Nat
           /\ wrapped' \in BOOLEAN
  <1>1. TypeOK
    BY DEF IInv
  <1>2. /\ deadline' \in 0 .. (TmrMod - 1) /\ wrapped' \in BOOLEAN
        /\ waited' = 0 /\ waited' \in Nat
        /\ wrapped' = TRUE => now' > deadline'
        /\ wrapped' = FALSE =>
              now' + bound = deadline' + waited' /\ now' <= deadline'
    BY <1>1, WaitStarts
  <1>3. now' \in Nat
    BY <1>1, CmdAssumption DEF TypeOK
  <1>4. TimerInv'
    <2>1. ASSUME wrapped' = TRUE PROVE waited' = 0 /\ now' > deadline'
      BY <1>2, <2>1
    <2>2. ASSUME wrapped' = FALSE, pc' \in PollLoops
          PROVE  now' + WaitBound = deadline' + waited' /\ now' <= deadline' + 1
      <3>1. bound = WaitBound
        BY <2>2
      <3>2. deadline' \in Nat
        BY <1>2, CmdAssumption
      <3>3. now' + bound = deadline' + waited'
        BY <1>2, <2>2
      <3>4. now' <= deadline'
        BY <1>2, <2>2
      <3>5. now' <= deadline' + 1
        BY <1>3, <3>2, <3>4, Weaker
      <3> QED  BY <3>1, <3>3, <3>5
    <2>3. ASSUME wrapped' = FALSE, pc' = "dma"
          PROVE  now' + DmaBound = deadline' + waited' /\ now' <= deadline'
      BY <1>2, <2>3
    <2> QED  BY <2>1, <2>2, <2>3 DEF TimerInv, PollLoops
  <1> QED  BY <1>2, <1>4

(* A status bit is latched while the interrupts are enabled. *)
LEMMA LatchSets ==
    ASSUME TypeOK, NEW bits \in SUBSET Bits, Latch(bits)
    PROVE  /\ norintsts' \subseteq Bits
           /\ enabled = TRUE => norintsts' = norintsts \cup bits
           /\ enabled = FALSE => norintsts' = norintsts
  BY DEF TypeOK, Latch

-----------------------------------------------------------------------------
(* The start of a command: the inhibit bits, the request, the command. *)
LEMMA BeginInv ==
    ASSUME IInv, NEW c \in Requests \cup {StopTransmission}, Begin(c)
    PROVE  IInv'
<1>1. /\ pc = "idle" /\ host.card_clock_enabled = TRUE
      /\ cmd' = c /\ pc' = "cmd_inhibit" /\ host' = host
      /\ UNCHANGED <<now, result, dma_addr_next, seen_blkcnt, lines, intr,
                     engine, owner>>
  BY DEF Begin, IInv, TypeOK, HostRecords
<1>2. TimerInv' /\ deadline' \in 0 .. (TmrMod - 1) /\ waited' \in Nat
      /\ wrapped' \in BOOLEAN
  BY <1>1, WaitInv DEF Begin, PollLoops
<1>3. /\ regs' \in RegRecords /\ regs'.card_en = TRUE
      /\ restore' = ~regs.card_en /\ regs.card_en \in BOOLEAN
  BY DEF Begin, IInv, TypeOK, RegRecords
<1>4. restore' \in BOOLEAN /\ (restore' = FALSE <=> regs.card_en = TRUE)
  BY <1>3
<1>5. TypeOK'
  <2>1. cmd' \in (Requests \cup {StopTransmission})'
    BY <1>1 DEF Requests, StopTransmission
  <2>2. pc' \in PollLoops \cup {"idle", "send", "dma"}
    BY <1>1 DEF PollLoops
  <2> QED  BY <1>1, <1>2, <1>3, <1>4, <2>1, <2>2 DEF IInv, TypeOK, lines, intr,
                                                    engine
<1>6. ClockInv'
  <2>1. ClockWanted' <=> ClockWanted
    BY <1>1 DEF ClockWanted
  <2> QED  BY <1>1, <1>3, <1>4, <2>1 DEF IInv, ClockInv
<1>7. LineInv' /\ EngineInv'
  BY <1>1 DEF IInv, LineInv, EngineInv, IsData, lines, intr, engine
<1> QED  BY <1>2, <1>5, <1>6, <1>7 DEF IInv

LEMMA CmdLineFreeInv == IInv /\ CmdLineFree => IInv'
<1> SUFFICES ASSUME IInv, CmdLineFree PROVE IInv'
  OBVIOUS
<1>1. /\ pc = "cmd_inhibit" /\ pc' \in {"dat_inhibit", "send"}
      /\ UNCHANGED <<host, regs, call, now, lines, intr, engine, owner>>
  BY DEF CmdLineFree
<1>2. TimerInv' /\ deadline' \in 0 .. (TmrMod - 1) /\ waited' \in Nat
      /\ wrapped' \in BOOLEAN
  <2>1. CASE pc' = "dat_inhibit" /\ Wait(WaitBound)
    BY <1>1, <2>1, WaitInv DEF PollLoops
  <2>2. CASE pc' = "send" /\ UNCHANGED timer
    BY <1>1, <2>2 DEF IInv, TypeOK, TimerInv, PollLoops, timer
  <2> QED  BY <2>1, <2>2 DEF CmdLineFree
<1>3. TypeOK'
  <2>1. pc' \in PollLoops \cup {"idle", "send", "dma"}
    BY <1>1 DEF PollLoops
  <2> QED  BY <1>1, <1>2, <2>1 DEF IInv, TypeOK, call, lines, intr, engine
<1>4. ClockInv'
  BY <1>1 DEF IInv, ClockInv, ClockWanted, call
<1>5. LineInv' /\ EngineInv'
  BY <1>1 DEF IInv, LineInv, EngineInv, IsData, call, lines, intr, engine
<1> QED  BY <1>2, <1>3, <1>4, <1>5 DEF IInv

LEMMA DatLineFreeInv == IInv /\ DatLineFree => IInv'
<1> SUFFICES ASSUME IInv, DatLineFree PROVE IInv'
  OBVIOUS
<1>1. /\ pc = "dat_inhibit" /\ pc' = "send"
      /\ UNCHANGED <<host, regs, call, now, timer, lines, intr, engine, owner>>
  BY DEF DatLineFree
<1>2. TypeOK'
  BY <1>1 DEF IInv, TypeOK, call, timer, lines, intr, engine
<1>3. ClockInv' /\ LineInv' /\ TimerInv'
  BY <1>1 DEF IInv, ClockInv, ClockWanted, LineInv, IsData, TimerInv, PollLoops,
              call, timer, lines, intr
<1>4. EngineInv'
  BY <1>1 DEF IInv, EngineInv, MovingInv, StopInv, IsData, BlockCount, call, lines,
              intr, engine
<1> QED  BY <1>2, <1>3, <1>4 DEF IInv

LEMMA SendCmdInv == IInv /\ SendCmd => IInv'
<1> SUFFICES ASSUME IInv, SendCmd PROVE IInv'
  OBVIOUS
<1>1. /\ pc = "send" /\ pc' = "response" /\ ~BadRequest
      /\ cmdline' = "command" /\ datline' = (datline \/ IsBusy)
      /\ owner' = FALSE /\ moved' = {}
      /\ enabled' = TRUE /\ norintsts' = {} /\ errsts' = "none"
      /\ UNCHANGED <<regs, cmd, restore, result, seen_blkcnt, now, busy, dma>>
  BY DEF SendCmd, EnableInterrupts
<1>2. /\ host' \in HostRecords
      /\ host'.card_clock_enabled = host.card_clock_enabled
      /\ host'.powersave_enabled = host.powersave_enabled
  <2>1. host' = [host EXCEPT !.error_sts = "none"] /\ host \in HostRecords
        /\ "none" \in Errors
    BY DEF SendCmd, EnableInterrupts, IInv, TypeOK, Errors
  <2> QED  BY <2>1, HostError
<1>3. TimerInv' /\ deadline' \in 0 .. (TmrMod - 1) /\ waited' \in Nat
      /\ wrapped' \in BOOLEAN
  BY <1>1, WaitInv DEF SendCmd, PollLoops
<1>4. /\ BlockCount \in 0 .. MaxBlocks /\ cmd.buf \in Nat /\ cmd.n \in Nat
      /\ cmd.n > 0 => BlockCount > 0
  BY BlockCountType DEF IInv
<1>5. /\ dma_addr_next' \in Nat /\ admaaddr' \in Nat /\ blkcnt' \in 0 .. MaxBlocks
      /\ IsData => /\ admaaddr' = cmd.buf /\ blkcnt' = BlockCount
                   /\ dma_addr_next' = NextBoundary(cmd.buf)
  BY <1>4, FirstBoundary DEF SendCmd, ConfigSdma, IInv, TypeOK
<1>6. TypeOK'
  <2>1. pc' \in PollLoops \cup {"idle", "send", "dma"}
    BY <1>1 DEF PollLoops
  <2>2. datline' \in BOOLEAN /\ errsts' \in Errors
    BY <1>1 DEF Errors
  <2> QED  BY <1>1, <1>2, <1>3, <1>5, <2>1, <2>2 DEF IInv, TypeOK
<1>7. ClockInv'
  <2>1. ClockWanted' <=> ClockWanted
    BY <1>2 DEF ClockWanted
  <2> QED  BY <1>1, <1>2, <2>1 DEF IInv, ClockInv
<1>8. LineInv'
  BY <1>1 DEF LineInv
<1>9. EngineInv'
  <2>1. dma' = "off"
    BY <1>1 DEF IInv, EngineInv
  <2>2. ASSUME IsData PROVE MovingInv' /\ StopInv'
    <3>1. cmd.n > 0
      BY <1>1, <1>4, <2>2 DEF BadRequest
    <3>2. MovingInv'
      <4>1. moved' = cmd.buf .. (cmd.buf - 1)
        BY <1>1, <1>4
      <4> QED  BY <1>1, <1>4, <1>5, <2>2, <3>1, <4>1 DEF MovingInv, BlockCount
    <3>3. StopInv'
      BY <1>1, <1>4, <1>5, <2>1, <2>2, FirstBoundary DEF StopInv
    <3> QED  BY <3>2, <3>3
  <2> QED  BY <1>1, <2>1, <2>2 DEF EngineInv, IsData
<1> QED  BY <1>3, <1>6, <1>7, <1>8, <1>9 DEF IInv

-----------------------------------------------------------------------------
(* The transfer, as the driver follows it. *)
LEMMA DataEndInv == IInv /\ DataEnd => IInv'
<1> SUFFICES ASSUME IInv, DataEnd PROVE IInv'
  OBVIOUS
<1>1. /\ pc = "dma" /\ pc' = "busy" /\ "DATA_END" \in norintsts
      /\ norintsts' = norintsts \ {"DATA_END", "DMA_END"} /\ enabled' = FALSE
      /\ UNCHANGED <<host, regs, call, now, lines, errsts, engine, owner>>
  BY DEF DataEnd
<1>2. TimerInv' /\ deadline' \in 0 .. (TmrMod - 1) /\ waited' \in Nat
      /\ wrapped' \in BOOLEAN
  BY <1>1, WaitInv DEF DataEnd, PollLoops
<1>3. TypeOK'
  <2>1. pc' \in PollLoops \cup {"idle", "send", "dma"}
    BY <1>1 DEF PollLoops
  <2> QED  BY <1>1, <1>2, <2>1 DEF IInv, TypeOK, call, lines, engine
<1>4. ClockInv'
  BY <1>1 DEF IInv, ClockInv, ClockWanted, call
<1>5. LineInv'
  BY <1>1 DEF IInv, LineInv, lines
<1>6. EngineInv'
  <2>1. IsData /\ MovingInv /\ blkcnt = 0
    BY <1>1 DEF IInv, LineInv, EngineInv, MovingInv
  <2>2. dma = "off"
    BY <2>1 DEF IInv, EngineInv, TypeOK
  <2>3. moved = cmd.buf .. (cmd.buf + BlockCount - 1)
    <3>1. admaaddr \in Nat /\ cmd.buf \in Nat /\ BlockCount \in Nat
      BY BlockCountType, CmdAssumption DEF IInv, TypeOK
    <3>2. admaaddr = cmd.buf + BlockCount
      BY <2>1, <3>1 DEF MovingInv
    <3>3. admaaddr - 1 = cmd.buf + BlockCount - 1
      BY <3>1, <3>2
    <3> QED  BY <2>1, <3>3 DEF MovingInv
  <2> QED  BY <1>1, <2>2, <2>3 DEF EngineInv, IsData, BlockCount, call, engine
<1> QED  BY <1>2, <1>3, <1>4, <1>5, <1>6 DEF IInv

LEMMA DmaEndInv == IInv /\ DmaEnd => IInv'
<1> SUFFICES ASSUME IInv, DmaEnd PROVE IInv'
  OBVIOUS
<1>1. /\ pc = "dma"
      /\ "DMA_END" \in norintsts /\ "DATA_END" \notin norintsts
      /\ norintsts' = norintsts \ {"DMA_END"} /\ dma' = "run"
      /\ admaaddr' = dma_addr_next /\ dma_addr_next' = dma_addr_next + Boundary
      /\ UNCHANGED <<host, regs, pc, cmd, restore, result, seen_blkcnt, now,
                     timer, lines, enabled, errsts, blkcnt, moved, owner>>
  BY DEF DmaEnd
<1>2. IsData /\ MovingInv /\ StopInv /\ dma = "paused" /\ admaaddr = dma_addr_next
      /\ blkcnt > 0 /\ owner = TRUE
  BY <1>1 DEF IInv, LineInv, EngineInv, StopInv
<1>3. TypeOK'
  BY <1>1, CmdAssumption DEF IInv, TypeOK, timer, lines
<1>4. ClockInv' /\ LineInv'
  BY <1>1 DEF IInv, ClockInv, ClockWanted, LineInv, IsData, lines
<1>5. EngineInv'
  <2>1. MovingInv'
    BY <1>1, <1>2 DEF MovingInv, BlockCount
  <2>2. StopInv'
    <3>1. dma_addr_next \in Nat /\ Boundary \in Nat \ {0}
      BY CmdAssumption DEF IInv, TypeOK
    <3>2. (dma_addr_next + Boundary) % Boundary = 0
      BY <1>2, <3>1, BoundaryAfter DEF StopInv
    <3> QED  BY <1>1, <3>1, <3>2 DEF StopInv
  <2> QED  BY <1>1, <1>2, <2>1, <2>2 DEF EngineInv, IsData
<1>6. TimerInv'
  BY <1>1 DEF IInv, TimerInv, PollLoops, timer
<1> QED  BY <1>3, <1>4, <1>5, <1>6 DEF IInv

LEMMA DmaProgressInv == IInv /\ DmaProgress => IInv'
<1> SUFFICES ASSUME IInv, DmaProgress PROVE IInv'
  OBVIOUS
<1>1. /\ pc = "dma" /\ seen_blkcnt' = blkcnt
      /\ UNCHANGED <<host, regs, pc, cmd, restore, result, dma_addr_next, now,
                     lines, intr, engine, owner>>
  BY DEF DmaProgress, DmaQuiet
<1>2. TimerInv' /\ deadline' \in 0 .. (TmrMod - 1) /\ waited' \in Nat
      /\ wrapped' \in BOOLEAN
  BY <1>1, WaitInv DEF DmaProgress, PollLoops
<1>3. TypeOK'
  BY <1>1, <1>2 DEF IInv, TypeOK, lines, intr, engine
<1>4. ClockInv' /\ LineInv'
  BY <1>1 DEF IInv, ClockInv, ClockWanted, LineInv, IsData, lines, intr
<1>5. EngineInv'
  BY <1>1 DEF IInv, EngineInv, MovingInv, StopInv, IsData, BlockCount, lines,
              intr, engine
<1> QED  BY <1>2, <1>3, <1>4, <1>5 DEF IInv

(* The response, its absence and the ends of a call. *)
LEMMA ResponseSeenInv == IInv /\ ResponseSeen => IInv'
<1> SUFFICES ASSUME IInv, ResponseSeen PROVE IInv'
  OBVIOUS
<1>1. /\ pc = "response" /\ owner = TRUE /\ cmdline \in {"free", "held"}
      /\ norintsts' = norintsts \ {"RESPONSE"}
      /\ UNCHANGED <<host, now, lines, errsts, engine, owner>>
  BY DEF ResponseSeen, IInv, LineInv, TypeOK
<1>2. CASE IsData
  <2>1. /\ pc' = "dma" /\ seen_blkcnt' = blkcnt
        /\ UNCHANGED <<regs, cmd, restore, result, dma_addr_next, enabled>>
        /\ Wait(DmaBound)
    BY <1>2 DEF ResponseSeen
  <2>2. TimerInv' /\ deadline' \in 0 .. (TmrMod - 1) /\ waited' \in Nat
        /\ wrapped' \in BOOLEAN
    BY <1>1, <2>1, WaitInv DEF PollLoops
  <2>3. TypeOK'
    BY <1>1, <2>1, <2>2 DEF IInv, TypeOK, lines, engine
  <2>4. ClockInv' /\ LineInv'
    BY <1>1, <1>2, <2>1 DEF IInv, ClockInv, ClockWanted, LineInv, IsData, lines
  <2>5. EngineInv'
    BY <1>1, <1>2, <2>1 DEF IInv, EngineInv, MovingInv, StopInv, IsData,
                           BlockCount, lines, engine
  <2> QED  BY <2>2, <2>3, <2>4, <2>5 DEF IInv
<1>3. CASE ~IsData /\ IsBusy
  <2>1. pc' = "busy" /\ enabled' = FALSE /\ UNCHANGED <<regs, call>>
        /\ Wait(WaitBound)
    BY <1>3 DEF ResponseSeen
  <2>2. TimerInv' /\ deadline' \in 0 .. (TmrMod - 1) /\ waited' \in Nat
        /\ wrapped' \in BOOLEAN
    BY <1>1, <2>1, WaitInv DEF PollLoops
  <2>3. TypeOK'
    <3>1. pc' \in PollLoops \cup {"idle", "send", "dma"}
      BY <2>1 DEF PollLoops
    <3> QED  BY <1>1, <2>1, <2>2, <3>1 DEF IInv, TypeOK, call, lines, engine
  <2>4. ClockInv' /\ LineInv'
    BY <1>1, <2>1 DEF IInv, ClockInv, ClockWanted, LineInv, call, lines
  <2>5. EngineInv'
    BY <1>1, <1>3, <2>1 DEF IInv, EngineInv, IsData, call, engine
  <2> QED  BY <2>2, <2>3, <2>4, <2>5 DEF IInv
<1>4. CASE ~IsData /\ ~IsBusy
  <2>1. enabled' = FALSE /\ Finish(TRUE)
    BY <1>4 DEF ResponseSeen
  <2>2. dma = "off"
    BY <1>4 DEF IInv, EngineInv
  <2>3. datline \in BOOLEAN /\ busy \in BOOLEAN /\ errsts \in Errors
        /\ norintsts' \subseteq Bits /\ host \in HostRecords
    BY <1>1 DEF IInv, TypeOK
  <2> QED  BY <1>1, <2>1, <2>2, <2>3, FinishInv DEF lines, engine
<1> QED  BY <1>2, <1>3, <1>4

(* After a reset of the lines a failed call ends quietly. *)
LEMMA FailInv ==
    ASSUME IInv, pc # "idle", Finish(FALSE), ResetCmdData,
           host' \in HostRecords,
           host'.card_clock_enabled = host.card_clock_enabled,
           host'.powersave_enabled = host.powersave_enabled,
           now' = now, norintsts' \subseteq Bits, enabled' = FALSE,
           errsts' \in Errors, owner' = owner
    PROVE  IInv'
  <1>1. /\ cmdline' = "free" /\ datline' = FALSE /\ dma' = "off"
        /\ UNCHANGED <<busy, admaaddr, blkcnt, moved>>
    BY DEF ResetCmdData
  <1>2. busy \in BOOLEAN
    BY DEF IInv, TypeOK
  <1> QED  BY <1>1, <1>2, FinishInv

LEMMA InhibitTimeoutInv == IInv /\ InhibitTimeout => IInv'
<1> SUFFICES ASSUME IInv, InhibitTimeout PROVE IInv'
  OBVIOUS
<1>1. /\ pc # "idle" /\ Finish(FALSE) /\ ResetCmdData
      /\ UNCHANGED <<host, now, norintsts, errsts, owner>>
  BY DEF InhibitTimeout, intr
<1>2. enabled' = FALSE
  BY DEF InhibitTimeout, IInv, LineInv, intr
<1>3. host \in HostRecords /\ norintsts \subseteq Bits /\ errsts \in Errors
  BY DEF IInv, TypeOK
<1> QED  BY <1>1, <1>2, <1>3, FailInv

LEMMA ResponseTimeoutInv == IInv /\ ResponseTimeout => IInv'
<1> SUFFICES ASSUME IInv, ResponseTimeout PROVE IInv'
  OBVIOUS
<1>1. /\ pc # "idle" /\ Finish(FALSE) /\ ResetCmdData
      /\ UNCHANGED <<host, now, norintsts, errsts, owner>>
  BY DEF ResponseTimeout
<1>2. enabled' = FALSE
  BY DEF ResponseTimeout
<1>3. host \in HostRecords /\ norintsts \subseteq Bits /\ errsts \in Errors
  BY DEF IInv, TypeOK
<1> QED  BY <1>1, <1>2, <1>3, FailInv

LEMMA DmaTimeoutInv == IInv /\ DmaTimeout => IInv'
<1> SUFFICES ASSUME IInv, DmaTimeout PROVE IInv'
  OBVIOUS
<1>1. /\ pc # "idle" /\ Finish(FALSE) /\ ResetCmdData
      /\ UNCHANGED <<host, now, norintsts, errsts, owner>>
  BY DEF DmaTimeout, DmaQuiet
<1>2. enabled' = FALSE
  BY DEF DmaTimeout
<1>3. host \in HostRecords /\ norintsts \subseteq Bits /\ errsts \in Errors
  BY DEF IInv, TypeOK
<1> QED  BY <1>1, <1>2, <1>3, FailInv

LEMMA BusyTimeoutInv == IInv /\ BusyTimeout => IInv'
<1> SUFFICES ASSUME IInv, BusyTimeout PROVE IInv'
  OBVIOUS
<1>1. /\ pc # "idle" /\ Finish(FALSE) /\ ResetCmdData
      /\ UNCHANGED <<host, now, norintsts, errsts, owner>>
  BY DEF BusyTimeout, intr
<1>2. enabled' = FALSE
  BY DEF BusyTimeout, IInv, LineInv, intr
<1>3. host \in HostRecords /\ norintsts \subseteq Bits /\ errsts \in Errors
  BY DEF IInv, TypeOK
<1> QED  BY <1>1, <1>2, <1>3, FailInv

LEMMA ErrorSeenInv == IInv /\ ErrorSeen => IInv'
<1> SUFFICES ASSUME IInv, ErrorSeen PROVE IInv'
  OBVIOUS
<1>1. /\ pc # "idle" /\ Finish(FALSE) /\ ResetCmdData
      /\ norintsts' = norintsts \ {"ERROR"} /\ errsts' = "none"
      /\ enabled' = FALSE /\ UNCHANGED <<now, owner>>
      /\ host' = [host EXCEPT !.error_sts = errsts]
  BY DEF ErrorSeen
<1>2. host \in HostRecords /\ norintsts' \subseteq Bits /\ errsts \in Errors
      /\ errsts' \in Errors
  BY <1>1 DEF IInv, TypeOK, Errors
<1>3. /\ host' \in HostRecords
      /\ host'.card_clock_enabled = host.card_clock_enabled
      /\ host'.powersave_enabled = host.powersave_enabled
  BY <1>1, <1>2, HostError
<1> QED  BY <1>1, <1>2, <1>3, FailInv

LEMMA RefuseRequestInv == IInv /\ RefuseRequest => IInv'
<1> SUFFICES ASSUME IInv, RefuseRequest PROVE IInv'
  OBVIOUS
<1>1. /\ pc = "send" /\ Finish(FALSE)
      /\ UNCHANGED <<host, now, lines, intr, engine, owner>>
  BY DEF RefuseRequest
<1>2. cmdline \in {"free", "held"} /\ enabled = FALSE /\ dma = "off"
  BY <1>1 DEF IInv, TypeOK, LineInv, EngineInv
<1>3. host \in HostRecords /\ norintsts \subseteq Bits /\ errsts \in Errors
      /\ datline \in BOOLEAN /\ busy \in BOOLEAN
  BY DEF IInv, TypeOK
<1> QED  BY <1>1, <1>2, <1>3, FinishInv DEF lines, intr, engine

LEMMA CardFreeInv == IInv /\ CardFree => IInv'
<1> SUFFICES ASSUME IInv, CardFree PROVE IInv'
  OBVIOUS
<1>1. /\ pc = "busy" /\ Finish(TRUE)
      /\ UNCHANGED <<host, now, lines, intr, engine, owner>>
  BY DEF CardFree
<1>2. cmdline \in {"free", "held"} /\ enabled = FALSE /\ dma = "off"
  BY <1>1 DEF IInv, TypeOK, LineInv, EngineInv
<1>3. host \in HostRecords /\ norintsts \subseteq Bits /\ errsts \in Errors
      /\ datline \in BOOLEAN /\ busy \in BOOLEAN
  BY DEF IInv, TypeOK
<1> QED  BY <1>1, <1>2, <1>3, FinishInv DEF lines, intr, engine

-----------------------------------------------------------------------------
(* The timer. *)
LEMMA TickInv == IInv /\ Tick => IInv'
<1> SUFFICES ASSUME IInv, Tick PROVE IInv'
  OBVIOUS
<1>1. UNCHANGED <<host, regs, pc, call, deadline, wrapped, lines, intr, engine,
                  owner>>
  BY DEF Tick
<1>2. /\ now \in 0 .. (TmrMod - 1) /\ deadline \in 0 .. (TmrMod - 1)
      /\ waited \in Nat /\ wrapped \in BOOLEAN
      /\ TmrMod \in Nat \ {0} /\ WaitBound \in Nat \ {0} /\ DmaBound \in Nat \ {0}
      /\ WaitBound < TmrMod /\ DmaBound < TmrMod
  BY CmdAssumption DEF IInv, TypeOK
<1>3. now' = IF now + 1 < TmrMod THEN now + 1 ELSE (now + 1) - TmrMod
  <2>1. now' = (now + 1) % TmrMod
    BY DEF Tick
  <2>2. now + 1 \in Nat /\ now + 1 < TmrMod + TmrMod
    BY <1>2
  <2> QED  BY <1>2, <2>1, <2>2, ModSmall
<1>4. now' \in 0 .. (TmrMod - 1) /\ waited' \in Nat
      /\ (waited <= TmrMod => waited' = waited + 1)
  BY <1>2, <1>3 DEF Tick
<1>5. TypeOK'
  BY <1>1, <1>4 DEF IInv, TypeOK, call, lines, intr, engine
<1>6. ClockInv' /\ LineInv'
  BY <1>1 DEF IInv, ClockInv, ClockWanted, LineInv, IsData, call, lines, intr
<1>7. EngineInv'
  BY <1>1 DEF IInv, EngineInv, MovingInv, StopInv, IsData, BlockCount, call,
              lines, intr, engine
<1>8. TimerInv'
  <2>1. CASE pc \in PollLoops
    <3>1. now <= deadline /\ pc # "dma"
      BY <2>1 DEF Tick, Looping, DmaQuiet, PollLoops
    <3>2. wrapped = FALSE
      BY <1>2, <2>1, <3>1 DEF IInv, TimerInv
    <3>3. CASE deadline = TmrMod - 1
      BY <1>1, <3>1, <3>2, <3>3 DEF TimerInv, PollLoops
    <3>4. CASE deadline # TmrMod - 1
      <4>1. now + WaitBound = deadline + waited
        BY <2>1, <3>2, <3>4 DEF IInv, TimerInv
      <4>2. waited <= TmrMod /\ now + 1 < TmrMod
        BY <1>2, <3>1, <3>4, <4>1
      <4>3. now' + WaitBound = deadline + waited' /\ now' <= deadline + 1
        BY <1>2, <1>3, <1>4, <3>1, <4>1, <4>2
      <4> QED  BY <1>1, <3>1, <3>2, <4>3 DEF TimerInv, PollLoops
    <3> QED  BY <3>3, <3>4
  <2>2. CASE pc = "dma"
    <3>1. now < deadline
      BY <2>2 DEF Tick, Looping, DmaQuiet
    <3>2. wrapped = FALSE
      BY <1>2, <2>2, <3>1 DEF IInv, TimerInv
    <3>3. now + DmaBound = deadline + waited
      BY <2>2, <3>2 DEF IInv, TimerInv
    <3>4. waited <= TmrMod /\ now + 1 < TmrMod
      BY <1>2, <3>1, <3>3
    <3>5. now' + DmaBound = deadline + waited' /\ now' <= deadline
      BY <1>2, <1>3, <1>4, <3>1, <3>3, <3>4
    <3> QED  BY <1>1, <2>2, <3>2, <3>5 DEF TimerInv, PollLoops
  <2>3. CASE pc \notin PollLoops \cup {"dma"}
    BY <1>1, <2>3 DEF TimerInv
  <2> QED  BY <2>1, <2>2, <2>3
<1> QED  BY <1>5, <1>6, <1>7, <1>8 DEF IInv

-----------------------------------------------------------------------------
(* The controller and the card. *)
LEMMA CardRespondsInv == IInv /\ CardResponds => IInv'
<1> SUFFICES ASSUME IInv, CardResponds PROVE IInv'
  OBVIOUS
<1>1. /\ cmdline = "command" /\ cmdline' = "free" /\ owner' = TRUE
      /\ dma' = (IF IsData THEN "run" ELSE dma) /\ Latch({"RESPONSE"})
      /\ busy' = (busy \/ cmd.kind \in {"busy", "stop"})
      /\ UNCHANGED <<host, regs, pc, call, now, timer, datline, enabled, errsts,
                     admaaddr, blkcnt, moved>>
  BY DEF CardResponds
<1>2. pc = "response" /\ owner = FALSE /\ enabled = TRUE /\ dma = "off"
  BY <1>1 DEF IInv, LineInv, EngineInv
<1>3. norintsts' \subseteq Bits /\ norintsts' = norintsts \cup {"RESPONSE"}
  BY <1>1, <1>2, LatchSets DEF IInv, Bits
<1>4. TypeOK'
  <2>1. dma' \in {"off", "run", "paused"} /\ busy' \in BOOLEAN
    BY <1>1, <1>2
  <2> QED  BY <1>1, <1>3, <2>1 DEF IInv, TypeOK, call, timer
<1>5. ClockInv' /\ LineInv' /\ TimerInv'
  BY <1>1, <1>2 DEF IInv, ClockInv, ClockWanted, LineInv, TimerInv, PollLoops,
                    call, timer
<1>6. EngineInv'
  <2>1. CASE IsData
    <3>1. MovingInv /\ StopInv /\ blkcnt > 0
      BY <1>2, <2>1 DEF IInv, EngineInv, MovingInv
    <3>2. MovingInv'
      BY <1>1, <1>3, <3>1 DEF MovingInv, BlockCount, call
    <3>3. StopInv'
      BY <1>1, <1>2, <1>3, <2>1, <3>1 DEF StopInv, call
    <3> QED  BY <1>1, <1>2, <2>1, <3>1, <3>2, <3>3 DEF EngineInv, IsData, call
  <2>2. CASE ~IsData
    BY <1>1, <1>2, <2>2 DEF EngineInv, IsData, call
  <2> QED  BY <2>1, <2>2
<1> QED  BY <1>4, <1>5, <1>6 DEF IInv

LEMMA CommandErrorInv == IInv /\ CommandError => IInv'
<1> SUFFICES ASSUME IInv, CommandError PROVE IInv'
  OBVIOUS
<1>1. /\ cmdline = "command" /\ enabled = TRUE /\ errsts' \in Errors
      /\ UNCHANGED <<host, regs, pc, call, now, timer, lines, enabled, engine,
                     owner>>
  BY DEF CommandError, IInv, TypeOK
<1>2. PICK r \in {{}, {"RESPONSE"}} : Latch(r \cup {"ERROR"})
  BY DEF CommandError
<1>3. r \cup {"ERROR"} \in SUBSET Bits
  BY DEF Bits
<1>4. /\ norintsts' \subseteq Bits /\ "ERROR" \in norintsts'
      /\ norintsts' \ {"ERROR", "RESPONSE"} = norintsts \ {"ERROR", "RESPONSE"}
  BY <1>1, <1>2, <1>3, LatchSets DEF IInv, TypeOK
<1>5. TypeOK'
  BY <1>1, <1>3, <1>4 DEF IInv, TypeOK, call, timer, lines, engine
<1>6. ClockInv' /\ LineInv' /\ TimerInv'
  BY <1>1, <1>4 DEF IInv, ClockInv, ClockWanted, LineInv, IsData, TimerInv,
                    PollLoops, call, timer, lines
<1>7. EngineInv'
  <2>1. "DATA_END" \in norintsts' <=> "DATA_END" \in norintsts
    BY <1>4
  <2>2. "DMA_END" \in norintsts' <=> "DMA_END" \in norintsts
    BY <1>4
  <2> QED  BY <1>1, <2>1, <2>2 DEF IInv, EngineInv, MovingInv, StopInv, IsData,
                                  BlockCount, call, engine
<1> QED  BY <1>5, <1>6, <1>7 DEF IInv

LEMMA DataErrorInv == IInv /\ DataError => IInv'
<1> SUFFICES ASSUME IInv, DataError PROVE IInv'
  OBVIOUS
<1>1. /\ enabled = TRUE /\ errsts' = "other"
      /\ UNCHANGED <<host, regs, pc, call, now, timer, lines, enabled, engine,
                     owner>>
  BY DEF DataError, IInv, TypeOK
<1>2. Latch({"ERROR"})
  BY DEF DataError
<1>3. {"ERROR"} \in SUBSET Bits /\ errsts' \in Errors
  BY <1>1 DEF Bits, Errors
<1>4. /\ norintsts' \subseteq Bits /\ "ERROR" \in norintsts'
      /\ norintsts' \ {"ERROR", "RESPONSE"} = norintsts \ {"ERROR", "RESPONSE"}
  BY <1>1, <1>2, <1>3, LatchSets DEF IInv, TypeOK
<1>5. TypeOK'
  BY <1>1, <1>3, <1>4 DEF IInv, TypeOK, call, timer, lines, engine
<1>6. ClockInv' /\ LineInv' /\ TimerInv'
  BY <1>1, <1>4 DEF IInv, ClockInv, ClockWanted, LineInv, IsData, TimerInv,
                    PollLoops, call, timer, lines
<1>7. EngineInv'
  <2>1. "DATA_END" \in norintsts' <=> "DATA_END" \in norintsts
    BY <1>4
  <2>2. "DMA_END" \in norintsts' <=> "DMA_END" \in norintsts
    BY <1>4
  <2> QED  BY <1>1, <2>1, <2>2 DEF IInv, EngineInv, MovingInv, StopInv, IsData,
                                  BlockCount, call, engine
<1> QED  BY <1>5, <1>6, <1>7 DEF IInv

LEMMA MoveBlockInv == IInv /\ MoveBlock => IInv'
<1> SUFFICES ASSUME IInv, MoveBlock PROVE IInv'
  OBVIOUS
<1>1. /\ dma = "run" /\ blkcnt > 0 /\ moved' = moved \cup {admaaddr}
      /\ admaaddr' = admaaddr + 1 /\ blkcnt' = blkcnt - 1
      /\ UNCHANGED <<host, regs, pc, call, now, timer, cmdline, enabled, errsts,
                     owner>>
  BY DEF MoveBlock
<1>2. /\ pc \in {"response", "dma"} /\ IsData /\ owner = TRUE /\ enabled = TRUE
      /\ MovingInv /\ StopInv
  BY <1>1 DEF IInv, EngineInv, LineInv
<1>3. /\ admaaddr \in Nat /\ dma_addr_next \in Nat /\ blkcnt \in 0 .. MaxBlocks
      /\ cmd.buf \in Nat /\ BlockCount \in Nat /\ MaxBlocks \in Nat
      /\ Boundary \in Nat \ {0}
  BY BlockCountType, CmdAssumption DEF IInv, TypeOK
<1> DEFINE boundary == (admaaddr + 1) % Boundary = 0
<1>4. /\ boundary => admaaddr + 1 = dma_addr_next
      /\ ~boundary => admaaddr + 1 < dma_addr_next
  <2>1. /\ dma_addr_next % Boundary = 0
        /\ admaaddr < dma_addr_next /\ dma_addr_next <= admaaddr + Boundary
    BY <1>1, <1>2 DEF StopInv
  <2>2. boundary => admaaddr + 1 = dma_addr_next
    BY <1>3, <2>1, BoundaryHit
  <2>3. admaaddr + 1 = dma_addr_next => boundary
    BY <2>1
  <2> HIDE DEF boundary
  <2> QED  BY <1>3, <2>1, <2>2, <2>3
<1>5. "DATA_END" \notin norintsts
  BY <1>1, <1>2, <1>3 DEF MovingInv
<1>6. moved' = cmd.buf .. (admaaddr' - 1)
  <2>1. moved = cmd.buf .. (admaaddr - 1) /\ cmd.buf <= admaaddr
    BY <1>2 DEF MovingInv
  <2>2. moved' = cmd.buf .. admaaddr
    BY <1>1, <1>3, <2>1
  <2>3. admaaddr' - 1 = admaaddr
    BY <1>1, <1>3
  <2> QED  BY <2>2, <2>3
<1>7. CASE blkcnt = 1
  <2>1. dma' = "off" /\ datline' = FALSE /\ busy' \in BOOLEAN /\ blkcnt' = 0
    BY <1>1, <1>7 DEF MoveBlock
  <2>2. PICK b \in {{}, {"DMA_END"}} : Latch(b \cup {"DATA_END"})
    BY <1>7 DEF MoveBlock
  <2>3. b \cup {"DATA_END"} \in SUBSET Bits
    BY DEF Bits
  <2>4. /\ norintsts' \subseteq Bits /\ "DATA_END" \in norintsts'
        /\ norintsts' \ {"DATA_END", "DMA_END"} = norintsts \ {"DATA_END", "DMA_END"}
    BY <1>2, <2>2, <2>3, LatchSets DEF IInv, TypeOK
  <2>5. TypeOK'
    <3>1. admaaddr' \in Nat /\ blkcnt' \in 0 .. MaxBlocks /\ moved' \subseteq Nat
      BY <1>1, <1>3, <2>1 DEF IInv, TypeOK
    <3> QED  BY <1>1, <2>1, <2>4, <3>1 DEF IInv, TypeOK, call, timer
  <2>6. ClockInv' /\ LineInv' /\ TimerInv'
    BY <1>1, <1>2, <2>4 DEF IInv, ClockInv, ClockWanted, LineInv, IsData, TimerInv,
                            PollLoops, call, timer
  <2>7. MovingInv'
    BY <1>1, <1>2, <1>3, <1>6, <2>1 DEF MovingInv, BlockCount, call
  <2>8. StopInv'
    BY <1>1, <1>2, <2>1, <2>4 DEF StopInv, call
  <2>9. EngineInv'
    BY <1>1, <1>2, <2>1, <2>7, <2>8 DEF EngineInv, IsData, call
  <2> QED  BY <2>5, <2>6, <2>9 DEF IInv
<1>8. CASE blkcnt # 1
  <2>1. /\ dma' = (IF boundary THEN "paused" ELSE "run")
        /\ Latch(IF boundary THEN {"DMA_END"} ELSE {})
        /\ UNCHANGED <<datline, busy>>
    BY <1>8 DEF MoveBlock
  <2> DEFINE b == IF boundary THEN {"DMA_END"} ELSE {}
  <2>2. b \in SUBSET Bits /\ Latch(b)
    BY <2>1 DEF Bits
  <2> HIDE DEF b
  <2>3. norintsts' \subseteq Bits /\ norintsts' = norintsts \cup b
    BY <1>2, <2>2, LatchSets DEF IInv
  <2>4. /\ norintsts' \ {"DMA_END"} = norintsts \ {"DMA_END"}
        /\ ~boundary => norintsts' = norintsts
    BY <2>3 DEF b
  <2>5. blkcnt' > 0 /\ blkcnt' \in 0 .. MaxBlocks
    BY <1>1, <1>3, <1>8
  <2>6. TypeOK'
    <3>1. /\ admaaddr' \in Nat /\ moved' \subseteq Nat
          /\ dma' \in {"off", "run", "paused"}
      BY <1>1, <1>3, <2>1 DEF IInv, TypeOK
    <3> QED  BY <1>1, <2>1, <2>3, <2>5, <3>1 DEF IInv, TypeOK, call, timer
  <2>7. ClockInv' /\ LineInv' /\ TimerInv'
    BY <1>1, <1>2, <2>4 DEF IInv, ClockInv, ClockWanted, LineInv, IsData, TimerInv,
                            PollLoops, call, timer
  <2>8. MovingInv'
    BY <1>1, <1>2, <1>3, <1>5, <1>6, <2>4, <2>5 DEF MovingInv, BlockCount, call
  <2>9. StopInv'
    <3>1. dma_addr_next' = dma_addr_next /\ dma_addr_next % Boundary = 0
          /\ dma_addr_next <= admaaddr + Boundary
      BY <1>1, <1>2 DEF StopInv, call
    <3>2. CASE boundary
      <4>1. dma' = "paused" /\ admaaddr' = dma_addr_next
        BY <1>1, <1>4, <2>1, <3>2
      <4> QED  BY <3>1, <4>1 DEF StopInv
    <3>3. CASE ~boundary
      <4>1. dma' = "run" /\ norintsts' = norintsts
        BY <2>1, <2>4, <3>3
      <4>2. "DMA_END" \in norintsts => dma = "paused"
        BY <1>2, <1>5 DEF StopInv
      <4>3. admaaddr' < dma_addr_next /\ dma_addr_next <= admaaddr' + Boundary
        BY <1>1, <1>3, <1>4, <3>1, <3>3
      <4> QED  BY <1>1, <3>1, <4>1, <4>2, <4>3 DEF StopInv
    <3> QED  BY <3>2, <3>3
  <2>10. EngineInv'
    BY <1>1, <1>2, <2>5, <2>8, <2>9 DEF EngineInv, IsData, call
  <2> QED  BY <2>6, <2>7, <2>10 DEF IInv
<1> QED  BY <1>7, <1>8

LEMMA CardReadyInv == IInv /\ CardReady => IInv'
<1> SUFFICES ASSUME IInv, CardReady PROVE IInv'
  OBVIOUS
<1>1. /\ busy' = FALSE /\ datline' = (datline /\ dma # "off")
      /\ Latch(IF cmd.kind \in {"busy", "stop"} /\ owner THEN {"DATA_END"} ELSE {})
      /\ UNCHANGED <<host, regs, pc, call, now, timer, cmdline, enabled, errsts,
                     engine, owner>>
  BY DEF CardReady
<1> DEFINE b == IF cmd.kind \in {"busy", "stop"} /\ owner THEN {"DATA_END"} ELSE {}
<1>2. b \in SUBSET Bits /\ Latch(b) /\ (IsData => b = {}) /\ b \subseteq {"DATA_END"}
  BY <1>1 DEF Bits, IsData
<1> HIDE DEF b
<1>3. enabled \in BOOLEAN /\ datline' \in BOOLEAN
  BY <1>1 DEF IInv, TypeOK
<1>4. /\ norintsts' \subseteq Bits /\ (IsData => norintsts' = norintsts)
      /\ norintsts' \ {"DATA_END"} = norintsts \ {"DATA_END"}
  BY <1>2, <1>3, LatchSets DEF IInv
<1>5. TypeOK'
  BY <1>1, <1>3, <1>4 DEF IInv, TypeOK, call, timer, engine
<1>6. ClockInv' /\ LineInv' /\ TimerInv'
  BY <1>1, <1>4 DEF IInv, ClockInv, ClockWanted, LineInv, IsData, TimerInv,
                    PollLoops, call, timer
<1>7. EngineInv'
  BY <1>1, <1>4 DEF IInv, EngineInv, MovingInv, StopInv, IsData, BlockCount, call,
                    engine
<1> QED  BY <1>5, <1>6, <1>7 DEF IInv

LEMMA LineHeldInv == IInv /\ LineHeld => IInv'
<1> SUFFICES ASSUME IInv, LineHeld PROVE IInv'
  OBVIOUS
<1>1. /\ pc # "response" /\ cmdline' \in {cmdline, "free", "held"}
      /\ datline' \in {datline, TRUE, FALSE}
      /\ UNCHANGED <<host, regs, pc, call, now, timer, busy, intr, engine, owner>>
  BY DEF LineHeld
<1>2. TypeOK'
  <2>1. cmdline' \in {"free", "command", "held"} /\ datline' \in BOOLEAN
    BY <1>1 DEF IInv, TypeOK
  <2> QED  BY <1>1, <2>1 DEF IInv, TypeOK, call, timer, intr, engine
<1>3. ClockInv' /\ LineInv' /\ TimerInv'
  BY <1>1 DEF IInv, ClockInv, ClockWanted, LineInv, IsData, TimerInv, PollLoops,
              call, timer, intr
<1>4. EngineInv'
  BY <1>1 DEF IInv, EngineInv, MovingInv, StopInv, IsData, BlockCount, call, intr,
              engine
<1> QED  BY <1>2, <1>3, <1>4 DEF IInv

LEMMA LineReleasedInv == IInv /\ LineReleased => IInv'
<1> SUFFICES ASSUME IInv, LineReleased PROVE IInv'
  OBVIOUS
<1>1. /\ pc # "response" /\ cmdline' \in {cmdline, "free", "held"}
      /\ datline' \in {datline, TRUE, FALSE}
      /\ UNCHANGED <<host, regs, pc, call, now, timer, busy, intr, engine, owner>>
  BY DEF LineReleased
<1>2. TypeOK'
  <2>1. cmdline' \in {"free", "command", "held"} /\ datline' \in BOOLEAN
    BY <1>1 DEF IInv, TypeOK
  <2> QED  BY <1>1, <2>1 DEF IInv, TypeOK, call, timer, intr, engine
<1>3. ClockInv' /\ LineInv' /\ TimerInv'
  BY <1>1 DEF IInv, ClockInv, ClockWanted, LineInv, IsData, TimerInv, PollLoops,
              call, timer, intr
<1>4. EngineInv'
  BY <1>1 DEF IInv, EngineInv, MovingInv, StopInv, IsData, BlockCount, call, intr,
              engine
<1> QED  BY <1>2, <1>3, <1>4 DEF IInv

-----------------------------------------------------------------------------
(* The callers, between two commands. *)
LEMMA BetweenCalls ==
    ASSUME IInv, pc = "idle", UNCHANGED IdleRest,
           host' \in HostRecords, regs' \in RegRecords,
           regs'.card_en = TRUE <=> ClockWanted'
    PROVE  IInv'
  <1>1. UNCHANGED <<pc, call, now, timer, lines, intr, engine, owner>>
    BY DEF IdleRest
  <1>2. TypeOK'
    BY <1>1 DEF IInv, TypeOK, call, timer, lines, intr, engine
  <1>3. ClockInv'
    BY <1>1 DEF ClockInv
  <1>4. LineInv' /\ TimerInv'
    BY <1>1 DEF IInv, LineInv, IsData, TimerInv, PollLoops, call, timer, lines, intr
  <1>5. EngineInv'
    BY <1>1 DEF IInv, EngineInv, MovingInv, StopInv, IsData, BlockCount, call,
                lines, intr, engine
  <1> QED  BY <1>2, <1>3, <1>4, <1>5 DEF IInv

LEMMA SetPowersaveInv == IInv /\ SetPowersave => IInv'
<1> SUFFICES ASSUME IInv, SetPowersave PROVE IInv'
  OBVIOUS
<1>1. PICK on \in BOOLEAN : host' = Powersave(host, on)
                            /\ regs' = PowersaveRegs(host, regs, on)
  BY DEF SetPowersave
<1>2. pc = "idle" /\ UNCHANGED IdleRest /\ (regs.card_en = TRUE <=> ClockWanted)
      /\ host \in HostRecords /\ regs \in RegRecords
  BY DEF SetPowersave, IInv, TypeOK, ClockInv
<1>3. /\ host' \in HostRecords /\ host'.powersave_enabled = on
      /\ host'.card_clock_enabled = host.card_clock_enabled
  BY <1>1, <1>2 DEF Powersave, HostRecords
<1>4. /\ regs' \in RegRecords
      /\ regs'.card_en = (~on /\ (regs.card_en \/ host.card_clock_enabled))
  BY <1>1, <1>2 DEF PowersaveRegs, RegRecords
<1>5. regs'.card_en = TRUE <=> ClockWanted'
  BY <1>2, <1>3, <1>4 DEF ClockWanted, RegRecords, HostRecords
<1> QED  BY <1>2, <1>3, <1>4, <1>5, BetweenCalls

LEMMA StartClockInv == IInv /\ StartClock => IInv'
<1> SUFFICES ASSUME IInv, StartClock PROVE IInv'
  OBVIOUS
<1>1. /\ pc = "idle" /\ UNCHANGED IdleRest /\ ~host.card_clock_enabled
      /\ host' = ClockEnable(host) /\ regs' = ClockEnableRegs(host, regs)
      /\ (regs.card_en = TRUE <=> ClockWanted)
      /\ host \in HostRecords /\ regs \in RegRecords
  BY DEF StartClock, IInv, TypeOK, ClockInv
<1>2. /\ host' \in HostRecords /\ host'.card_clock_enabled = TRUE
      /\ host'.powersave_enabled = host.powersave_enabled
  BY <1>1 DEF ClockEnable, HostRecords
<1>3. /\ regs' \in RegRecords
      /\ regs'.card_en = (regs.card_en \/ ~host.powersave_enabled)
  BY <1>1 DEF ClockEnableRegs, RegRecords
<1>4. regs'.card_en = TRUE <=> ClockWanted'
  BY <1>1, <1>2, <1>3 DEF ClockWanted, RegRecords, HostRecords
<1> QED  BY <1>1, <1>2, <1>3, <1>4, BetweenCalls

LEMMA StopClockInv == IInv /\ StopClock => IInv'
<1> SUFFICES ASSUME IInv, StopClock PROVE IInv'
  OBVIOUS
<1>1. /\ pc = "idle" /\ UNCHANGED IdleRest
      /\ host' = ClockDisable(host) /\ regs' = ClockDisableRegs(regs)
      /\ host \in HostRecords /\ regs \in RegRecords
  BY DEF StopClock, IInv, TypeOK
<1>2. host' \in HostRecords /\ host'.card_clock_enabled = FALSE
  BY <1>1 DEF ClockDisable, HostRecords
<1>3. regs' \in RegRecords /\ regs'.card_en = FALSE
  BY <1>1 DEF ClockDisableRegs, RegRecords
<1>4. regs'.card_en = TRUE <=> ClockWanted'
  BY <1>2, <1>3 DEF ClockWanted
<1> QED  BY <1>1, <1>2, <1>3, <1>4, BetweenCalls

LEMMA StutterInv == IInv /\ UNCHANGED vars => IInv'
<1> SUFFICES ASSUME IInv, UNCHANGED vars PROVE IInv'
  OBVIOUS
<1>1. TypeOK' /\ ClockInv' /\ LineInv' /\ TimerInv'
  BY DEF IInv, vars, TypeOK, ClockInv, ClockWanted, LineInv, IsData, TimerInv,
         PollLoops, call, timer, lines, intr, engine
<1>2. EngineInv'
  BY DEF IInv, vars, EngineInv, MovingInv, StopInv, IsData, BlockCount, call,
         timer, lines, intr, engine
<1> QED  BY <1>1, <1>2 DEF IInv

-----------------------------------------------------------------------------
LEMMA InitInv == Init => IInv
<1> SUFFICES ASSUME Init PROVE IInv
  OBVIOUS
<1>1. host \in HostRecords /\ regs \in RegRecords
  BY DEF Init, ClearedHost, ResetRegs, HostRecords, RegRecords, Errors, Timings,
         HighVoltageTimings, Voltages
<1>2. TypeOK
  <2>1. 0 \in 0 .. MaxBlocks /\ 0 \in 0 .. (TmrMod - 1) /\ "none" \in Errors
    BY CmdAssumption DEF Errors
  <2>2. /\ cmd \in Requests \cup {StopTransmission} /\ restore = FALSE
        /\ pc \in PollLoops \cup {"idle", "send", "dma"}
    BY IdleCommand DEF Init
  <2> QED  BY <1>1, <2>1, <2>2 DEF Init, TypeOK
<1>3. ClockInv
  BY DEF Init, ClockInv, ClockWanted, ClearedHost, ResetRegs
<1>4. LineInv /\ EngineInv /\ TimerInv
  BY IdleCommand DEF Init, LineInv, EngineInv, TimerInv, PollLoops, IsData
<1> QED  BY <1>2, <1>3, <1>4 DEF IInv

LEMMA StepInv == IInv /\ [Next]_vars => IInv'
<1> SUFFICES ASSUME IInv, [Next]_vars PROVE IInv'
  OBVIOUS
<1>1. CASE Call
  BY <1>1, BeginInv DEF Call
<1>2. CASE Driver
  BY <1>2, CmdLineFreeInv, DatLineFreeInv, InhibitTimeoutInv, RefuseRequestInv,
     SendCmdInv, ErrorSeenInv, ResponseSeenInv, ResponseTimeoutInv, DataEndInv,
     DmaEndInv, DmaProgressInv, DmaTimeoutInv, CardFreeInv, BusyTimeoutInv
     DEF Driver
<1>3. CASE Tick
  BY <1>3, TickInv
<1>4. CASE Hardware
  BY <1>4, CardRespondsInv, CommandErrorInv, MoveBlockInv, DataErrorInv,
     CardReadyInv, LineHeldInv, LineReleasedInv DEF Hardware
<1>5. CASE SetPowersave \/ StartClock \/ StopClock
  BY <1>5, SetPowersaveInv, StartClockInv, StopClockInv
<1>6. CASE UNCHANGED vars
  BY <1>6, StutterInv
<1> QED  BY <1>1, <1>2, <1>3, <1>4, <1>5, <1>6 DEF Next

(* Every step of the driver, the timer, the controller and the callers     *)
(* keeps the inductive invariant.                                          *)
THEOREM Invariance == Spec => []IInv
<1>1. Init => IInv
  BY InitInv
<1>2. IInv /\ [Next]_vars => IInv'
  BY StepInv
<1> QED  BY <1>1, <1>2, PTL DEF Spec

(* Every variable keeps its type, and no wait outlasts its bound, but for  *)
(* a deadline on the last value of the timer: _sdmmc_wait_cmd_data_inhibit,*)
(* _sdmmc_wait_response, _sdmmc_update_sdma and _sdmmc_wait_card_busy give *)
(* up in time whatever the card does and wherever the timer starts.        *)
THEOREM StaysInBounds == Spec => []InBounds
<1>1. IInv => InBounds
  <2> SUFFICES ASSUME IInv PROVE WaitIsBounded
    BY DEF InBounds, IInv
  <2>1. /\ now \in 0 .. (TmrMod - 1) /\ deadline \in 0 .. (TmrMod - 1)
        /\ waited \in Nat /\ wrapped \in BOOLEAN /\ TmrMod \in Nat
        /\ WaitBound \in Nat /\ DmaBound \in Nat
    BY CmdAssumption DEF IInv, TypeOK
  <2>2. ASSUME pc \in PollLoops
        PROVE  waited <= WaitBound + 1 \/ deadline = TmrMod - 1
    BY <2>1, <2>2 DEF IInv, TimerInv
  <2>3. ASSUME pc = "dma" PROVE waited <= DmaBound
    BY <2>1, <2>3 DEF IInv, TimerInv
  <2> QED  BY <2>2, <2>3 DEF WaitIsBounded
<1> QED  BY <1>1, Invariance, PTL

(* A response the driver takes was given to the command it sent, although  *)
(* errors and timeouts leave bits behind and are not always looked at.     *)
THEOREM ResponseIsOfCommand == Spec => []ResponseIsOurs
<1>1. IInv => ResponseIsOurs
  <2> SUFFICES ASSUME IInv PROVE ResponseIsOurs
    OBVIOUS
  <2>1. /\ pc = "response" /\ "RESPONSE" \in norintsts =>
              owner = TRUE \/ "ERROR" \in norintsts
        /\ pc \in {"dma", "busy"} => owner = TRUE
    BY DEF IInv, LineInv
  <2> QED  BY <2>1 DEF ResponseIsOurs
<1> QED  BY <1>1, Invariance, PTL

(* A data command that reports success moved the blocks of its request and *)
(* no other, whatever the boundary and the alignment of the buffer to it;  *)
(* no failure leaves the engine running into memory its owner has back.    *)
THEOREM DataIsSafe == Spec => []DataSafe
<1>1. IInv => DmaExact
  <2> SUFFICES ASSUME IInv, IsData PROVE
           /\ pc \in {"response", "dma", "busy"} =>
                 moved \subseteq cmd.buf .. (cmd.buf + BlockCount - 1)
           /\ pc = "busy" => moved = cmd.buf .. (cmd.buf + BlockCount - 1)
    BY DEF DmaExact
  <2>1. CASE pc \in {"response", "dma"}
    <3>1. MovingInv
      BY <2>1 DEF IInv, EngineInv
    <3>2. /\ admaaddr \in Nat /\ cmd.buf \in Nat /\ BlockCount \in Nat
          /\ blkcnt \in Nat
      BY BlockCountType, CmdAssumption DEF IInv, TypeOK
    <3>3. admaaddr - 1 <= cmd.buf + BlockCount - 1
      BY <3>1, <3>2 DEF MovingInv
    <3>4. moved = cmd.buf .. (admaaddr - 1)
      BY <3>1 DEF MovingInv
    <3> QED  BY <2>1, <3>2, <3>3, <3>4
  <2>2. CASE pc = "busy"
    BY <2>2 DEF IInv, EngineInv
  <2> QED  BY <2>1, <2>2
<1>2. IInv => QuietBetween
  <2> SUFFICES ASSUME IInv, pc = "idle"
               PROVE  dma = "off" /\ ~enabled /\ regs.card_en = ClockWanted
    BY DEF QuietBetween
  <2>1. dma = "off" /\ enabled = FALSE
    BY DEF IInv, EngineInv, LineInv
  <2>2. regs.card_en \in BOOLEAN /\ (regs.card_en = TRUE <=> ClockWanted)
    BY DEF IInv, TypeOK, RegRecords, ClockInv
  <2>3. ClockWanted \in BOOLEAN
    BY DEF ClockWanted
  <2> QED  BY <2>1, <2>2, <2>3
<1>3. IInv => DataSafe
  BY <1>1, <1>2 DEF DataSafe
<1> QED  BY <1>3, Invariance, PTL

(* A wait without an error is given up only after the whole of its bound,  *)
(* but for a deadline that wrapped around the timer.                       *)
THEOREM TimeoutsAreHonest == Spec => TimeoutsHonest
<1> DEFINE Honest == GivesUp =>
               \/ waited > (IF pc = "dma" THEN DmaBound - 1 ELSE WaitBound)
               \/ wrapped
<1>1. IInv /\ [Next]_vars => [Honest]_vars
  <2> SUFFICES ASSUME IInv, Next, GivesUp, ~wrapped
               PROVE  waited > (IF pc = "dma" THEN DmaBound - 1 ELSE WaitBound)
    OBVIOUS
  <2>1. /\ now \in 0 .. (TmrMod - 1) /\ deadline \in 0 .. (TmrMod - 1)
        /\ waited \in Nat /\ wrapped = FALSE /\ TmrMod \in Nat
        /\ WaitBound \in Nat /\ DmaBound \in Nat
    BY CmdAssumption DEF IInv, TypeOK
  <2>2. /\ pc \in PollLoops \cup {"dma"} /\ pc' = "idle" /\ ~result'
        /\ "ERROR" \notin norintsts
    BY DEF GivesUp
  <2>3. \/ pc \in PollLoops /\ now > deadline
        \/ pc = "dma" /\ now >= deadline
    <3>1. InhibitTimeout \/ ResponseTimeout \/ DmaTimeout \/ BusyTimeout
      BY <2>2 DEF Next, Call, Begin, Driver, Hardware, CmdLineFree, DatLineFree,
         RefuseRequest, SendCmd, ErrorSeen, ResponseSeen, DataEnd, DmaEnd,
         DmaProgress, DmaQuiet, CardFree, Tick, CardResponds, CommandError,
         MoveBlock, DataError, CardReady, LineHeld, LineReleased, SetPowersave,
         StartClock, StopClock, IdleRest, Finish, PollLoops
    <3> QED  BY <3>1 DEF InhibitTimeout, ResponseTimeout, DmaTimeout, DmaQuiet,
                        BusyTimeout, PollLoops
  <2>4. CASE pc \in PollLoops /\ now > deadline
    <3>1. deadline # TmrMod - 1 /\ pc # "dma"
      BY <2>1, <2>4 DEF PollLoops
    <3>2. now + WaitBound = deadline + waited
      BY <2>1, <2>4, <3>1 DEF IInv, TimerInv
    <3> QED  BY <2>1, <2>4, <3>1, <3>2
  <2>5. CASE pc = "dma" /\ now >= deadline
    <3>1. now + DmaBound = deadline + waited
      BY <2>1, <2>5 DEF IInv, TimerInv
    <3> QED  BY <2>1, <2>5, <3>1
  <2> QED  BY <2>3, <2>4, <2>5
<1>2. Spec => [][Honest]_vars
  BY <1>1, Invariance, PTL DEF Spec
<1> QED  BY <1>2 DEF TimeoutsHonest
=============================================================================
