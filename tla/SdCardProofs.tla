---------------------------- MODULE SdCardProofs ----------------------------
(***************************************************************************)
(* Proofs about the initialization of a card, for cards of every kind,     *)
(* every mode it may be tried in and every number of looks at a busy card: *)
(* card, controller, clock, regulator and records agree whenever a handle  *)
(* is live, and the record always knows the supply it has to cut.          *)
(***************************************************************************)
EXTENDS SdCard, TLAPS

(* How far an initialization is: before the voltage switch, selected (the  *)
(* card takes data commands), with the speed of the bus being settled.     *)
Early    == {"go_idle", "if_cond", "op_cond", "switch_voltage", "low_clock"}
Switched == {"rails", "sdclk"}
Named    == {"cid", "rca", "csd", "default_clock"}
Asking   == {"blocklen", "card_detect", "scr", "bus_width"}
Choosing == {"uhs_fmodes", "hs_fmodes", "set_speed"}
Setting  == {"uhs_clock", "hs_status", "hs_clock"}
Settled  == {"tune", "uhs_status", "ssr"}
Powered  == Early \cup Switched \cup Named \cup {"select"} \cup Asking
               \cup Choosing \cup Setting \cup Settled

Live == pc \in Powered \/ storage.initialized

(* The records: a step of the initialization has a running host. *)
HostInv ==
    /\ RecordBacked
    /\ pc \in Powered => host.card_clock_enabled
    /\ storage.initialized => pc \in {"idle", "host"}
    /\ ended => pc = "idle"

(* The card: which states it can be in at each step, a card put in         *)
(* meanwhile (idle) or none (off) included; outside the transfer state it  *)
(* is as it was after power-up; once asked it is addressed as it said.     *)
CardInv ==
    /\ ~inserted => card.state = "off"
    /\ card.state # "tran" => card.width = 1 /\ card.fn = 0
    /\ pc \in {"if_cond", "op_cond", "low_clock"} \cup Switched =>
          card.state \in {"off", "idle", "switching"}
    /\ pc = "switch_voltage" => card.state \in {"off", "idle", "ready"}
    /\ pc = "cid" => card.state \in {"off", "idle", "ready", "switching"}
    /\ pc = "rca" => card.state \in {"off", "idle", "ident"}
    /\ pc \in {"csd", "default_clock", "select"} =>
          card.state \in {"off", "idle", "stby"}
    /\ pc \in Asking \cup Choosing \cup Setting \cup Settled =>
          card.state \in {"off", "idle", "tran"}
    /\ Live /\ pc \notin {"go_idle", "if_cond", "op_cond"}
            /\ card.state \notin {"off", "idle"} =>
          storage.has_sector_access = kind.ccs

(* The rails follow the controller, and the card the rails. *)
RailsAgree ==
    /\ board.ldo2 = regs.io /\ board.det33 = (regs.io = "3.3")
    /\ storage.is_low_voltage = (regs.io = "1.8")

VoltInv ==
    /\ Live /\ pc # "sdclk" => RailsAgree
    /\ pc = "sdclk" =>
          /\ board.ldo2 = "1.8" /\ ~board.det33 /\ regs.io = "1.8"
          /\ ~storage.is_low_voltage
    /\ pc \in Early \cup {"rails"} => regs.io = "3.3"
    /\ pc \in Early \cup Switched => card.volt = "3.3" \/ warm
    /\ Live /\ pc \notin Early \cup Switched
            /\ card.state \notin {"off", "idle", "switching"} =>
          card.volt = regs.io \/ warm

(* The timing of the controller at each step, its clock, and what the card *)
(* was told.                                                               *)
TimingInv ==
    /\ pc \in Early => regs.timing = "SD_ID"
    /\ pc \in Switched => regs.timing = "SDR12"
    /\ pc \in Named =>
          regs.timing = IF storage.is_low_voltage THEN "SDR12" ELSE "SD_ID"
    /\ pc \in {"select"} \cup Asking \cup Choosing \cup Setting =>
          regs.timing = IF storage.is_low_voltage THEN "SDR12" ELSE "DS12"
    /\ pc \in {"set_speed", "uhs_clock", "tune"} =>
          hs_type \in {"HS25", "SDR25", "SDR50", "SDR104"}
    /\ pc \in {"hs_status", "hs_clock"} => hs_type = "HS25"
    /\ pc = "uhs_clock" => hs_type # "HS25"
    /\ pc = "tune" => regs.timing = hs_type /\ hs_type # "HS25"
    /\ Live /\ pc # "tune" /\ regs.timing \in {"SDR50", "SDR104"} => regs.tuned

ClkInv ==
    /\ Live => clk.enabled /\ clk.clock = CardClock(regs.timing)
    /\ clk.enabled /\ FromPllc4(clk.clock) => clk.pllc4

BusInv ==
    /\ pc \in Early \cup Switched \cup Named \cup {"select"} \cup Asking =>
          regs.width = 1
    /\ card.state = "tran" =>
          /\ pc \in Asking => card.width = 1
          /\ Live /\ pc \notin Early \cup Asking => card.width = regs.width
          /\ pc \in Asking \cup Choosing => card.fn = 0
          /\ pc \in Setting => card.fn = Function(hs_type)
          /\ pc \in Settled \/ storage.initialized =>
                card.fn = Function(regs.timing)

IInv ==
    /\ TypeOK /\ HostInv /\ CardInv /\ VoltInv
    /\ TimingInv /\ ClkInv /\ BusInv

USE DEF Early, Switched, Named, Asking, Choosing, Setting, Settled, Powered,
        locals, slot

(* What a change of one field of the card leaves of the others. *)
LEMMA CardState ==
    ASSUME NEW c \in CardRecords,
           NEW s \in {"idle", "ready", "switching", "ident", "stby", "tran"},
           NEW d, d = [c EXCEPT !.state = s]
    PROVE  d \in CardRecords /\ d.state = s /\ d.volt = c.volt
           /\ d.width = c.width /\ d.fn = c.fn
BY DEF CardRecords

LEMMA CardWidth ==
    ASSUME NEW c \in CardRecords, NEW d, d = [c EXCEPT !.width = 4]
    PROVE  d \in CardRecords /\ d.width = 4 /\ d.state = c.state
           /\ d.volt = c.volt /\ d.fn = c.fn
BY DEF CardRecords

LEMMA CardFunction ==
    ASSUME NEW c \in CardRecords, NEW f \in 0 .. 3, NEW d,
           d = [c EXCEPT !.fn = f]
    PROVE  d \in CardRecords /\ d.fn = f /\ d.state = c.state
           /\ d.volt = c.volt /\ d.width = c.width
BY DEF CardRecords

LEMMA CardSwitched ==
    ASSUME NEW c \in CardRecords, NEW d,
           d = [c EXCEPT !.state = "ready", !.volt = "1.8"]
    PROVE  d \in CardRecords /\ d.state = "ready" /\ d.volt = "1.8"
           /\ d.width = c.width /\ d.fn = c.fn
BY DEF CardRecords

LEMMA ResetCard ==
    ASSUME NEW c \in CardRecords
    PROVE  AfterReset(c) \in CardRecords
BY DEF CardRecords, AfterReset

(* A command: what it leaves of the card, the next step, the handle. *)
LEMMA CommandOutcome ==
    ASSUME NEW states, NEW effect, NEW next,
           \/ Answered(states, effect, next) /\ UNCHANGED storage
           \/ Lost(states, effect)
    PROVE  /\ card' = card \/ (card' = effect /\ inserted /\ card.state \in states)
           /\ pc' = "idle" \/ (pc' = next /\ card' = effect
                     /\ inserted /\ card.state \in states)
           /\ storage' = storage
           /\ done' = FALSE \/ done' = done
BY DEF Answered, Lost, Reached, InitFails, Returns0

LEMMA KindFields ==
    ASSUME NEW k \in Kinds
    PROVE  k.ccs \in BOOLEAN /\ k.s18 \in BOOLEAN /\ k.v2 \in BOOLEAN
           /\ k.wide \in BOOLEAN
BY CardAssumption DEF CardAssumption, CardKinds

LEMMA TimingClock ==
    ASSUME NEW t \in Timings
    PROVE  CardClock(t) \in Clocks
BY DEF Timings, UhsTimings, HighVoltageTimings, CardClock, Clocks

(* What a step that changes neither clock nor timing keeps. *)
LEMMA ClkKept ==
    ASSUME ClkInv, clk' = clk, Live' => Live, regs'.timing = regs.timing
    PROVE  ClkInv'
BY DEF ClkInv

(* sdmmc_setup_clock *)
LEMMA SetupFields ==
    ASSUME regs \in RegRecords, NEW t \in Timings, regs' = SetupClock(regs, t)
    PROVE  /\ regs' \in RegRecords
           /\ regs'.timing = t /\ regs'.tuned = FALSE
           /\ regs'.width = regs.width /\ regs'.io = regs.io
<1>1. (t \in UhsTimings) \in BOOLEAN  OBVIOUS
<1>2. regs' \in RegRecords
  BY <1>1 DEF RegRecords, SetupClock
<1>3. /\ regs'.timing = t /\ regs'.tuned = FALSE
      /\ regs'.width = regs.width /\ regs'.io = regs.io
  BY DEF RegRecords, SetupClock
<1> QED  BY <1>2, <1>3

LEMMA HostClockOutcome ==
    ASSUME TypeOK, ClkInv, NEW t \in Timings, clk' = ConfigClockSource(clk, t)
    PROVE  /\ clk' \in ClkRecords
           /\ clk'.enabled = clk.enabled /\ clk'.clock = CardClock(t)
           /\ clk'.enabled /\ FromPllc4(clk'.clock) => clk'.pllc4
<1>0. clk \in ClkRecords /\ CardClock(t) \in Clocks
  BY TimingClock DEF TypeOK
<1>1. CASE clk.clock = CardClock(t)
  BY <1>0, <1>1 DEF ConfigClockSource, ClkInv
<1>2. CASE clk.clock # CardClock(t) /\ FromPllc4(CardClock(t))
  <2>1. clk' = [[clk EXCEPT !.pllc4 = TRUE] EXCEPT !.clock = CardClock(t)]
    BY <1>2 DEF ConfigClockSource, ConfigClockHost, EnablePllc4
  <2> DEFINE c == [clk EXCEPT !.pllc4 = TRUE]
  <2>2. c \in ClkRecords /\ c.pllc4 /\ c.enabled = clk.enabled
    BY <1>0 DEF ClkRecords
  <2> HIDE DEF c
  <2>3. clk' = [c EXCEPT !.clock = CardClock(t)]
    BY <2>1 DEF c
  <2> QED  BY <1>0, <2>2, <2>3 DEF ClkRecords
<1>3. CASE clk.clock # CardClock(t) /\ ~FromPllc4(CardClock(t))
  <2>1. clk' = [clk EXCEPT !.clock = CardClock(t)]
    BY <1>3 DEF ConfigClockSource, ConfigClockHost
  <2>2. /\ clk' \in ClkRecords /\ clk'.clock = CardClock(t)
        /\ clk'.enabled = clk.enabled
    BY <1>0, <2>1 DEF ClkRecords
  <2> QED  BY <1>3, <2>2
<1> QED  BY <1>1, <1>2, <1>3

(* clock_sdmmc_enable *)
LEMMA FirstClock ==
    ASSUME NEW c \in ClkRecords, NEW d, d = SdmmcClockEnable(c, "SD_ID")
    PROVE  /\ d \in ClkRecords /\ d.enabled = TRUE
           /\ d.clock = CardClock("SD_ID") /\ ~FromPllc4(d.clock)
<1> DEFINE f == CardClock("SD_ID")
           e == ConfigClockHost(c, f)
<1>1. ~FromPllc4(f)
  BY DEF CardClock, FromPllc4
<1>2. f \in Clocks
  BY TimingClock DEF Timings, HighVoltageTimings
<1>3. d = [e EXCEPT !.enabled = TRUE]
  BY DEF SdmmcClockEnable
<1> HIDE DEF f
<1>4. e = [c EXCEPT !.clock = f]
  BY <1>1 DEF ConfigClockHost
<1> HIDE DEF e
<1>5. e \in ClkRecords /\ e.clock = f
  BY <1>2, <1>4 DEF ClkRecords
<1>6. d \in ClkRecords /\ d.enabled = TRUE /\ d.clock = f
  BY <1>3, <1>5 DEF ClkRecords
<1> QED  BY <1>1, <1>6 DEF f

LEMMA GoIdleInv ==
    ASSUME IInv, GoIdle
    PROVE  IInv'
<1>0. /\ TypeOK /\ HostInv /\ CardInv /\ VoltInv
      /\ TimingInv /\ ClkInv /\ BusInv
  BY DEF IInv
<1>a. card' = card \/ (card' = AfterReset(card) /\ Reached(Awake))
  BY DEF GoIdle, TakesReset
<1>b. /\ card'.volt = card.volt
      /\ \/ card' = card
         \/ card'.state = "idle" /\ card'.width = 1 /\ card'.fn = 0 /\ inserted
  BY <1>a DEF AfterReset, Reached
<1>c. host.card_clock_enabled /\ board.supply
  BY <1>0 DEF HostInv, RecordBacked, GoIdle
<1>d. card.state \in {"off", "idle", "ready", "switching", "ident", "stby",
                     "tran"}
  BY <1>0 DEF TypeOK, CardRecords
<1>e. pc' = "if_cond" => card'.state \in {"off", "idle", "switching"}
  BY <1>0, <1>c, <1>d DEF CardInv, GoIdle, TakesReset, InitFails, Returns0, Reached,
     Awake, AfterReset
<1>card. card' \in CardRecords
  BY <1>0, <1>a, ResetCard DEF TypeOK
<1>1. TypeOK'
  BY <1>0, <1>card DEF TypeOK, Steps, Queries, GoIdle, InitFails, Returns0
<1>2. HostInv'
  BY <1>0 DEF HostInv, RecordBacked, GoIdle, InitFails, Returns0
<1>3. CardInv'
  BY <1>0, <1>b, <1>e DEF CardInv, GoIdle, InitFails, Returns0, HostInv, Live
<1>4. VoltInv'
  BY <1>0 DEF VoltInv, RailsAgree, Live, GoIdle, TakesReset, Reached, Awake,
     AfterReset, InitFails, Returns0
<1>5. TimingInv'
  BY <1>0 DEF TimingInv, GoIdle, InitFails, Returns0
<1>6. ClkInv'
  BY <1>0, ClkKept DEF Live, GoIdle
<1>7. BusInv'
  BY <1>0 DEF BusInv, Live, HostInv, GoIdle, InitFails, Returns0
<1> QED  BY <1>1, <1>2, <1>3, <1>4, <1>5, <1>6, <1>7 DEF IInv

LEMMA SendIfCondInv ==
    ASSUME IInv, SendIfCond
    PROVE  IInv'
<1>0. /\ TypeOK /\ HostInv /\ CardInv /\ VoltInv
      /\ TimingInv /\ ClkInv /\ BusInv
  BY DEF IInv
<1>a. /\ host'.clock_stopped = host.clock_stopped
      /\ host'.card_clock_enabled = host.card_clock_enabled
  BY <1>0 DEF TypeOK, HostRecords, SendIfCond
<1>b. pc = "if_cond" /\ pc' \in {"op_cond", "idle"}
  BY DEF SendIfCond, InitFails, Returns0
<1>host. host' \in HostRecords
  BY <1>0 DEF TypeOK, HostRecords, Errors, SendIfCond, Reached
<1>1. TypeOK'
  BY <1>0, <1>host DEF TypeOK, Steps, Queries, SendIfCond, InitFails, Returns0
<1>2. HostInv'
  BY <1>0, <1>a, <1>b DEF HostInv, RecordBacked, SendIfCond, InitFails, Returns0
<1>3. CardInv'
  BY <1>0 DEF CardInv, Live, HostInv, SendIfCond, InitFails, Returns0
<1>4. VoltInv'
  BY <1>0 DEF VoltInv, RailsAgree, Live, SendIfCond, InitFails, Returns0
<1>5. TimingInv'
  BY <1>0 DEF TimingInv, SendIfCond, InitFails, Returns0
<1>6. ClkInv'
  BY <1>0, ClkKept DEF Live, SendIfCond
<1>7. BusInv'
  BY <1>0 DEF BusInv, Live, HostInv, SendIfCond, InitFails, Returns0
<1> QED  BY <1>1, <1>2, <1>3, <1>4, <1>5, <1>6, <1>7 DEF IInv

LEMMA OpCondReadyInv ==
    ASSUME IInv, OpCondReady
    PROVE  IInv'
<1>0. /\ TypeOK /\ HostInv /\ CardInv /\ VoltInv
      /\ TimingInv /\ ClkInv /\ BusInv
  BY DEF IInv
<1>a. /\ storage' \in [initialized : BOOLEAN, is_low_voltage : BOOLEAN,
                       has_sector_access : BOOLEAN]
      /\ storage'.is_low_voltage = storage.is_low_voltage
  BY <1>0, KindFields DEF TypeOK, OpCondReady
<1>card. card' \in CardRecords
  BY <1>0 DEF TypeOK, CardRecords, OpCondReady
<1>1. TypeOK'
  BY <1>0, <1>a, <1>card, CardAssumption DEF TypeOK, Steps, Queries,
     OpCondReady
<1>2. HostInv'
  BY <1>0 DEF HostInv, RecordBacked, OpCondReady
<1>3. CardInv'
  BY <1>0 DEF CardInv, OpCondReady, Reached, S18A, BusUhsSupport
<1>4. VoltInv'
  BY <1>0 DEF VoltInv, RailsAgree, Live, OpCondReady
<1>b. ~storage.is_low_voltage
  BY <1>0 DEF VoltInv, RailsAgree, Live, OpCondReady
<1>5. TimingInv'
  BY <1>0, <1>a, <1>b DEF TimingInv, OpCondReady
<1>6. ClkInv'
  BY <1>0, ClkKept DEF Live, OpCondReady
<1>7. BusInv'
  BY <1>0 DEF BusInv, OpCondReady
<1> QED  BY <1>1, <1>2, <1>3, <1>4, <1>5, <1>6, <1>7 DEF IInv

LEMMA StillBusyInv ==
    ASSUME IInv, StillBusy
    PROVE  IInv'
<1>0. /\ TypeOK /\ HostInv /\ CardInv /\ VoltInv
      /\ TimingInv /\ ClkInv /\ BusInv
  BY DEF IInv
<1>a. polls' \in 0 .. Polls
  BY <1>0, CardAssumption DEF TypeOK, StillBusy
<1>1. TypeOK'
  BY <1>0, <1>a DEF TypeOK, StillBusy
<1>2. HostInv'
  BY <1>0 DEF HostInv, RecordBacked, StillBusy
<1>3. CardInv'
  BY <1>0 DEF CardInv, Live, StillBusy
<1>4. VoltInv'
  BY <1>0 DEF VoltInv, RailsAgree, Live, StillBusy
<1>5. TimingInv'
  BY <1>0 DEF TimingInv, StillBusy
<1>6. ClkInv'
  BY <1>0, ClkKept DEF Live, StillBusy
<1>7. BusInv'
  BY <1>0 DEF BusInv, Live, StillBusy
<1> QED  BY <1>1, <1>2, <1>3, <1>4, <1>5, <1>6, <1>7 DEF IInv

LEMMA OpCondFailsInv ==
    ASSUME IInv, OpCondFails
    PROVE  IInv'
<1>0. /\ TypeOK /\ HostInv /\ CardInv /\ VoltInv
      /\ TimingInv /\ ClkInv /\ BusInv
  BY DEF IInv
<1> DEFINE effect == [card EXCEPT !.state = "ready"]
<1>a. /\ card' = card \/ (card' = effect /\ inserted /\ card.state \in {"idle"})
      /\ pc' = "idle"
      /\ storage' = storage
      /\ done' = FALSE \/ done' = done
  BY CommandOutcome DEF OpCondFails
<1>b. /\ effect \in CardRecords
      /\ effect.state = "ready" /\ effect.volt = card.volt
      /\ effect.width = card.width /\ effect.fn = card.fn
  BY <1>0, CardState DEF TypeOK
<1> HIDE DEF effect
<1>c. /\ pc = "op_cond"
      /\ UNCHANGED <<host, regs, board, clk, locals, slot, warm, ended>>
  BY DEF OpCondFails
<1>card. card' \in CardRecords
  BY <1>0, <1>a, <1>b DEF TypeOK
<1>d. pc' \in Steps
  BY <1>0, <1>a, <1>c DEF TypeOK, Steps, Queries
<1>1. TypeOK'
  BY <1>0, <1>a, <1>c, <1>d, <1>card DEF TypeOK
<1>2. HostInv'
  BY <1>0, <1>a, <1>b, <1>c DEF HostInv, RecordBacked
<1>3. CardInv'
  BY <1>0, <1>a, <1>b, <1>c DEF CardInv, Live, HostInv
<1>4. VoltInv'
  BY <1>0, <1>a, <1>b, <1>c DEF VoltInv, RailsAgree, Live
<1>5. TimingInv'
  BY <1>0, <1>a, <1>b, <1>c DEF TimingInv
<1>6. ClkInv'
  BY <1>0, <1>a, <1>c, ClkKept DEF Live
<1>7. BusInv'
  BY <1>0, <1>a, <1>b, <1>c DEF BusInv, Live, HostInv
<1> QED  BY <1>1, <1>2, <1>3, <1>4, <1>5, <1>6, <1>7 DEF IInv

LEMMA SwitchVoltageInv ==
    ASSUME IInv, SwitchVoltage
    PROVE  IInv'
<1>0. /\ TypeOK /\ HostInv /\ CardInv /\ VoltInv
      /\ TimingInv /\ ClkInv /\ BusInv
  BY DEF IInv
<1> DEFINE effect == [card EXCEPT !.state = "switching"]
<1>a. /\ card' = card \/ (card' = effect /\ inserted /\ card.state = "ready")
      /\ pc' = "cid" \/ (pc' = "low_clock" /\ card' = effect)
  BY DEF SwitchVoltage, Answered, Reached
<1>b. /\ effect \in CardRecords
      /\ effect.state = "switching" /\ effect.volt = card.volt
      /\ effect.width = card.width /\ effect.fn = card.fn
  BY <1>0, CardState DEF TypeOK
<1> HIDE DEF effect
<1>c. /\ pc = "switch_voltage"
      /\ UNCHANGED done
      /\ UNCHANGED <<host, regs, board, clk, storage, locals, slot, warm, ended>>
  BY DEF SwitchVoltage, Answered
<1>card. card' \in CardRecords
  BY <1>0, <1>a, <1>b DEF TypeOK
<1>d. pc' \in Steps
  BY <1>0, <1>a, <1>c DEF TypeOK, Steps, Queries
<1>1. TypeOK'
  BY <1>0, <1>a, <1>c, <1>d, <1>card DEF TypeOK
<1>2. HostInv'
  BY <1>0, <1>a, <1>b, <1>c DEF HostInv, RecordBacked
<1>3. CardInv'
  BY <1>0, <1>a, <1>b, <1>c DEF CardInv, Live
<1>4. VoltInv'
  BY <1>0, <1>a, <1>b, <1>c DEF VoltInv, RailsAgree, Live
<1>5. TimingInv'
  BY <1>0, <1>a, <1>b, <1>c DEF TimingInv, Live, RailsAgree, VoltInv
<1>6. ClkInv'
  BY <1>0, <1>a, <1>c, ClkKept DEF Live
<1>7. BusInv'
  BY <1>0, <1>a, <1>b, <1>c DEF BusInv, CardInv
<1> QED  BY <1>1, <1>2, <1>3, <1>4, <1>5, <1>6, <1>7 DEF IInv

LEMMA LowVoltageClockInv ==
    ASSUME IInv, LowVoltageClock
    PROVE  IInv'
<1>0. /\ TypeOK /\ HostInv /\ CardInv /\ VoltInv
      /\ TimingInv /\ ClkInv /\ BusInv
  BY DEF IInv
<1>a. /\ regs' = SetupClock(regs, "SDR12")
      /\ clk' = ConfigClockSource(clk, "SDR12")
      /\ "SDR12" \in Timings
  BY <1>0 DEF LowVoltageClock, HostClock, TypeOK, Timings, UhsTimings,
     HighVoltageTimings
<1>b. /\ regs' \in RegRecords
      /\ regs'.timing = "SDR12" /\ regs'.tuned = FALSE
      /\ regs'.width = regs.width /\ regs'.io = regs.io
  BY <1>0, <1>a, SetupFields DEF TypeOK
<1>c. /\ clk' \in ClkRecords
      /\ clk'.enabled = clk.enabled /\ clk'.clock = CardClock("SDR12")
      /\ clk'.enabled /\ FromPllc4(clk'.clock) => clk'.pllc4
  BY <1>0, <1>a, HostClockOutcome

<1>1. TypeOK'
  BY <1>0, <1>b, <1>c DEF TypeOK, Steps, LowVoltageClock
<1>2. HostInv'
  BY <1>0, <1>b, <1>c DEF HostInv, RecordBacked, LowVoltageClock
<1>3. CardInv'
  BY <1>0, <1>b, <1>c DEF CardInv, Live, LowVoltageClock
<1>4. VoltInv'
  BY <1>0, <1>b, <1>c DEF VoltInv, RailsAgree, Live, LowVoltageClock
<1>5. TimingInv'
  BY <1>0, <1>b, <1>c DEF TimingInv, LowVoltageClock
<1>6. ClkInv'
  BY <1>0, <1>b, <1>c DEF ClkInv, Live, LowVoltageClock
<1>7. BusInv'
  BY <1>0, <1>b, <1>c DEF BusInv, CardInv, LowVoltageClock
<1> QED  BY <1>1, <1>2, <1>3, <1>4, <1>5, <1>6, <1>7 DEF IInv

LEMMA SwitchRailsInv ==
    ASSUME IInv, SwitchRails
    PROVE  IInv'
<1>0. /\ TypeOK /\ HostInv /\ CardInv /\ VoltInv
      /\ TimingInv /\ ClkInv /\ BusInv
  BY DEF IInv
<1>a. /\ board' \in BoardRecords /\ board'.supply = board.supply
      /\ board'.ldo2 = "1.8" /\ board'.det33 = FALSE
  BY <1>0 DEF TypeOK, BoardRecords, Voltages, SwitchRails
<1>b. /\ regs' \in RegRecords /\ regs'.io = "1.8"
      /\ regs'.timing = regs.timing /\ regs'.tuned = regs.tuned
      /\ regs'.width = regs.width
  BY <1>0 DEF TypeOK, RegRecords, Voltages, SetIoPower, SwitchRails
<1>c. ~storage.is_low_voltage
  BY <1>0 DEF VoltInv, RailsAgree, Live, SwitchRails

<1>1. TypeOK'
  BY <1>0, <1>a, <1>b DEF TypeOK, Steps, SwitchRails
<1>2. HostInv'
  BY <1>0, <1>a, <1>b, <1>c DEF HostInv, RecordBacked, SwitchRails
<1>3. CardInv'
  BY <1>0, <1>a, <1>b, <1>c DEF CardInv, Live, SwitchRails
<1>4. VoltInv'
  BY <1>0, <1>a, <1>b, <1>c DEF VoltInv, RailsAgree, SwitchRails
<1>5. TimingInv'
  BY <1>0, <1>a, <1>b, <1>c DEF TimingInv, SwitchRails
<1>6. ClkInv'
  BY <1>0, <1>b, ClkKept DEF Live, SwitchRails
<1>7. BusInv'
  BY <1>0, <1>a, <1>b, <1>c DEF BusInv, Live, SwitchRails
<1> QED  BY <1>1, <1>2, <1>3, <1>4, <1>5, <1>6, <1>7 DEF IInv

LEMMA LowVoltageClockOnInv ==
    ASSUME IInv, LowVoltageClockOn
    PROVE  IInv'
<1>0. /\ TypeOK /\ HostInv /\ CardInv /\ VoltInv
      /\ TimingInv /\ ClkInv /\ BusInv
  BY DEF IInv
<1> DEFINE effect == [card EXCEPT !.state = "ready", !.volt = "1.8"]
<1>a. /\ pc = "sdclk"
      /\ UNCHANGED <<host, board, clk, locals, slot, warm, ended>>
      /\ done' = FALSE \/ done' = done
      /\ regs' = regs \/ regs' = [regs EXCEPT !.card_en = TRUE]
      /\ \/ /\ card' = effect /\ pc' = "cid"
            /\ inserted /\ card.state = "switching"
            /\ storage' = [storage EXCEPT !.is_low_voltage = TRUE]
         \/ card' = card /\ pc' = "idle" /\ storage' = storage
  BY DEF LowVoltageClockOn, Reached, InitFails, Returns0
<1>b. /\ effect \in CardRecords /\ effect.state = "ready" /\ effect.volt = "1.8"
      /\ effect.width = card.width /\ effect.fn = card.fn
  BY <1>0, CardSwitched DEF TypeOK
<1> HIDE DEF effect
<1>c. /\ regs' \in RegRecords /\ regs'.io = regs.io
      /\ regs'.timing = regs.timing /\ regs'.tuned = regs.tuned
      /\ regs'.width = regs.width
  BY <1>0, <1>a DEF TypeOK, RegRecords
<1>d. /\ storage' \in [initialized : BOOLEAN, is_low_voltage : BOOLEAN,
                       has_sector_access : BOOLEAN]
      /\ storage'.initialized = storage.initialized
      /\ storage'.has_sector_access = storage.has_sector_access
      /\ pc' = "cid" => storage'.is_low_voltage = TRUE
  BY <1>0, <1>a DEF TypeOK
<1>card. card' \in CardRecords
  BY <1>0, <1>a, <1>b DEF TypeOK
<1>1. TypeOK'
  BY <1>0, <1>a, <1>c, <1>d, <1>card DEF TypeOK, Steps
<1>2. HostInv'
  BY <1>0, <1>a, <1>b, <1>c, <1>d DEF HostInv, RecordBacked
<1>3. CardInv'
  BY <1>0, <1>a, <1>b, <1>c, <1>d DEF CardInv, Live
<1>e. ~storage.initialized /\ storage'.initialized = storage.initialized
  BY <1>0, <1>a, <1>d DEF HostInv
<1>f. pc' = "cid" => RailsAgree'
  <2> SUFFICES ASSUME pc' = "cid" PROVE RailsAgree'
    OBVIOUS
  <2>1. /\ board.ldo2 = "1.8" /\ board.det33 = FALSE /\ regs.io = "1.8"
        /\ board' = board
    BY <1>0, <1>a DEF VoltInv, TypeOK, BoardRecords
  <2>2. storage'.is_low_voltage = TRUE
    BY <1>d
  <2> QED  BY <1>c, <2>1, <2>2 DEF RailsAgree
<1>4. VoltInv'
  BY <1>0, <1>a, <1>b, <1>c, <1>e, <1>f DEF VoltInv, Live
<1>5. TimingInv'
  BY <1>0, <1>a, <1>b, <1>c, <1>d DEF TimingInv
<1>6. ClkInv'
  BY <1>0, <1>a, <1>c, ClkKept DEF Live
<1>7. BusInv'
  BY <1>0, <1>a, <1>b, <1>c, <1>d DEF BusInv, Live
<1> QED  BY <1>1, <1>2, <1>3, <1>4, <1>5, <1>6, <1>7 DEF IInv

LEMMA GetCidInv ==
    ASSUME IInv, GetCid
    PROVE  IInv'
<1>0. /\ TypeOK /\ HostInv /\ CardInv /\ VoltInv
      /\ TimingInv /\ ClkInv /\ BusInv
  BY DEF IInv
<1> DEFINE effect == [card EXCEPT !.state = "ident"]
<1>a. /\ card' = card \/ (card' = effect /\ inserted /\ card.state \in {"ready"})
      /\ pc' = "idle" \/ (pc' = "rca" /\ card' = effect
                     /\ inserted /\ card.state \in {"ready"})
      /\ storage' = storage
      /\ done' = FALSE \/ done' = done
  BY CommandOutcome DEF GetCid
<1>b. /\ effect \in CardRecords
      /\ effect.state = "ident" /\ effect.volt = card.volt
      /\ effect.width = card.width /\ effect.fn = card.fn
  BY <1>0, CardState DEF TypeOK
<1> HIDE DEF effect
<1>c. /\ pc = "cid"
      /\ UNCHANGED <<host, regs, board, clk, locals, slot, warm, ended>>
  BY DEF GetCid
<1>card. card' \in CardRecords
  BY <1>0, <1>a, <1>b DEF TypeOK
<1>d. pc' \in Steps
  BY <1>0, <1>a, <1>c DEF TypeOK, Steps, Queries
<1>1. TypeOK'
  BY <1>0, <1>a, <1>c, <1>d, <1>card DEF TypeOK
<1>2. HostInv'
  BY <1>0, <1>a, <1>b, <1>c DEF HostInv, RecordBacked
<1>3. CardInv'
  BY <1>0, <1>a, <1>b, <1>c DEF CardInv, Live
<1>4. VoltInv'
  BY <1>0, <1>a, <1>b, <1>c DEF VoltInv, RailsAgree, Live
<1>5. TimingInv'
  BY <1>0, <1>a, <1>b, <1>c DEF TimingInv
<1>6. ClkInv'
  BY <1>0, <1>a, <1>c, ClkKept DEF Live
<1>7. BusInv'
  BY <1>0, <1>a, <1>b, <1>c DEF BusInv, Live
<1> QED  BY <1>1, <1>2, <1>3, <1>4, <1>5, <1>6, <1>7 DEF IInv

LEMMA GetRcaInv ==
    ASSUME IInv, GetRca
    PROVE  IInv'
<1>0. /\ TypeOK /\ HostInv /\ CardInv /\ VoltInv
      /\ TimingInv /\ ClkInv /\ BusInv
  BY DEF IInv
<1> DEFINE effect == [card EXCEPT !.state = "stby"]
<1>a. /\ card' = card \/ (card' = effect /\ inserted /\ card.state \in {"ident", "stby"})
      /\ pc' = "idle" \/ (pc' = "csd" /\ card' = effect
                     /\ inserted /\ card.state \in {"ident", "stby"})
      /\ storage' = storage
      /\ done' = FALSE \/ done' = done
  BY CommandOutcome DEF GetRca
<1>b. /\ effect \in CardRecords
      /\ effect.state = "stby" /\ effect.volt = card.volt
      /\ effect.width = card.width /\ effect.fn = card.fn
  BY <1>0, CardState DEF TypeOK
<1> HIDE DEF effect
<1>c. /\ pc = "rca"
      /\ UNCHANGED <<host, regs, board, clk, locals, slot, warm, ended>>
  BY DEF GetRca
<1>card. card' \in CardRecords
  BY <1>0, <1>a, <1>b DEF TypeOK
<1>d. pc' \in Steps
  BY <1>0, <1>a, <1>c DEF TypeOK, Steps, Queries
<1>1. TypeOK'
  BY <1>0, <1>a, <1>c, <1>d, <1>card DEF TypeOK
<1>2. HostInv'
  BY <1>0, <1>a, <1>b, <1>c DEF HostInv, RecordBacked
<1>3. CardInv'
  BY <1>0, <1>a, <1>b, <1>c DEF CardInv, Live
<1>4. VoltInv'
  BY <1>0, <1>a, <1>b, <1>c DEF VoltInv, RailsAgree, Live
<1>5. TimingInv'
  BY <1>0, <1>a, <1>b, <1>c DEF TimingInv
<1>6. ClkInv'
  BY <1>0, <1>a, <1>c, ClkKept DEF Live
<1>7. BusInv'
  BY <1>0, <1>a, <1>b, <1>c DEF BusInv, Live
<1> QED  BY <1>1, <1>2, <1>3, <1>4, <1>5, <1>6, <1>7 DEF IInv

LEMMA DefaultClockInv ==
    ASSUME IInv, DefaultClock
    PROVE  IInv'
<1>0. /\ TypeOK /\ HostInv /\ CardInv /\ VoltInv
      /\ TimingInv /\ ClkInv /\ BusInv
  BY DEF IInv
<1>a. /\ pc = "default_clock" /\ pc' = "select"
      /\ UNCHANGED <<host, board, storage, locals, done, slot, card, warm, ended>>
  BY DEF DefaultClock
<1>b. /\ regs' \in RegRecords /\ regs'.width = regs.width /\ regs'.io = regs.io
      /\ regs'.timing = IF storage.is_low_voltage THEN "SDR12" ELSE "DS12"
      /\ clk' \in ClkRecords /\ clk'.enabled = clk.enabled
      /\ clk'.clock = CardClock(regs'.timing)
      /\ clk'.enabled /\ FromPllc4(clk'.clock) => clk'.pllc4
  <2>1. CASE storage.is_low_voltage
    BY <1>0, <2>1 DEF DefaultClock, TypeOK, TimingInv, ClkInv, Live
  <2>2. CASE ~storage.is_low_voltage
    <3>1. /\ regs' = SetupClock(regs, "DS12")
          /\ clk' = ConfigClockSource(clk, "DS12")
          /\ "DS12" \in Timings
      BY <2>2 DEF DefaultClock, HostClock, Timings, HighVoltageTimings
    <3>2. regs' \in RegRecords /\ regs'.timing = "DS12"
          /\ regs'.width = regs.width /\ regs'.io = regs.io
      BY <1>0, <3>1, SetupFields DEF TypeOK
    <3>3. /\ clk' \in ClkRecords
          /\ clk'.enabled = clk.enabled /\ clk'.clock = CardClock("DS12")
          /\ clk'.enabled /\ FromPllc4(clk'.clock) => clk'.pllc4
      BY <1>0, <3>1, HostClockOutcome
    <3> QED  BY <2>2, <3>2, <3>3
  <2> QED  BY <2>1, <2>2

<1>1. TypeOK'
  BY <1>0, <1>a, <1>b DEF TypeOK, Steps
<1>2. HostInv'
  BY <1>0, <1>a, <1>b DEF HostInv, RecordBacked
<1>3. CardInv'
  BY <1>0, <1>a, <1>b DEF CardInv, Live
<1>4. VoltInv'
  BY <1>0, <1>a, <1>b DEF VoltInv, RailsAgree, Live
<1>5. TimingInv'
  BY <1>0, <1>a, <1>b DEF TimingInv
<1>6. ClkInv'
  BY <1>0, <1>a, <1>b DEF ClkInv, Live
<1>7. BusInv'
  BY <1>0, <1>a, <1>b DEF BusInv, Live, HostInv
<1> QED  BY <1>1, <1>2, <1>3, <1>4, <1>5, <1>6, <1>7 DEF IInv

LEMMA SelectCardInv ==
    ASSUME IInv, SelectCard
    PROVE  IInv'
<1>0. /\ TypeOK /\ HostInv /\ CardInv /\ VoltInv
      /\ TimingInv /\ ClkInv /\ BusInv
  BY DEF IInv
<1> DEFINE effect == [card EXCEPT !.state = "tran"]
<1>a. /\ card' = card \/ (card' = effect /\ inserted /\ card.state \in {"stby"})
      /\ pc' = "idle" \/ (pc' = "blocklen" /\ card' = effect
                     /\ inserted /\ card.state \in {"stby"})
      /\ storage' = storage
      /\ done' = FALSE \/ done' = done
  BY CommandOutcome DEF SelectCard
<1>b. /\ effect \in CardRecords
      /\ effect.state = "tran" /\ effect.volt = card.volt
      /\ effect.width = card.width /\ effect.fn = card.fn
  BY <1>0, CardState DEF TypeOK
<1> HIDE DEF effect
<1>c. /\ pc = "select"
      /\ UNCHANGED <<host, regs, board, clk, locals, slot, warm, ended>>
  BY DEF SelectCard
<1>card. card' \in CardRecords
  BY <1>0, <1>a, <1>b DEF TypeOK
<1>d. pc' \in Steps
  BY <1>0, <1>a, <1>c DEF TypeOK, Steps, Queries
<1>1. TypeOK'
  BY <1>0, <1>a, <1>c, <1>d, <1>card DEF TypeOK
<1>2. HostInv'
  BY <1>0, <1>a, <1>b, <1>c DEF HostInv, RecordBacked
<1>3. CardInv'
  BY <1>0, <1>a, <1>b, <1>c DEF CardInv, Live
<1>4. VoltInv'
  BY <1>0, <1>a, <1>b, <1>c DEF VoltInv, RailsAgree, Live
<1>5. TimingInv'
  BY <1>0, <1>a, <1>b, <1>c DEF TimingInv
<1>6. ClkInv'
  BY <1>0, <1>a, <1>c, ClkKept DEF Live
<1>7. BusInv'
  BY <1>0, <1>a, <1>b, <1>c DEF BusInv, HostInv, CardInv
<1> QED  BY <1>1, <1>2, <1>3, <1>4, <1>5, <1>6, <1>7 DEF IInv

LEMMA GetScrInv ==
    ASSUME IInv, GetScr
    PROVE  IInv'
<1>0. /\ TypeOK /\ HostInv /\ CardInv /\ VoltInv
      /\ TimingInv /\ ClkInv /\ BusInv
  BY DEF IInv
<1>a. /\ pc = "scr" /\ card' = card /\ storage' = storage
      /\ pc' = "idle" \/ (pc' \in {"bus_width", SpeedStep} /\ card.state = "tran")
      /\ done' = FALSE \/ done' = done
      /\ bus_width' \in {1, bus_width}
      /\ UNCHANGED <<host, regs, board, clk, type, is_sdsc, hs_type, polls, slot,
                    warm, ended>>
  BY DEF GetScr, Answered, Lost, Reached, InitFails, Returns0
<1>b. pc' \in {"idle", "bus_width", "uhs_fmodes", "hs_fmodes", "ssr"}
  BY <1>a DEF SpeedStep
<1>c. pc' \in Steps /\ done' \in BOOLEAN /\ bus_width' \in {1, 4}
  BY <1>0, <1>a, <1>b DEF TypeOK, Steps
<1>1. TypeOK'
  BY <1>0, <1>a, <1>c DEF TypeOK
<1>2. HostInv'
  BY <1>0, <1>a, <1>b DEF HostInv, RecordBacked
<1>3. CardInv'
  BY <1>0, <1>a, <1>b DEF CardInv, Live, HostInv
<1>4. VoltInv'
  BY <1>0, <1>a, <1>b DEF VoltInv, RailsAgree, Live, HostInv
<1>5. TimingInv'
  BY <1>0, <1>a, <1>b DEF TimingInv, Live, HostInv
<1>6. ClkInv'
  BY <1>0, <1>a, <1>b, ClkKept DEF Live
<1>7. BusInv'
  BY <1>0, <1>a, <1>b DEF BusInv, Live, HostInv, Function, TimingInv
<1> QED  BY <1>1, <1>2, <1>3, <1>4, <1>5, <1>6, <1>7 DEF IInv

LEMMA SetBusWidth4Inv ==
    ASSUME IInv, SetBusWidth4
    PROVE  IInv'
<1>0. /\ TypeOK /\ HostInv /\ CardInv /\ VoltInv
      /\ TimingInv /\ ClkInv /\ BusInv
  BY DEF IInv
<1> DEFINE effect == [card EXCEPT !.width = 4]
<1>a. /\ card' = card \/ (card' = effect /\ inserted /\ card.state = "tran")
      /\ \/ pc' = "idle" /\ regs' = regs
         \/ /\ pc' = SpeedStep /\ card' = effect
            /\ regs' = [regs EXCEPT !.width = 4]
      /\ storage' = storage
      /\ done' = FALSE \/ done' = done
  BY DEF SetBusWidth4, SetBusWidth, Answered, Lost, Reached, InitFails, Returns0
<1>b. /\ effect \in CardRecords
      /\ effect.width = 4 /\ effect.state = card.state
      /\ effect.volt = card.volt /\ effect.fn = card.fn
  BY <1>0, CardWidth DEF TypeOK
<1> HIDE DEF effect
<1>c. /\ pc = "bus_width"
      /\ UNCHANGED <<host, board, clk, locals, slot, warm, ended>>
  BY DEF SetBusWidth4
<1>e. SpeedStep \in {"uhs_fmodes", "hs_fmodes", "ssr"}
      /\ (SpeedStep = "uhs_fmodes" <=> storage.is_low_voltage)
  BY DEF SpeedStep
<1>d. /\ regs' \in RegRecords
      /\ regs'.width = (IF pc' = "idle" THEN regs.width ELSE 4)
      /\ regs'.timing = regs.timing /\ regs'.io = regs.io /\ regs'.tuned = regs.tuned
  BY <1>0, <1>a, <1>e DEF TypeOK, RegRecords
<1>card. card' \in CardRecords
  BY <1>0, <1>a, <1>b DEF TypeOK
<1>f. pc' \in Steps
  BY <1>a, <1>e DEF Steps
<1>1. TypeOK'
  BY <1>0, <1>a, <1>c, <1>d, <1>f, <1>card DEF TypeOK
<1>2. HostInv'
  BY <1>0, <1>a, <1>b, <1>c, <1>d, <1>e DEF HostInv, RecordBacked
<1>3. CardInv'
  BY <1>0, <1>a, <1>b, <1>c, <1>d, <1>e DEF CardInv, Live
<1>4. VoltInv'
  BY <1>0, <1>a, <1>b, <1>c, <1>d, <1>e DEF VoltInv, RailsAgree, Live
<1>5. TimingInv'
  BY <1>0, <1>a, <1>b, <1>c, <1>d, <1>e DEF TimingInv
<1>6. ClkInv'
  BY <1>0, <1>a, <1>c, <1>d, <1>e, ClkKept DEF Live
<1>7. BusInv'
  BY <1>0, <1>a, <1>b, <1>c, <1>d, <1>e DEF BusInv, Function, Live, HostInv,
     TimingInv
<1> QED  BY <1>1, <1>2, <1>3, <1>4, <1>5, <1>6, <1>7 DEF IInv

LEMMA UhsModesInv ==
    ASSUME IInv, UhsModes
    PROVE  IInv'
<1>0. /\ TypeOK /\ HostInv /\ CardInv /\ VoltInv
      /\ TimingInv /\ ClkInv /\ BusInv
  BY DEF IInv
<1>a. pc' \in Steps /\ (done' = done \/ done' = FALSE)
  BY DEF UhsModes, Answered, Lost, InitFails, Returns0, Steps
<1>b. UhsRung \in Timings
  BY DEF UhsRung, Timings, UhsTimings
<1>c. hs_type' \in Timings /\ card' = card /\ storage' = storage
  BY <1>0, <1>b DEF TypeOK, UhsModes, Answered, Lost, InitFails, Returns0
<1>1. TypeOK'
  BY <1>0, <1>a, <1>c DEF TypeOK, UhsModes
<1>2. HostInv'
  BY <1>0 DEF HostInv, RecordBacked, UhsModes, Answered, Lost, InitFails, Returns0
<1>3. CardInv'
  BY <1>0 DEF CardInv, Live, UhsModes, Answered, Lost, InitFails, Returns0
<1>4. VoltInv'
  BY <1>0 DEF VoltInv, RailsAgree, Live, UhsModes, Answered, Lost, InitFails, Returns0
<1>5. TimingInv'
  BY <1>0 DEF TimingInv, UhsModes, UhsRung, Answered, Lost, Reached, InitFails, Returns0
<1>6. ClkInv'
  BY <1>0, ClkKept DEF Live, UhsModes, Answered
<1>7. BusInv'
  BY <1>0 DEF BusInv, Function, Live, TimingInv, UhsModes, Answered, Lost,
     InitFails, Returns0
<1> QED  BY <1>1, <1>2, <1>3, <1>4, <1>5, <1>6, <1>7 DEF IInv

LEMMA HsModesInv ==
    ASSUME IInv, HsModes
    PROVE  IInv'
<1>0. /\ TypeOK /\ HostInv /\ CardInv /\ VoltInv
      /\ TimingInv /\ ClkInv /\ BusInv
  BY DEF IInv
<1>a. pc' \in Steps /\ (done' = done \/ done' = FALSE)
  BY DEF HsModes, Answered, Lost, InitFails, Returns0, Steps
<1>b. hs_type' \in Timings /\ card' = card /\ storage' = storage
  BY <1>0 DEF TypeOK, HsModes, Answered, Lost, InitFails, Returns0, Timings,
     HighVoltageTimings
<1>1. TypeOK'
  BY <1>0, <1>a, <1>b DEF TypeOK, HsModes
<1>2. HostInv'
  BY <1>0 DEF HostInv, RecordBacked, HsModes, Answered, Lost, InitFails, Returns0
<1>3. CardInv'
  BY <1>0 DEF CardInv, Live, HsModes, Answered, Lost, InitFails, Returns0
<1>4. VoltInv'
  BY <1>0 DEF VoltInv, RailsAgree, Live, HsModes, Answered, Lost, InitFails, Returns0
<1>5. TimingInv'
  BY <1>0 DEF TimingInv, HsModes, Answered, Lost, InitFails, Returns0
<1>6. ClkInv'
  BY <1>0, ClkKept DEF Live, HsModes, Answered
<1>7. BusInv'
  BY <1>0 DEF BusInv, Function, Live, TimingInv, HsModes, Answered, Lost,
     InitFails, Returns0
<1> QED  BY <1>1, <1>2, <1>3, <1>4, <1>5, <1>6, <1>7 DEF IInv

LEMMA SetCardBusSpeedInv ==
    ASSUME IInv, SetCardBusSpeed
    PROVE  IInv'
<1>0. /\ TypeOK /\ HostInv /\ CardInv /\ VoltInv
      /\ TimingInv /\ ClkInv /\ BusInv
  BY DEF IInv
<1>f. Function(hs_type) \in 0 .. 3
  BY <1>0 DEF TypeOK, Timings, UhsTimings, HighVoltageTimings, Function
<1> DEFINE effect == [card EXCEPT !.fn = Function(hs_type)]
           next == IF hs_type = "HS25" THEN "hs_status" ELSE "uhs_clock"
<1>a. /\ card' = card \/ (card' = effect /\ inserted /\ card.state \in {"tran"})
      /\ pc' = "idle" \/ (pc' = next /\ card' = effect
                     /\ inserted /\ card.state \in {"tran"})
      /\ storage' = storage
      /\ done' = FALSE \/ done' = done
  BY CommandOutcome DEF SetCardBusSpeed
<1>b. /\ effect \in CardRecords
      /\ effect.fn = Function(hs_type) /\ effect.state = card.state
      /\ effect.volt = card.volt /\ effect.width = card.width
  BY <1>0, <1>f, CardFunction DEF TypeOK
<1> HIDE DEF effect
<1>c. /\ pc = "set_speed"
      /\ UNCHANGED <<host, regs, board, clk, locals, slot, warm, ended>>
  BY DEF SetCardBusSpeed
<1>card. card' \in CardRecords
  BY <1>0, <1>a, <1>b DEF TypeOK
<1>d. pc' \in Steps
  BY <1>0, <1>a, <1>c DEF TypeOK, Steps, Queries
<1>1. TypeOK'
  BY <1>0, <1>a, <1>c, <1>d, <1>card DEF TypeOK
<1>2. HostInv'
  BY <1>0, <1>a, <1>b, <1>c DEF HostInv, RecordBacked
<1>3. CardInv'
  BY <1>0, <1>a, <1>b, <1>c DEF CardInv, Live
<1>4. VoltInv'
  BY <1>0, <1>a, <1>b, <1>c DEF VoltInv, RailsAgree, Live
<1>5. TimingInv'
  BY <1>0, <1>a, <1>b, <1>c DEF TimingInv
<1>6. ClkInv'
  BY <1>0, <1>a, <1>c, ClkKept DEF Live
<1>7. BusInv'
  BY <1>0, <1>a, <1>b, <1>c DEF BusInv, Live, HostInv
<1> QED  BY <1>1, <1>2, <1>3, <1>4, <1>5, <1>6, <1>7 DEF IInv

LEMMA UhsClockInv ==
    ASSUME IInv, UhsClock
    PROVE  IInv'
<1>0. /\ TypeOK /\ HostInv /\ CardInv /\ VoltInv
      /\ TimingInv /\ ClkInv /\ BusInv
  BY DEF IInv
<1>a. /\ regs' = SetupClock(regs, hs_type)
      /\ clk' = ConfigClockSource(clk, hs_type)
      /\ hs_type \in Timings
  BY <1>0 DEF UhsClock, HostClock, TypeOK, Timings, UhsTimings,
     HighVoltageTimings
<1>b. /\ regs' \in RegRecords
      /\ regs'.timing = hs_type /\ regs'.tuned = FALSE
      /\ regs'.width = regs.width /\ regs'.io = regs.io
  BY <1>0, <1>a, SetupFields DEF TypeOK
<1>c. /\ clk' \in ClkRecords
      /\ clk'.enabled = clk.enabled /\ clk'.clock = CardClock(hs_type)
      /\ clk'.enabled /\ FromPllc4(clk'.clock) => clk'.pllc4
  BY <1>0, <1>a, HostClockOutcome

<1>1. TypeOK'
  BY <1>0, <1>b, <1>c DEF TypeOK, Steps, UhsClock
<1>2. HostInv'
  BY <1>0, <1>b, <1>c DEF HostInv, RecordBacked, UhsClock
<1>3. CardInv'
  BY <1>0, <1>b, <1>c DEF CardInv, Live, UhsClock
<1>4. VoltInv'
  BY <1>0, <1>b, <1>c DEF VoltInv, RailsAgree, Live, UhsClock
<1>5. TimingInv'
  BY <1>0, <1>b, <1>c DEF TimingInv, UhsClock
<1>6. ClkInv'
  BY <1>0, <1>b, <1>c DEF ClkInv, Live, UhsClock
<1>7. BusInv'
  BY <1>0, <1>b, <1>c DEF BusInv, Live, UhsClock
<1> QED  BY <1>1, <1>2, <1>3, <1>4, <1>5, <1>6, <1>7 DEF IInv

LEMMA TuneInv ==
    ASSUME IInv, Tune
    PROVE  IInv'
<1>0. /\ TypeOK /\ HostInv /\ CardInv /\ VoltInv
      /\ TimingInv /\ ClkInv /\ BusInv
  BY DEF IInv
<1>a. /\ pc = "tune" /\ pc' \in {"uhs_status", "idle"}
      /\ done' = FALSE \/ done' = done
      /\ UNCHANGED <<host, board, clk, storage, locals, slot, card, warm, ended>>
  BY DEF Tune, InitFails, Returns0
<1>b. /\ regs' \in RegRecords /\ regs'.width = regs.width /\ regs'.io = regs.io
      /\ regs'.timing = regs.timing
      /\ pc' = "uhs_status" /\ regs.timing \in {"SDR50", "SDR104"} =>
            regs'.tuned
  <2>1. PICK t \in TuningOutcomes(host, regs) :
           regs' = t[2] /\ (t[1] \/ pc' = "idle")
    BY DEF Tune, InitFails, Returns0
  <2> DEFINE refused ==
                 host.powersave_enabled \/ regs.timing \in HighVoltageTimings
  <2>2. CASE refused \/ regs.timing \in {"SDR12", "SDR25"}
    <3>1. PICK b \in BOOLEAN :
             t = <<b, regs>> /\ (b => regs.timing \in {"SDR12", "SDR25"})
      BY <2>1, <2>2 DEF TuningOutcomes
    <3>2. regs' = regs /\ (pc' = "idle" \/ regs.timing \in {"SDR12", "SDR25"})
      BY <2>1, <3>1
    <3> QED  BY <1>0, <1>a, <3>2 DEF TypeOK
  <2>3. CASE ~(refused \/ regs.timing \in {"SDR12", "SDR25"})
    <3>1. PICK b \in BOOLEAN :
             t = <<b, [regs EXCEPT !.tuned = b, !.card_en = TRUE]>>
      BY <2>1, <2>3 DEF TuningOutcomes
    <3>2. /\ regs' = [regs EXCEPT !.tuned = b, !.card_en = TRUE]
          /\ (b \/ pc' = "idle")
      BY <2>1, <3>1
    <3>3. /\ regs' \in RegRecords /\ regs'.width = regs.width
          /\ regs'.io = regs.io /\ regs'.timing = regs.timing
          /\ regs'.tuned = b
      BY <1>0, <3>2 DEF TypeOK, RegRecords
    <3> QED  BY <3>2, <3>3
  <2> QED  BY <2>2, <2>3
<1>c. pc' \in Steps
  BY <1>a DEF Steps, Queries
<1>1. TypeOK'
  BY <1>0, <1>a, <1>b, <1>c DEF TypeOK
<1>2. HostInv'
  BY <1>0, <1>a, <1>b DEF HostInv, RecordBacked
<1>3. CardInv'
  BY <1>0, <1>a, <1>b DEF CardInv, Live
<1>4. VoltInv'
  BY <1>0, <1>a, <1>b DEF VoltInv, RailsAgree, Live
<1>5. TimingInv'
  BY <1>0, <1>a, <1>b DEF TimingInv, Live, HostInv
<1>6. ClkInv'
  BY <1>0, <1>a, <1>b, ClkKept DEF Live
<1>7. BusInv'
  BY <1>0, <1>a, <1>b DEF BusInv, Live
<1> QED  BY <1>1, <1>2, <1>3, <1>4, <1>5, <1>6, <1>7 DEF IInv

LEMMA HsClockInv ==
    ASSUME IInv, HsClock
    PROVE  IInv'
<1>0. /\ TypeOK /\ HostInv /\ CardInv /\ VoltInv
      /\ TimingInv /\ ClkInv /\ BusInv
  BY DEF IInv
<1>a. /\ regs' = SetupClock(regs, hs_type)
      /\ clk' = ConfigClockSource(clk, hs_type)
      /\ hs_type \in Timings
  BY <1>0 DEF HsClock, HostClock, TypeOK, Timings, UhsTimings,
     HighVoltageTimings
<1>b. /\ regs' \in RegRecords
      /\ regs'.timing = hs_type /\ regs'.tuned = FALSE
      /\ regs'.width = regs.width /\ regs'.io = regs.io
  BY <1>0, <1>a, SetupFields DEF TypeOK
<1>c. /\ clk' \in ClkRecords
      /\ clk'.enabled = clk.enabled /\ clk'.clock = CardClock(hs_type)
      /\ clk'.enabled /\ FromPllc4(clk'.clock) => clk'.pllc4
  BY <1>0, <1>a, HostClockOutcome

<1>1. TypeOK'
  BY <1>0, <1>b, <1>c DEF TypeOK, Steps, HsClock
<1>2. HostInv'
  BY <1>0, <1>b, <1>c DEF HostInv, RecordBacked, HsClock
<1>3. CardInv'
  BY <1>0, <1>b, <1>c DEF CardInv, Live, HsClock
<1>4. VoltInv'
  BY <1>0, <1>b, <1>c DEF VoltInv, RailsAgree, Live, HsClock
<1>5. TimingInv'
  BY <1>0, <1>b, <1>c DEF TimingInv, HsClock
<1>6. ClkInv'
  BY <1>0, <1>b, <1>c DEF ClkInv, Live, HsClock
<1>7. BusInv'
  BY <1>0, <1>b, <1>c DEF BusInv, Live, HsClock
<1> QED  BY <1>1, <1>2, <1>3, <1>4, <1>5, <1>6, <1>7 DEF IInv

LEMMA ReadyInv ==
    ASSUME IInv, Ready
    PROVE  IInv'
<1>0. /\ TypeOK /\ HostInv /\ CardInv /\ VoltInv
      /\ TimingInv /\ ClkInv /\ BusInv
  BY DEF IInv
<1>a. /\ host' \in HostRecords /\ host'.clock_stopped = host.clock_stopped
      /\ host'.card_clock_enabled = host.card_clock_enabled
  BY <1>0 DEF TypeOK, HostRecords, Powersave, Ready
<1>b. /\ regs' \in RegRecords /\ regs'.io = regs.io
      /\ regs'.timing = regs.timing
      /\ regs'.tuned = regs.tuned /\ regs'.width = regs.width
  BY <1>0 DEF TypeOK, RegRecords, PowersaveRegs, Ready
<1>c. /\ storage' \in [initialized : BOOLEAN, is_low_voltage : BOOLEAN,
                       has_sector_access : BOOLEAN]
      /\ storage'.initialized
      /\ storage'.is_low_voltage = storage.is_low_voltage
      /\ storage'.has_sector_access = storage.has_sector_access
  BY <1>0 DEF TypeOK, Ready
<1>d. /\ pc = "ssr" /\ pc' = "idle" /\ done' = TRUE
      /\ UNCHANGED <<board, clk, locals, slot, card, warm, ended>>
  BY DEF Ready

<1>1. TypeOK'
  BY <1>0, <1>a, <1>b, <1>c, <1>d DEF TypeOK, Steps, Queries
<1>2. HostInv'
  BY <1>0, <1>a, <1>b, <1>c, <1>d DEF HostInv, RecordBacked
<1>3. CardInv'
  BY <1>0, <1>a, <1>b, <1>c, <1>d DEF CardInv, Live
<1>4. VoltInv'
  BY <1>0, <1>a, <1>b, <1>c, <1>d DEF VoltInv, RailsAgree, Live
<1>5. TimingInv'
  BY <1>0, <1>a, <1>b, <1>c, <1>d DEF TimingInv, Live
<1>6. ClkInv'
  BY <1>0, <1>b, <1>d, ClkKept DEF Live
<1>7. BusInv'
  BY <1>0, <1>a, <1>b, <1>c, <1>d DEF BusInv, Live
<1> QED  BY <1>1, <1>2, <1>3, <1>4, <1>5, <1>6, <1>7 DEF IInv

LEMMA QueryInv ==
    ASSUME IInv, Query
    PROVE  IInv'
<1>0. /\ TypeOK /\ HostInv /\ CardInv /\ VoltInv
      /\ TimingInv /\ ClkInv /\ BusInv
  BY DEF IInv
<1>a. /\ pc \in Queries /\ pc' \in {"idle", NextOf(pc)}
      /\ pc' = "idle" \/ card.state \in StatesOf(pc)
      /\ done' = FALSE \/ done' = done
      /\ UNCHANGED <<host, regs, board, clk, storage, locals, slot, card, warm,
                    ended>>
  BY DEF Query, Answered, Lost, Reached, InitFails, Returns0
<1>b. \/ pc' = "idle"
      \/ pc = "csd" /\ pc' = "default_clock"
      \/ pc = "blocklen" /\ pc' = "card_detect"
      \/ pc = "card_detect" /\ pc' = "scr"
      \/ pc = "uhs_status" /\ pc' = "ssr"
      \/ pc = "hs_status" /\ pc' = "hs_clock"
  BY <1>a DEF Queries, NextOf
<1>d. pc' \in Steps
  BY <1>b DEF Steps, Queries
<1>1. TypeOK'
  BY <1>0, <1>a, <1>d DEF TypeOK
<1>2. HostInv'
  BY <1>0, <1>a, <1>b DEF HostInv, RecordBacked
<1>3. CardInv'
  BY <1>0, <1>a, <1>b DEF CardInv, Live, HostInv
<1>4. VoltInv'
  BY <1>0, <1>a, <1>b DEF VoltInv, RailsAgree, Live, HostInv
<1>5. TimingInv'
  BY <1>0, <1>a, <1>b DEF TimingInv, Live, HostInv
<1>6. ClkInv'
  BY <1>0, <1>a, <1>b, ClkKept DEF Live
<1>7. BusInv'
  BY <1>0, <1>a, <1>b DEF BusInv, Live, HostInv
<1> QED  BY <1>1, <1>2, <1>3, <1>4, <1>5, <1>6, <1>7 DEF IInv

LEMMA sdmmc_initInv ==
    ASSUME IInv, sdmmc_init
    PROVE  IInv'
<1>0. /\ TypeOK /\ HostInv /\ CardInv /\ VoltInv
      /\ TimingInv /\ ClkInv /\ BusInv
  BY DEF IInv
<1>1. CASE ~inserted
  <2>1. /\ host' = ClearedHost /\ pc = "host" /\ pc' = "idle" /\ done' = FALSE
        /\ storage' = ClearedStorage
        /\ UNCHANGED <<regs, board, clk, card, warm, locals, slot, ended>>
    BY <1>1 DEF sdmmc_init, InitFails, Returns0
  <2>2. host' \in HostRecords /\ host'.card_clock_enabled = FALSE
    BY <2>1 DEF HostRecords, ClearedHost, Errors
  <2>3. TypeOK'
    BY <1>0, <2>1, <2>2 DEF TypeOK, Steps, ClearedStorage
  <2>4. ~storage'.initialized /\ ~Live' /\ ~ended
    BY <1>0, <2>1 DEF HostInv, Live, ClearedStorage
  <2>5. HostInv'
    BY <1>0, <2>1, <2>2, <2>4 DEF HostInv, RecordBacked
  <2>6. CardInv' /\ VoltInv'
    BY <1>0, <2>1, <2>4 DEF CardInv, VoltInv
  <2>7. TimingInv' /\ ClkInv'
    BY <1>0, <2>1, <2>4 DEF TimingInv, ClkInv
  <2>8. BusInv'
    BY <1>0, <2>1, <2>4 DEF BusInv
  <2> QED  BY <2>3, <2>5, <2>6, <2>7, <2>8 DEF IInv
<1>2. CASE inserted
  <2>1. /\ pc = "host" /\ PowerUp /\ clk' = SdmmcClockEnable(clk, "SD_ID")
        /\ storage' = ClearedStorage
        /\ UNCHANGED <<locals, slot, ended>>
        /\ \/ /\ host' = HostOn /\ regs' = ResetRegs
              /\ pc' = "idle" /\ done' = FALSE
           \/ /\ host' = ClockEnable(HostOn)
              /\ regs' = ClockEnableRegs(HostOn, FirstRegs)
              /\ pc' = "go_idle" /\ done' = done
    BY <1>2 DEF sdmmc_init, InitFails, Returns0
  <2>2. HostOn \in HostRecords /\ HostOn.card_clock_enabled = FALSE
        /\ HostOn.clock_stopped = FALSE
    BY DEF HostRecords, HostOn, ClearedHost, Errors
  <2>3. /\ host' \in HostRecords /\ host'.clock_stopped = FALSE
        /\ pc' = "go_idle" => host'.card_clock_enabled = TRUE
    BY <2>1, <2>2 DEF HostRecords, ClockEnable
  <2>4. /\ ResetRegs \in RegRecords /\ ResetRegs.timing = "SD_ID"
        /\ ResetRegs.width = 1
    BY DEF RegRecords, ResetRegs, Voltages, Timings, HighVoltageTimings
  <2>5. /\ FirstRegs \in RegRecords /\ FirstRegs.timing = "SD_ID"
        /\ FirstRegs.width = 1 /\ FirstRegs.io = "3.3"
    BY <2>4 DEF FirstRegs, RegRecords, Voltages
  <2>6. /\ regs' \in RegRecords /\ regs'.timing = "SD_ID" /\ regs'.width = 1
        /\ pc' = "go_idle" => regs'.io = "3.3"
    <3>1. CASE regs' = ResetRegs /\ pc' = "idle"
      BY <3>1, <2>4
    <3>2. CASE regs' = ClockEnableRegs(HostOn, FirstRegs)
      BY <3>2, <2>5 DEF ClockEnableRegs, RegRecords
    <3> QED  BY <2>1, <3>1, <3>2
  <2>7. /\ board' \in BoardRecords /\ board'.supply = TRUE
        /\ board'.ldo2 = "3.3"
        /\ board'.det33 = TRUE
    BY <2>1 DEF PowerUp, Rails33, BoardRecords, Voltages
  <2>8. /\ clk' \in ClkRecords /\ clk'.enabled = TRUE
        /\ clk'.clock = CardClock("SD_ID")
        /\ ~FromPllc4(clk'.clock)
    BY <1>0, <2>1, FirstClock DEF TypeOK
  <2>9. /\ PoweredUp \in CardRecords
        /\ PoweredUp.state = "idle" /\ PoweredUp.volt = "3.3"
        /\ PoweredUp.width = 1 /\ PoweredUp.fn = 0
    BY DEF CardRecords, PoweredUp, OffCard
  <2>10. /\ card' \in CardRecords /\ warm' \in BOOLEAN
         /\ \/ card' = PoweredUp
            \/ card' = card /\ (card.volt = "3.3" \/ warm')
    BY <1>0, <2>1, <2>9 DEF TypeOK, PowerUp, CardRecords
  <2>11. /\ ~storage'.initialized /\ ~storage'.is_low_voltage /\ ~ended
         /\ storage' \in [initialized : BOOLEAN, is_low_voltage : BOOLEAN,
                          has_sector_access : BOOLEAN]
    BY <1>0, <2>1 DEF HostInv, ClearedStorage
  <2>12. TypeOK'
    <3>1. pc' \in Steps /\ done' \in BOOLEAN
      BY <1>0, <2>1 DEF TypeOK, Steps
    <3> QED  BY <1>0, <2>1, <2>3, <2>6, <2>7, <2>8, <2>10, <2>11, <3>1
       DEF TypeOK
  <2>13. HostInv'
    BY <2>1, <2>3, <2>7, <2>8, <2>11 DEF HostInv, RecordBacked
  <2>14. CardInv'
    BY <1>0, <1>2, <2>1, <2>9, <2>10, <2>11 DEF CardInv, Live
  <2>15. VoltInv'
    <3>1. pc' = "go_idle" => RailsAgree'
      BY <2>1, <2>6, <2>7, <2>11 DEF RailsAgree
    <3>2. pc' = "go_idle" => card'.volt = "3.3" \/ warm'
      BY <2>9, <2>10
    <3>3. pc' \in {"idle", "go_idle"} /\ ~storage'.initialized
      BY <2>1, <2>11
    <3> QED  BY <2>6, <3>1, <3>2, <3>3 DEF VoltInv, Live
  <2>17. TimingInv'
    BY <2>1, <2>6, <2>11 DEF TimingInv
  <2>18. ClkInv'
    BY <2>6, <2>8 DEF ClkInv
  <2>19. BusInv'
    BY <1>0, <2>1, <2>6, <2>11 DEF BusInv, Live
  <2> QED  BY <2>12, <2>13, <2>14, <2>15, <2>17, <2>18, <2>19 DEF IInv

<1> QED  BY <1>1, <1>2

LEMMA StorageInitInv ==
    ASSUME IInv, NEW m \in Modes, StorageInit(m)
    PROVE  IInv'
<1>0. /\ TypeOK /\ HostInv /\ CardInv /\ VoltInv
      /\ TimingInv /\ ClkInv /\ BusInv
  BY DEF IInv
<1>a. /\ m[1] \in {1, 4} /\ m[2] \in Timings
      /\ "DS12" \in Timings /\ "host" \in Steps /\ 0 \in 0 .. Polls
  BY CardAssumption DEF Timings, HighVoltageTimings, Steps
<1>1. TypeOK'
  BY <1>0, <1>a DEF TypeOK, StorageInit
<1>2. HostInv'
  BY <1>0 DEF HostInv, RecordBacked, StorageInit
<1>3. CardInv'
  BY <1>0 DEF CardInv, Live, StorageInit
<1>4. VoltInv'
  BY <1>0 DEF VoltInv, RailsAgree, Live, StorageInit
<1>5. TimingInv'
  BY <1>0 DEF TimingInv, Live, StorageInit
<1>6. ClkInv'
  BY <1>0, ClkKept DEF StorageInit, Live
<1>7. BusInv'
  BY <1>0 DEF BusInv, Live, StorageInit
<1> QED  BY <1>1, <1>2, <1>3, <1>4, <1>5, <1>6, <1>7 DEF IInv

LEMMA StorageEndInv ==
    ASSUME IInv, StorageEnd
    PROVE  IInv'
<1>0. /\ TypeOK /\ HostInv /\ CardInv /\ VoltInv
      /\ TimingInv /\ ClkInv /\ BusInv
  BY DEF IInv
<1>a. ~host.clock_stopped /\ host.card_clock_enabled
  BY <1>0 DEF StorageEnd, HostInv, RecordBacked
<1>b. /\ host' = [ClockDisable(host) EXCEPT !.clock_stopped = TRUE]
      /\ regs' = SetIoPower(ClockDisableRegs(regs), "off")
      /\ board' = UnpoweredBoard /\ clk' = SdmmcClockDisable(clk)
      /\ card' = OffCard
      /\ storage' = [storage EXCEPT !.initialized = FALSE]
      /\ pc = "idle" /\ ended' = TRUE /\ done' = FALSE
      /\ UNCHANGED <<locals, pc, slot, warm>>
  BY <1>a DEF StorageEnd
<1>c. host' \in HostRecords /\ host'.card_clock_enabled = FALSE
  BY <1>0, <1>b DEF TypeOK, HostRecords, ClockDisable
<1>d. regs' \in RegRecords
  BY <1>0, <1>b DEF TypeOK, RegRecords, SetIoPower, ClockDisableRegs, Voltages
<1>e. board' \in BoardRecords /\ board'.supply = FALSE
  BY <1>b DEF BoardRecords, UnpoweredBoard, Voltages
<1>f. clk' \in ClkRecords /\ clk'.enabled = FALSE
  BY <1>0, <1>b DEF TypeOK, ClkRecords, SdmmcClockDisable, DisablePllc4
<1>g. /\ card' \in CardRecords /\ card'.state = "off"
      /\ card'.width = 1 /\ card'.fn = 0
  BY <1>b DEF CardRecords, OffCard
<1>h. /\ storage' \in [initialized : BOOLEAN, is_low_voltage : BOOLEAN,
                       has_sector_access : BOOLEAN]
      /\ storage'.initialized = FALSE
  BY <1>0, <1>b DEF TypeOK

<1>1. TypeOK'
  BY <1>0, <1>b, <1>c, <1>d, <1>e, <1>f, <1>g, <1>h DEF TypeOK
<1>2. HostInv'
  BY <1>0, <1>b, <1>c, <1>d, <1>e, <1>f, <1>g, <1>h DEF HostInv, RecordBacked
<1>3. CardInv'
  BY <1>0, <1>b, <1>c, <1>d, <1>e, <1>f, <1>g, <1>h DEF CardInv
<1>4. VoltInv'
  BY <1>0, <1>b, <1>c, <1>d, <1>e, <1>f, <1>g, <1>h DEF VoltInv, RailsAgree,
     Live
<1>5. TimingInv'
  BY <1>0, <1>b, <1>c, <1>d, <1>e, <1>f, <1>g, <1>h DEF TimingInv, Live
<1>6. ClkInv'
  BY <1>0, <1>b, <1>c, <1>d, <1>e, <1>f, <1>g, <1>h DEF ClkInv, Live
<1>7. BusInv'
  BY <1>0, <1>b, <1>c, <1>d, <1>e, <1>f, <1>g, <1>h DEF BusInv
<1> QED  BY <1>1, <1>2, <1>3, <1>4, <1>5, <1>6, <1>7 DEF IInv

LEMMA StorageEndFailsInv ==
    ASSUME IInv, StorageEndFails
    PROVE  IInv'
<1>0. /\ TypeOK /\ HostInv /\ CardInv /\ VoltInv
      /\ TimingInv /\ ClkInv /\ BusInv
  BY DEF IInv
<1>a. card' = card \/ (card' = AfterReset(card) /\ inserted)
  BY DEF StorageEndFails, TakesReset, Reached
<1>b. /\ card'.volt = card.volt
      /\ \/ card' = card
         \/ card'.state = "idle" /\ card'.width = 1 /\ card'.fn = 0 /\ inserted
  BY <1>a DEF AfterReset
<1>c. /\ pc = "idle" /\ done' = FALSE /\ ended' = FALSE
      /\ UNCHANGED <<host, regs, board, clk, storage, locals, pc, slot, warm>>
  BY DEF StorageEndFails
<1>card. card' \in CardRecords
  BY <1>0, <1>a, ResetCard DEF TypeOK
<1>1. TypeOK'
  BY <1>0, <1>c, <1>card DEF TypeOK
<1>2. HostInv'
  BY <1>0, <1>b, <1>c DEF HostInv, RecordBacked
<1>3. CardInv'
  BY <1>0, <1>b, <1>c DEF CardInv, Live
<1>4. VoltInv'
  BY <1>0, <1>b, <1>c DEF VoltInv, RailsAgree, Live
<1>5. TimingInv'
  BY <1>0, <1>b, <1>c DEF TimingInv, Live
<1>6. ClkInv'
  BY <1>0, <1>c, ClkKept DEF Live
<1>7. BusInv'
  BY <1>0, <1>b, <1>c DEF BusInv, Live
<1> QED  BY <1>1, <1>2, <1>3, <1>4, <1>5, <1>6, <1>7 DEF IInv

LEMMA RemoveInv ==
    ASSUME IInv, Remove
    PROVE  IInv'
<1>0. /\ TypeOK /\ HostInv /\ CardInv /\ VoltInv
      /\ TimingInv /\ ClkInv /\ BusInv
  BY DEF IInv
<1>card. card' \in CardRecords
  BY <1>0 DEF CardRecords, Remove, OffCard
<1>1. TypeOK'
  BY <1>0, <1>card DEF TypeOK, Remove
<1>2. HostInv'
  BY <1>0 DEF HostInv, RecordBacked, Remove
<1>3. CardInv'
  BY <1>0 DEF CardInv, Remove, OffCard
<1>4. VoltInv'
  BY <1>0 DEF VoltInv, RailsAgree, Live, Remove, OffCard
<1>5. TimingInv'
  BY <1>0 DEF TimingInv, Live, Remove
<1>6. ClkInv'
  BY <1>0, ClkKept DEF Remove, Live
<1>7. BusInv'
  BY <1>0 DEF BusInv, Remove, OffCard
<1> QED  BY <1>1, <1>2, <1>3, <1>4, <1>5, <1>6, <1>7 DEF IInv

LEMMA InsertInv ==
    ASSUME IInv, Insert
    PROVE  IInv'
<1>0. /\ TypeOK /\ HostInv /\ CardInv /\ VoltInv
      /\ TimingInv /\ ClkInv /\ BusInv
  BY DEF IInv
<1>card. card' \in CardRecords
  BY <1>0 DEF CardRecords, Insert, OffCard, PoweredUp
<1>1. TypeOK'
  BY <1>0, <1>card DEF TypeOK, Insert
<1>2. HostInv'
  BY <1>0 DEF HostInv, RecordBacked, Insert
<1>3. CardInv'
  BY <1>0 DEF CardInv, Insert, OffCard, PoweredUp
<1>4. VoltInv'
  BY <1>0 DEF VoltInv, RailsAgree, Live, Insert, OffCard, PoweredUp
<1>5. TimingInv'
  BY <1>0 DEF TimingInv, Live, Insert
<1>6. ClkInv'
  BY <1>0, ClkKept DEF Insert, Live
<1>7. BusInv'
  BY <1>0 DEF BusInv, Insert, OffCard, PoweredUp
<1> QED  BY <1>1, <1>2, <1>3, <1>4, <1>5, <1>6, <1>7 DEF IInv

(* Nothing happens. *)
LEMMA StutterInv ==
    ASSUME IInv, UNCHANGED vars
    PROVE  IInv'
<1>1. TypeOK' /\ HostInv' /\ CardInv'
  BY DEF IInv, vars, TypeOK, HostInv, RecordBacked, CardInv, Live
<1>2. VoltInv' /\ TimingInv' /\ BusInv'
  BY DEF IInv, vars, VoltInv, RailsAgree, TimingInv, BusInv, Live
<1>3. ClkInv'
  BY ClkKept DEF IInv, vars, Live
<1> QED  BY <1>1, <1>2, <1>3 DEF IInv

LEMMA InitInv ==
    ASSUME Init
    PROVE  IInv
<1>1. TypeOK
  <2>1. /\ host \in HostRecords /\ regs \in RegRecords
    BY DEF Init, HostOn, ClearedHost, HostRecords, Errors, ResetRegs, RegRecords,
       Voltages, Timings, HighVoltageTimings
  <2>2. board \in BoardRecords /\ clk \in ClkRecords
    BY DEF Init, UnpoweredBoard, BoardRecords, Voltages, OffClk, ClkRecords
  <2>3. storage \in [initialized : BOOLEAN, is_low_voltage : BOOLEAN,
                     has_sector_access : BOOLEAN]
    BY DEF Init, ClearedStorage
  <2>4. card \in CardRecords
    BY DEF Init, OffCard, CardRecords
  <2>5. /\ "SDR104" \in Timings /\ "DS12" \in Timings
        /\ "idle" \in Steps /\ 0 \in 0 .. Polls
    BY CardAssumption DEF Timings, UhsTimings, HighVoltageTimings, Steps
  <2> QED  BY <2>1, <2>2, <2>3, <2>4, <2>5 DEF Init, TypeOK
<1>2. ~storage.initialized /\ ~host.card_clock_enabled /\ ~clk.enabled
  BY DEF Init, ClearedStorage, HostOn, ClearedHost, OffClk
<1>3. card.state = "off" /\ card.width = 1 /\ card.fn = 0
  BY DEF Init, OffCard
<1>4. pc = "idle" /\ ~ended
  BY DEF Init
<1>5. HostInv /\ CardInv
  BY <1>2, <1>3, <1>4 DEF HostInv, RecordBacked, CardInv
<1>6. VoltInv /\ TimingInv
  BY <1>2, <1>4 DEF VoltInv, TimingInv, Live
<1>7. ClkInv
  BY <1>2, <1>4 DEF ClkInv, Live
<1>8. BusInv
  BY <1>2, <1>3, <1>4 DEF BusInv
<1> QED  BY <1>1, <1>5, <1>6, <1>7, <1>8 DEF IInv

(* Every step of the initialization, of its callers and of the user keeps  *)
(* the invariant.                                                          *)
LEMMA StepInv ==
    ASSUME IInv, [Next]_vars
    PROVE  IInv'
<1>1. CASE Identification
  BY <1>1, GoIdleInv, SendIfCondInv, OpCondReadyInv, StillBusyInv,
     OpCondFailsInv, SwitchVoltageInv, LowVoltageClockInv, SwitchRailsInv,
     LowVoltageClockOnInv, GetCidInv, GetRcaInv, DefaultClockInv, SelectCardInv
     DEF Identification
<1>2. CASE Bus
  BY <1>2, GetScrInv, SetBusWidth4Inv, UhsModesInv, HsModesInv,
     SetCardBusSpeedInv, UhsClockInv, TuneInv, HsClockInv, ReadyInv DEF Bus
<1>3. CASE sdmmc_init \/ Query
  BY <1>3, sdmmc_initInv, QueryInv
<1>4. CASE Caller
  BY <1>4, StorageInitInv, StorageEndInv, StorageEndFailsInv DEF Caller
<1>5. CASE Remove \/ Insert
  BY <1>5, RemoveInv, InsertInv
<1>6. CASE UNCHANGED vars
  BY <1>6, StutterInv
<1> QED  BY <1>1, <1>2, <1>3, <1>4, <1>5, <1>6 DEF Next, Running

THEOREM Invariance == Spec => []IInv
<1>1. Init => IInv
  BY InitInv
<1>2. IInv /\ [Next]_vars => IInv'
  BY StepInv
<1> QED  BY <1>1, <1>2, PTL DEF Spec

(* Every variable keeps its type. *)
THEOREM TypeCorrect == Spec => []TypeOK
<1>1. IInv => TypeOK
  BY DEF IInv
<1> QED  BY <1>1, Invariance, PTL

(* Behind a live handle the host and the card agree on bus width, speed,   *)
(* addressing and voltage, and the controller's clock is the one of its    *)
(* timing: sdmmc_storage_init_sd leaves nothing half done, however often   *)
(* it failed before and whatever the user did to the card.                 *)
THEOREM HandleAgrees == Spec => []BoardAgrees
<1>1. IInv => BusAgrees
  <2> SUFFICES ASSUME IInv, Serving PROVE BusAgrees
    BY DEF BusAgrees
  <2>1. pc \in {"idle", "host"} /\ Live /\ storage.initialized /\ card.state = "tran"
    BY DEF IInv, HostInv, Serving, Live
  <2>2. card.width = regs.width /\ card.fn = Function(regs.timing)
    BY <2>1 DEF IInv, BusInv
  <2>3. regs.timing \in {"SDR50", "SDR104"} => regs.tuned
    BY <2>1 DEF IInv, TimingInv
  <2>4. storage.has_sector_access = kind.ccs
    BY <2>1 DEF IInv, CardInv
  <2> QED  BY <2>2, <2>3, <2>4 DEF BusAgrees
<1>2. IInv => VoltageAgrees
  <2> SUFFICES ASSUME IInv, Serving PROVE VoltageAgrees
    BY DEF VoltageAgrees
  <2>1. pc \in {"idle", "host"} /\ Live /\ card.state = "tran"
    BY DEF IInv, HostInv, Serving, Live
  <2>2. RailsAgree /\ (card.volt = regs.io \/ warm)
    BY <2>1 DEF IInv, VoltInv
  <2> QED  BY <2>2 DEF VoltageAgrees, RailsAgree
<1>3. IInv => ClockAgrees
  BY DEF IInv, ClkInv, Live, Serving, ClockAgrees
<1>4. IInv => BoardAgrees
  BY <1>1, <1>2, <1>3 DEF BoardAgrees
<1> QED  BY <1>4, Invariance, PTL

(* The host's record knows the supply it has to cut: a shutdown that       *)
(* returns 1 (sdmmc_storage_end) leaves the card without it.               *)
THEOREM RecordIsBacked == Spec => []RecordBacked
<1>1. IInv => RecordBacked
  BY DEF IInv, HostInv
<1> QED  BY <1>1, Invariance, PTL

-----------------------------------------------------------------------------
(* The initialization as CardSpec sees it.  In the lemmas a step of it     *)
(* leaves the supply, the slot and the record of the host as they are.     *)
SettingBus == {"csd", "default_clock", "select", "blocklen", "card_detect", "scr",
               "bus_width", "uhs_fmodes", "hs_fmodes", "set_speed", "uhs_clock",
               "tune", "uhs_status", "hs_status"}

SameSide ==
    /\ host'.clock_stopped = host.clock_stopped
    /\ host'.card_clock_enabled = host.card_clock_enabled
    /\ board'.supply = board.supply
    /\ inserted' = inserted

InSlot == card.state \in {"stby", "tran"}

LEMMA Phases ==
    ASSUME TypeOK
    PROVE  /\ Phase = "ident" <=> pc \in Identifying
           /\ Phase = "bus" <=> pc \in SettingBus
           /\ Phase = "idle" <=> pc \in {"idle", "host", "hs_clock", "ssr"}
           /\ Phase = "ident" \/ Phase = "bus" \/ Phase = "idle"
  BY DEF TypeOK, Steps, Queries, Phase, Decided, Identifying, SettingBus

(* A step that CardSpec does not see. *)
LEMMA Unseen ==
    ASSUME SameSide, Usable' = Usable, Agreed' = Agreed, Phase' = Phase
    PROVE  [C!CardNext]_(C!cardVars)
  BY DEF SameSide, C!cardVars, C!side, C!host

(* A command up to the address. *)
LEMMA IdentifyingStep ==
    ASSUME IInv, TypeOK', SameSide, pc \in Identifying, ~storage'.initialized,
           \/ pc' \in Identifying \cup {"idle"}
           \/ pc' = "csd" /\ inserted /\ card'.state = "stby"
    PROVE  [C!CardNext]_(C!cardVars)
<1>1. /\ Phase = "ident" /\ ~Usable /\ Agreed = "raw"
  BY Phases DEF IInv, HostInv, Usable, Decided, Agreed, Identifying
<1>2. CASE pc' \in Identifying
  <2>1. Phase' = "ident" /\ ~Usable' /\ Agreed' = "raw"
    BY <1>2, Phases DEF Usable, Decided, Agreed, Phase, Identifying
  <2> QED  BY <1>1, <2>1, Unseen DEF Usable
<1>3. CASE pc' = "idle"
  <2>1. Phase' = "idle" /\ Usable' = FALSE /\ Usable = FALSE /\ Agreed' = "raw"
    BY <1>1, <1>3 DEF Phase, Usable, Decided, Agreed
  <2>2. C!GiveUp
    BY <1>1, <2>1 DEF SameSide, C!GiveUp, C!InitGivenUp, C!host
  <2> QED  BY <2>2 DEF C!CardNext
<1>4. CASE pc' = "csd" /\ inserted /\ card'.state = "stby"
  <2>1. /\ Phase' = "bus" /\ Usable' = FALSE /\ Usable = FALSE
        /\ Agreed' = "ident"
    BY <1>1, <1>4 DEF Phase, Usable, Decided, Agreed, Identifying
  <2>2. C!Identify
    BY <1>1, <1>4, <2>1 DEF SameSide, C!Identify, C!CardIdentified, C!host
  <2> QED  BY <2>2 DEF C!CardNext
<1> QED  BY <1>2, <1>3, <1>4

(* A command behind it. *)
LEMMA SettingBusStep ==
    ASSUME IInv, TypeOK', SameSide, pc \in SettingBus, ~storage'.initialized,
           \/ pc' = "idle"
           \/ pc' \in SettingBus /\ InSlot' = InSlot
           \/ /\ pc' \in {"hs_clock", "ssr"}
              /\ inserted /\ card.state = "tran" /\ card'.state = "tran"
    PROVE  [C!CardNext]_(C!cardVars)
<1>1. /\ Phase = "bus" /\ Usable = FALSE
      /\ Agreed = IF InSlot THEN "ident" ELSE "raw"
  BY Phases DEF IInv, HostInv, Usable, Decided, Agreed, SettingBus, InSlot
<1>2. CASE pc' = "idle"
  <2>1. Phase' = "idle" /\ Usable' = FALSE /\ Agreed' = "raw"
    BY <1>2 DEF Phase, Usable, Decided, Agreed
  <2>2. C!GiveUp
    BY <1>1, <2>1 DEF SameSide, C!GiveUp, C!InitGivenUp, C!host
  <2> QED  BY <2>2 DEF C!CardNext
<1>3. CASE pc' \in SettingBus /\ InSlot' = InSlot
  <2>1. Phase' = "bus"
    BY <1>3 DEF Phase, Decided, Identifying, SettingBus
  <2>2. Usable' = FALSE
    BY <1>3 DEF Usable, Decided, SettingBus
  <2>3. Agreed' = Agreed
    BY <1>1, <1>3, <2>1, <2>2 DEF Agreed, InSlot
  <2> QED  BY <1>1, <2>1, <2>2, <2>3, Unseen
<1>4. CASE /\ pc' \in {"hs_clock", "ssr"}
           /\ inserted /\ card.state = "tran" /\ card'.state = "tran"
  <2>1. Phase' = "idle" /\ Usable' = TRUE /\ Agreed' = "tran"
    BY <1>4 DEF Phase, Usable, Decided, Agreed
  <2>2. Agreed = "ident"
    BY <1>1, <1>4 DEF InSlot
  <2>3. C!Finish
    BY <1>1, <1>4, <2>1, <2>2 DEF SameSide, C!Finish, C!CardReady, C!host
  <2> QED  BY <2>3 DEF C!CardNext
<1> QED  BY <1>2, <1>3, <1>4


LEMMA IdentificationImplements ==
    ASSUME IInv, IInv', Identification
    PROVE  [C!CardNext]_(C!cardVars)
<1>0. TypeOK /\ TypeOK' /\ HostInv /\ CardInv
  BY DEF IInv
<1>a. host \in HostRecords /\ board \in BoardRecords
  BY <1>0 DEF TypeOK
<1>1. CASE SelectCard
  <2> DEFINE effect == [card EXCEPT !.state = "tran"]
  <2>1. /\ pc = "select" /\ storage' = storage
        /\ UNCHANGED <<host, board, inserted>>
        /\ \/ pc' = "idle"
           \/ pc' = "blocklen" /\ card.state = "stby" /\ card' = effect
    BY <1>1 DEF SelectCard, Answered, Lost, Reached, InitFails, Returns0
  <2>2. effect.state = "tran"
    BY <1>0, CardState DEF TypeOK
  <2> HIDE DEF effect
  <2>3. ~storage'.initialized
    BY <1>0, <2>1 DEF HostInv
  <2>4. CASE pc' = "idle"
    BY <1>0, <2>1, <2>3, <2>4, SettingBusStep DEF SameSide, SettingBus
  <2>5. CASE pc' = "blocklen" /\ card.state = "stby" /\ card'.state = "tran"
    <3>1. pc' \in SettingBus /\ InSlot' = InSlot
      BY <2>5 DEF SettingBus, InSlot
    <3> QED  BY <1>0, <2>1, <2>3, <3>1, SettingBusStep DEF SameSide, SettingBus
  <2> QED  BY <2>1, <2>2, <2>4, <2>5
<1>2. CASE DefaultClock
  <2>1. /\ pc = "default_clock" /\ pc' = "select"
        /\ UNCHANGED <<host, board, storage, inserted, card>>
    BY <1>2 DEF DefaultClock
  <2> QED
    BY <1>0, <2>1, SettingBusStep DEF SameSide, SettingBus, InSlot, HostInv
<1>3. CASE GetRca
  <2> DEFINE effect == [card EXCEPT !.state = "stby"]
  <2>1. /\ pc = "rca" /\ storage' = storage
        /\ UNCHANGED <<host, board, inserted>>
        /\ pc' = "idle" \/ (pc' = "csd" /\ inserted /\ card' = effect)
    BY <1>3 DEF GetRca, Answered, Lost, Reached, InitFails, Returns0
  <2>2. effect.state = "stby"
    BY <1>0, CardState DEF TypeOK
  <2>3. pc' = "idle" \/ (pc' = "csd" /\ inserted /\ card'.state = "stby")
    BY <2>1, <2>2
  <2> QED
    BY <1>0, <2>1, <2>3, IdentifyingStep DEF SameSide, Identifying, HostInv
<1>4. CASE ~(SelectCard \/ DefaultClock \/ GetRca)
  <2>1. /\ pc \in Identifying /\ pc' \in Identifying \cup {"idle"}
        /\ inserted' = inserted
    BY <1>4 DEF Identification, GoIdle, SendIfCond, OpCondReady, StillBusy,
       OpCondFails, SwitchVoltage, LowVoltageClock, SwitchRails,
       LowVoltageClockOn, GetCid, Answered, Lost, InitFails, Returns0,
       Identifying
  <2>2. storage'.initialized = storage.initialized
    BY <1>0, <1>4 DEF Identification, GoIdle, SendIfCond, OpCondReady,
       StillBusy, OpCondFails, SwitchVoltage, LowVoltageClock, SwitchRails,
       LowVoltageClockOn, GetCid, Answered, Lost, InitFails, Returns0, TypeOK
  <2>3. /\ host'.clock_stopped = host.clock_stopped
        /\ host'.card_clock_enabled = host.card_clock_enabled
    BY <1>a, <1>4 DEF Identification, GoIdle, SendIfCond, OpCondReady,
       StillBusy, OpCondFails, SwitchVoltage, LowVoltageClock, SwitchRails,
       LowVoltageClockOn, GetCid, HostRecords
  <2>4. board'.supply = board.supply
    BY <1>a, <1>4 DEF Identification, GoIdle, SendIfCond, OpCondReady,
       StillBusy, OpCondFails, SwitchVoltage, LowVoltageClock, SwitchRails,
       LowVoltageClockOn, GetCid, BoardRecords
  <2>5. ~storage'.initialized
    BY <1>0, <2>1, <2>2 DEF HostInv, Identifying
  <2> QED  BY <1>0, <2>1, <2>3, <2>4, <2>5, IdentifyingStep DEF SameSide
<1> QED  BY <1>1, <1>2, <1>3, <1>4

(* A command of the transfer state, answered or lost. *)
LEMMA TransferCommand ==
    ASSUME IInv, IInv', NEW effect, NEW next,
           \/ Answered({"tran"}, effect, next) /\ UNCHANGED storage
           \/ Lost({"tran"}, effect),
           effect.state = "tran",
           pc \in SettingBus, UNCHANGED <<host, board, inserted>>,
           next \in SettingBus \cup {"hs_clock", "ssr"}
    PROVE  [C!CardNext]_(C!cardVars)
<1>1. /\ storage' = storage
      /\ \/ pc' = "idle"
         \/ /\ pc' = next /\ card' = effect
            /\ inserted /\ card.state = "tran"
  BY DEF Answered, Lost, Reached, InitFails, Returns0
<1>2. TypeOK' /\ ~storage'.initialized
  BY <1>1 DEF IInv, HostInv, SettingBus
<1>3. \/ pc' = "idle"
      \/ pc' \in SettingBus /\ InSlot' = InSlot
      \/ /\ pc' \in {"hs_clock", "ssr"}
         /\ inserted /\ card.state = "tran" /\ card'.state = "tran"
  BY <1>1 DEF InSlot
<1> QED  BY <1>2, <1>3, SettingBusStep DEF SameSide

LEMMA BusImplements ==
    ASSUME IInv, IInv', Bus
    PROVE  [C!CardNext]_(C!cardVars)
<1>0. /\ TypeOK /\ TypeOK' /\ HostInv /\ TimingInv /\ card \in CardRecords
      /\ host \in HostRecords
  BY DEF IInv, TypeOK
<1>a. SpeedStep \in SettingBus \cup {"hs_clock", "ssr"}
  BY DEF SpeedStep, SettingBus
<1>1. CASE GetScr
  <2>1. CASE card.state = "tran"
    <3> DEFINE next == IF WideBus THEN "bus_width" ELSE SpeedStep
    <3>1. next \in SettingBus \cup {"hs_clock", "ssr"}
      BY <1>a DEF SettingBus
    <3>2. \/ Answered({"tran"}, card, next) /\ UNCHANGED storage
          \/ Lost({"tran"}, card)
      BY <1>1 DEF GetScr
    <3>3. pc \in SettingBus /\ UNCHANGED <<host, board, inserted>>
      BY <1>1 DEF GetScr, SettingBus
    <3> HIDE DEF next
    <3> QED  BY <2>1, <3>1, <3>2, <3>3, TransferCommand
  <2>2. CASE card.state # "tran"
    <3>1. /\ pc = "scr" /\ pc' = "idle" /\ storage' = storage
          /\ UNCHANGED <<host, board, inserted>>
      BY <1>1, <2>2 DEF GetScr, Answered, Lost, Reached, InitFails, Returns0
    <3> QED  BY <1>0, <3>1, SettingBusStep DEF SameSide, SettingBus, HostInv
  <2> QED  BY <2>1, <2>2
<1>2. CASE SetBusWidth4
  <2> DEFINE effect == [card EXCEPT !.width = 4]
  <2>1. /\ pc = "bus_width" /\ storage' = storage
        /\ UNCHANGED <<host, board, inserted>>
        /\ \/ pc' = "idle"
           \/ /\ pc' = SpeedStep /\ card' = effect
              /\ inserted /\ card.state = "tran"
    BY <1>2 DEF SetBusWidth4, Answered, Lost, Reached, InitFails, Returns0
  <2>2. effect.state = card.state
    BY <1>0, CardWidth
  <2>3. ~storage'.initialized
    BY <1>0, <2>1 DEF HostInv
  <2>4. \/ pc' = "idle"
        \/ pc' \in SettingBus /\ InSlot' = InSlot
        \/ /\ pc' \in {"hs_clock", "ssr"}
           /\ inserted /\ card.state = "tran" /\ card'.state = "tran"
    BY <1>a, <2>1, <2>2 DEF InSlot
  <2> QED  BY <1>0, <2>1, <2>3, <2>4, SettingBusStep DEF SameSide, SettingBus
<1>3. CASE UhsModes \/ HsModes
  <2>1. /\ pc \in {"uhs_fmodes", "hs_fmodes"} /\ storage' = storage
        /\ UNCHANGED <<host, board, inserted, card>>
        /\ \/ pc' = "idle"
           \/ /\ pc' \in {"ssr", "set_speed"}
              /\ inserted /\ card.state = "tran"
    BY <1>3 DEF UhsModes, HsModes, Answered, Lost, Reached, InitFails, Returns0
  <2>2. \/ pc' = "idle"
        \/ pc' \in SettingBus /\ InSlot' = InSlot
        \/ /\ pc' \in {"hs_clock", "ssr"}
           /\ inserted /\ card.state = "tran" /\ card'.state = "tran"
    BY <2>1 DEF SettingBus, InSlot
  <2>3. ~storage'.initialized
    BY <1>0, <2>1 DEF HostInv
  <2> QED  BY <1>0, <2>1, <2>2, <2>3, SettingBusStep DEF SameSide, SettingBus
<1>4. CASE SetCardBusSpeed
  <2> DEFINE effect == [card EXCEPT !.fn = Function(hs_type)]
  <2>1. /\ pc = "set_speed" /\ storage' = storage
        /\ UNCHANGED <<host, board, inserted>>
        /\ \/ pc' = "idle"
           \/ /\ pc' \in {"hs_status", "uhs_clock"} /\ card' = effect
              /\ inserted /\ card.state = "tran"
    BY <1>4 DEF SetCardBusSpeed, Answered, Lost, Reached, InitFails, Returns0
  <2>2. effect.state = card.state
    BY <1>0 DEF CardRecords
  <2>3. ~storage'.initialized
    BY <1>0, <2>1 DEF HostInv
  <2>4. pc' = "idle" \/ (pc' \in SettingBus /\ InSlot' = InSlot)
    BY <2>1, <2>2 DEF SettingBus, InSlot
  <2> QED  BY <1>0, <2>1, <2>3, <2>4, SettingBusStep DEF SameSide, SettingBus
<1>5. CASE UhsClock \/ Tune
  <2>1. /\ pc \in {"uhs_clock", "tune"}
        /\ pc' \in {"tune", "uhs_status", "idle"}
        /\ UNCHANGED <<host, board, storage, inserted, card>>
    BY <1>5 DEF UhsClock, Tune, InitFails, Returns0
  <2>2. ~storage'.initialized
    BY <1>0, <2>1 DEF HostInv
  <2>3. pc' = "idle" \/ (pc' \in SettingBus /\ InSlot' = InSlot)
    BY <2>1 DEF SettingBus, InSlot
  <2> QED  BY <1>0, <2>1, <2>2, <2>3, SettingBusStep DEF SameSide, SettingBus
<1>6. CASE HsClock \/ Ready
  <2>1. /\ pc \in {"hs_clock", "ssr"} /\ inserted' = inserted /\ board' = board
        /\ card' = card
        /\ pc' = "ssr" \/ (pc' = "idle" /\ storage'.initialized)
    BY <1>0, <1>6 DEF HsClock, Ready, TypeOK
  <2>2. SameSide
    BY <1>0, <1>6, <2>1 DEF HsClock, Ready, Powersave, HostRecords, SameSide
  <2>3. Usable = TRUE /\ Usable' = TRUE
    BY <1>0, <2>1 DEF Usable, Decided, TypeOK
  <2>4. Phase = "idle" /\ Phase' = "idle"
    BY <2>1 DEF Phase, Decided
  <2>5. Agreed' = Agreed
    BY <2>1, <2>3, <2>4 DEF Agreed
  <2> QED  BY <2>2, <2>3, <2>4, <2>5, Unseen
<1> QED  BY <1>1, <1>2, <1>3, <1>4, <1>5, <1>6 DEF Bus

(* sdmmc_init, the callers and the user. *)
LEMMA HostImplements ==
    ASSUME IInv, IInv', sdmmc_init
    PROVE  [C!CardNext]_(C!cardVars)
<1>1. /\ pc = "host" /\ storage'.initialized = FALSE /\ inserted' = inserted
      /\ pc' \in {"idle", "go_idle"}
  BY DEF sdmmc_init, ClearedStorage, Returns0
<1>2. Phase = "idle" /\ Usable' = FALSE /\ Agreed' = "raw"
  BY <1>1 DEF Phase, Usable, Decided, Agreed, Identifying
<1>3. CASE ~inserted
  <2>1. /\ pc' = "idle" /\ board' = board
        /\ host'.clock_stopped = TRUE /\ host'.card_clock_enabled = FALSE
    BY <1>3 DEF sdmmc_init, Returns0, ClearedHost
  <2>2. card.state = "off"
    BY <1>3 DEF IInv, CardInv
  <2>3. Phase' = "idle" /\ Agreed = "raw"
    BY <1>1, <1>2, <2>1, <2>2 DEF Phase, Decided, Agreed
  <2>4. C!HostAbsent
    BY <1>1, <1>2, <1>3, <2>1, <2>3 DEF C!HostAbsent
  <2> QED  BY <1>2, <2>3, <2>4 DEF C!Begin, C!CardNext
<1>4. CASE inserted
  <2>1. board'.supply = TRUE
    BY <1>4 DEF sdmmc_init, PowerUp, Rails33
  <2>2. /\ host'.clock_stopped = FALSE
        /\ \/ pc' = "idle" /\ host'.card_clock_enabled = FALSE
           \/ pc' = "go_idle" /\ host'.card_clock_enabled = TRUE
    BY <1>4 DEF sdmmc_init, Returns0, ClearedHost, HostOn, ClockEnable
  <2>3. CASE pc' = "idle" /\ host'.card_clock_enabled = FALSE
    <3>1. Phase' = "idle"
      BY <2>3 DEF Phase
    <3>2. C!HostStarts(FALSE)
      BY <1>1, <1>2, <1>4, <2>1, <2>2, <2>3 DEF C!HostStarts
    <3> QED  BY <1>2, <3>1, <3>2 DEF C!Begin, C!CardNext
  <2>4. CASE pc' = "go_idle" /\ host'.card_clock_enabled = TRUE
    <3>1. Phase' = "ident"
      BY <2>4 DEF Phase, Decided, Identifying
    <3>2. C!HostStarts(TRUE)
      BY <1>1, <1>2, <1>4, <2>1, <2>2, <2>4 DEF C!HostStarts
    <3> QED  BY <1>2, <3>1, <3>2 DEF C!Begin, C!CardNext
  <2> QED  BY <2>2, <2>3, <2>4
<1> QED  BY <1>3, <1>4

LEMMA QueryImplements ==
    ASSUME IInv, IInv', Query
    PROVE  [C!CardNext]_(C!cardVars)
<1>1. /\ pc \in Queries /\ storage' = storage /\ card' = card
      /\ UNCHANGED <<host, board, inserted>>
      /\ \/ pc' = "idle"
         \/ /\ pc' = NextOf(pc) /\ inserted /\ card.state \in StatesOf(pc)
  BY DEF Query, Answered, Lost, Reached, InitFails, Returns0, slot
<1>2. pc \in SettingBus /\ ~storage'.initialized /\ TypeOK'
  BY <1>1 DEF Queries, SettingBus, IInv, HostInv
<1>3. \/ pc' = "idle"
      \/ pc' \in SettingBus
      \/ /\ pc' \in {"hs_clock", "ssr"}
         /\ inserted /\ card.state = "tran"
  BY <1>1 DEF Queries, NextOf, StatesOf, SettingBus
<1>4. InSlot' = InSlot
  BY <1>1 DEF InSlot
<1> QED  BY <1>1, <1>2, <1>3, <1>4, SettingBusStep DEF SameSide

LEMMA CallerImplements ==
    ASSUME IInv, IInv', Caller
    PROVE  [C!CardNext]_(C!cardVars)
<1>1. CASE \E m \in Modes : StorageInit(m)
  <2>1. /\ pc = "idle" /\ pc' = "host"
        /\ UNCHANGED <<host, board, storage, inserted, card>>
    BY <1>1 DEF StorageInit, slot
  <2>2. Phase' = Phase /\ Usable' = Usable
    BY <2>1 DEF Phase, Usable, Decided
  <2>3. Agreed' = Agreed
    BY <2>1, <2>2 DEF Agreed
  <2> QED  BY <2>1, <2>2, <2>3, Unseen DEF SameSide
<1>2. CASE StorageEnd
  <2>1. /\ pc = "idle" /\ pc' = "idle" /\ inserted' = inserted
        /\ host.card_clock_enabled
    BY <1>2 DEF StorageEnd, slot
  <2>2. ~host.clock_stopped
    BY <2>1 DEF IInv, HostInv, RecordBacked
  <2>3. storage'.initialized = FALSE
    BY <1>2 DEF StorageEnd, IInv, TypeOK
  <2>4. Phase = "idle" /\ Phase' = "idle" /\ Usable' = FALSE /\ Agreed' = "raw"
    BY <2>1, <2>3 DEF Phase, Usable, Decided, Agreed
  <2>5. host' = [ClockDisable(host) EXCEPT !.clock_stopped = TRUE]
        /\ board'.supply = FALSE
    BY <1>2, <2>2 DEF StorageEnd, UnpoweredBoard
  <2>6. host'.clock_stopped = TRUE /\ host'.card_clock_enabled = FALSE
    BY <2>5 DEF IInv, TypeOK, HostRecords, ClockDisable
  <2>7. C!EndOk
    BY <2>1, <2>2, <2>4, <2>5, <2>6 DEF C!EndOk
  <2> QED  BY <2>4, <2>7 DEF C!StorageEnd, C!End, C!CardNext
<1>3. CASE StorageEndFails
  <2>1. /\ pc = "idle" /\ pc' = "idle"
        /\ UNCHANGED <<host, board, storage, inserted>>
    BY <1>3 DEF StorageEndFails, slot
  <2>2. Phase = "idle" /\ Phase' = "idle" /\ Usable' = Usable
    BY <2>1 DEF Phase, Usable, Decided
  <2>3. \/ card' = card
        \/ host.card_clock_enabled /\ card'.state = "idle"
    BY <1>3 DEF StorageEndFails, TakesReset, Reached, AfterReset
  <2>4. Agreed' = Agreed \/ (host.card_clock_enabled /\ Agreed' = "raw")
    BY <2>2, <2>3 DEF Agreed
  <2>5. C!EndFails
    BY <2>1, <2>2, <2>4 DEF C!EndFails, C!host
  <2> QED  BY <2>2, <2>5 DEF C!StorageEnd, C!End, C!CardNext
<1> QED  BY <1>1, <1>2, <1>3 DEF Caller

LEMMA UserImplements ==
    ASSUME IInv, IInv', Remove \/ Insert
    PROVE  [C!CardNext]_(C!cardVars)
<1>1. UNCHANGED <<host, board, storage, pc>>
  BY DEF Remove, Insert
<1>2. Phase' = Phase /\ Usable' = Usable
  BY <1>1 DEF Phase, Usable, Decided
<1>3. card'.state \notin {"stby", "tran"}
  BY DEF Remove, Insert, OffCard, PoweredUp
<1>4. Agreed' = "raw"
  BY <1>3 DEF Agreed
<1>5. CASE Remove
  <2>1. C!CardRemoved
    BY <1>1, <1>2, <1>4, <1>5 DEF Remove, C!CardRemoved, C!host
  <2> QED  BY <1>2, <2>1 DEF C!User, C!CardNext
<1>6. CASE Insert
  <2>1. ~inserted /\ inserted' = TRUE
    BY <1>6 DEF Insert
  <2>2. card.state = "off"
    BY <2>1 DEF IInv, CardInv
  <2>3. Agreed = "raw"
    BY <2>2 DEF Agreed
  <2>4. C!CardInserted
    BY <1>1, <1>2, <1>4, <2>1, <2>3 DEF C!CardInserted, C!host
  <2> QED  BY <1>2, <2>4 DEF C!User, C!CardNext
<1> QED  BY <1>5, <1>6

LEMMA StepImplements ==
    ASSUME IInv, IInv', [Next]_vars
    PROVE  [C!CardNext]_(C!cardVars)
<1>1. CASE UNCHANGED vars
  BY <1>1 DEF vars, slot, C!cardVars, C!side, C!host, Usable, Agreed, Phase,
     Decided
<1>2. CASE Next
  BY <1>2, HostImplements, QueryImplements, IdentificationImplements,
     BusImplements, CallerImplements, UserImplements DEF Next, Running
<1> QED  BY <1>1, <1>2

LEMMA InitImplements ==
    ASSUME Init
    PROVE  C!CardInit
<1>1. /\ storage.initialized = FALSE /\ pc = "idle" /\ card.state = "off"
      /\ inserted \in BOOLEAN
  BY DEF Init, ClearedStorage, OffCard
<1>2. /\ host.clock_stopped = FALSE /\ host.card_clock_enabled = FALSE
      /\ board.supply = FALSE
  BY DEF Init, HostOn, ClearedHost, UnpoweredBoard
<1>3. Phase = "idle" /\ Usable = FALSE /\ Agreed = "raw"
  BY <1>1 DEF Phase, Usable, Decided, Agreed
<1> QED  BY <1>1, <1>2, <1>3 DEF C!CardInit

(* The initialization and the shutdown of a card, command by command, each *)
(* of which may be lost, and the user's pulling and swapping between any   *)
(* two of them, do to the handle and the card what SdStorage takes them    *)
(* for: a handle gets usable only with the card that was identified.       *)
THEOREM ImplementsCard == Spec => ImplementsCardSpec
<1>1. Init => C!CardInit
  BY InitImplements
<1>2. IInv /\ IInv' /\ [Next]_vars => [C!CardNext]_(C!cardVars)
  BY StepImplements
<1>3. IInv /\ [Next]_vars => IInv'
  BY StepInv
<1>4. Init => IInv
  BY InitInv
<1> QED  BY <1>1, <1>2, <1>3, <1>4, PTL DEF Spec, ImplementsCardSpec,
     C!AbstractCard
=============================================================================
