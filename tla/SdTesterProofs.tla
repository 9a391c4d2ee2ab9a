--------------------------- MODULE SdTesterProofs ---------------------------
(***************************************************************************)
(* Theorems about SdTester, for every card capacity, read size, limit and  *)
(* set of latencies.                                                       *)
(***************************************************************************)
EXTENDS SdTester, TLAPS, FiniteSetTheorems

(* The inductive invariant: the properties to prove, and what each pc      *)
(* value says of the loop variables that carries them through a step.      *)
LoopInv ==
    /\ total \in Counts \cup {0}
    /\ pc = "btf" => i <= test
    /\ pc = "btf_high" => i < test /\ result.blocks_tested = 2 * i + 1
    /\ pc = "ready" => result.blocks_tested = 0

IInv == /\ TypeOK
        /\ LoopInv
        /\ SequentialCoverage
        /\ CountersAgree
        /\ VerdictSound
        /\ DeadCardNeverPasses

-----------------------------------------------------------------------------
(* Integer division never makes a number larger. *)
LEMMA DivBound ==
    ASSUME NEW n \in Nat, NEW d \in Nat \ {0}
    PROVE  n \div d \in Nat /\ n \div d <= n
  OBVIOUS

LEMMA BelowU32 ==
    ASSUME NEW a \in Nat, NEW b \in Nat, NEW c \in U32s, a <= b, b <= c
    PROVE  a \in U32s
  BY TesterAssumption DEF U32s

(* The u32 operators return u32 values. *)
LEMMA Word32 ==
    ASSUME NEW a \in U32s, NEW b \in U32s
    PROVE  Add32(a, b) \in U32s /\ Sub32(a, b) \in U32s
  BY TesterAssumption DEF U32s, Add32, Sub32

(* A capacity is a u32 value with room for one more read. *)
LEMMA Capacity ==
    ASSUME NEW c \in Counts \cup {0}
    PROVE  c \in U32s /\ c + BLOCKS_PER_READ < U32 /\ BLOCKS_PER_READ \in U32s
  BY TesterAssumption, CapacityAssumption, CountsAssumption DEF U32s

(* The iteration count of the butterfly test never exceeds the capacity. *)
LEMMA IterationsBound ==
    ASSUME NEW l \in Limits, NEW c \in Counts \cup {0}
    PROVE  TestIterations(l, c) \in U32s
  <1>1. c \in Nat /\ BLOCKS_PER_READ \in Nat \ {0} /\ c \in U32s /\ l \in U32s
    BY Capacity, TesterAssumption DEF U32s
  <1>2. c \div BLOCKS_PER_READ \in Nat /\ c \div BLOCKS_PER_READ <= c
    BY <1>1, DivBound
  <1>3. MaxIterations(c) \in Nat /\ MaxIterations(c) <= c \div BLOCKS_PER_READ
    BY <1>2, DivBound DEF MaxIterations
  <1>4. MaxIterations(c) \in U32s
    BY <1>1, <1>2, <1>3, BelowU32
  <1> QED BY <1>1, <1>4 DEF TestIterations

(* One read adds one tested block, and either passes or is an error. *)
LEMMA RecordStep ==
    ASSUME TypeOK, NEW lat \in Latencies, NEW ok \in BOOLEAN,
           NEW r, r = record_latency(result, lat, ok)
    PROVE  /\ r \in Results
           /\ r.blocks_tested = result.blocks_tested + 1
           /\ ok => /\ r.blocks_passed = result.blocks_passed + 1
                    /\ r.read_errors = result.read_errors
                    /\ r.slow_blocks <= result.slow_blocks + 1
           /\ ~ok => /\ r.blocks_passed = result.blocks_passed
                     /\ r.read_errors = result.read_errors + 1
                     /\ r.slow_blocks = result.slow_blocks
  <1>0. result \in Results
    BY DEF TypeOK
  <1>1. lat \in U32s
    BY TesterAssumption DEF U32s
  <1>2. /\ result.blocks_tested \in Nat /\ result.blocks_passed \in Nat
        /\ result.read_errors \in Nat /\ result.slow_blocks \in Nat
        /\ result.min_latency_us \in U32s /\ result.max_latency_us \in U32s
        /\ result.total_latency_us \in Nat
    BY DEF TypeOK, Results
  <1>3. CASE ok
    <2> DEFINE slow == IF IsSlow(lat) THEN 1 ELSE 0
               lo == IF lat < result.min_latency_us THEN lat
                     ELSE result.min_latency_us
               hi == IF lat > result.max_latency_us THEN lat
                     ELSE result.max_latency_us
    <2>1. r = [blocks_tested    |-> result.blocks_tested + 1,
               blocks_passed    |-> result.blocks_passed + 1,
               read_errors      |-> result.read_errors,
               slow_blocks      |-> result.slow_blocks + slow,
               min_latency_us   |-> lo,
               max_latency_us   |-> hi,
               total_latency_us |-> result.total_latency_us + lat]
      BY <1>3 DEF record_latency
    <2>2. slow \in 0 .. 1 /\ lo \in U32s /\ hi \in U32s /\ lat \in Nat
      BY <1>1, <1>2 DEF U32s
    <2> HIDE DEF slow, lo, hi
    <2>3. r.slow_blocks <= result.slow_blocks + 1
      BY <1>2, <2>1, <2>2
    <2>4. r \in Results
      BY <1>2, <2>1, <2>2 DEF Results
    <2>5. /\ r.blocks_tested = result.blocks_tested + 1
          /\ r.blocks_passed = result.blocks_passed + 1
          /\ r.read_errors = result.read_errors
      BY <2>1
    <2> QED BY <1>3, <2>3, <2>4, <2>5
  <1>4. CASE ~ok
    <2>1. r = [result EXCEPT !.blocks_tested = @ + 1, !.read_errors = @ + 1]
      BY <1>4 DEF record_latency
    <2>2. r \in Results
      <3> DEFINE q == [result EXCEPT !.blocks_tested = @ + 1]
      <3>1. q \in Results
        BY <1>0, <1>2 DEF Results
      <3>2. q.read_errors + 1 \in Nat /\ r = [q EXCEPT !.read_errors = @ + 1]
        BY <1>0, <1>2, <2>1 DEF Results
      <3> HIDE DEF q
      <3> QED BY <3>1, <3>2 DEF Results
    <2>3. /\ r.blocks_tested = result.blocks_tested + 1
          /\ r.blocks_passed = result.blocks_passed
          /\ r.read_errors = result.read_errors + 1
          /\ r.slow_blocks = result.slow_blocks
      BY <1>0, <2>1 DEF Results
    <2> QED BY <1>4, <2>2, <2>3
  <1> QED BY <1>3, <1>4

(* The storage handle stays well typed, and only a failed read tears it    *)
(* down.                                                                   *)
LEMMA ReadStep ==
    ASSUME TypeOK, NEW s, NEW n, NEW ok \in BOOLEAN, Read(s, n, ok)
    PROVE  StorageTypeOK' /\ (ok => up')
  BY DEF Read, ReadOk, ReadFail, Fits, TypeOK, StorageTypeOK

(* What every read of either test preserves. *)
LEMMA RecordedRead ==
    ASSUME TypeOK, CountersAgree, VerdictSound, pc # "ready",
           NEW s \in Nat, NEW n \in Nat, NEW lat \in Latencies,
           NEW ok \in BOOLEAN, ReadAndRecord(s, n, lat, ok)
    PROVE  /\ StorageTypeOK'
           /\ result' \in Results
           /\ covered' \subseteq Nat /\ good' \subseteq covered'
           /\ result'.blocks_tested = result.blocks_tested + 1
           /\ result'.blocks_tested
                = result'.blocks_passed + result'.read_errors
           /\ result'.slow_blocks <= result'.blocks_passed
           /\ VerdictSound' /\ DeadCardNeverPasses'
  <1>1. Read(s, n, ok) /\ result' = record_latency(result, lat, ok)
    BY DEF ReadAndRecord
  <1>2. StorageTypeOK' /\ (ok => up')
    BY <1>1, ReadStep
  <1>3. /\ result' \in Results
        /\ result'.blocks_tested = result.blocks_tested + 1
        /\ ok => /\ result'.blocks_passed = result.blocks_passed + 1
                 /\ result'.read_errors = result.read_errors
                 /\ result'.slow_blocks <= result.slow_blocks + 1
        /\ ~ok => /\ result'.blocks_passed = result.blocks_passed
                  /\ result'.read_errors = result.read_errors + 1
                  /\ result'.slow_blocks = result.slow_blocks
    BY <1>1, RecordStep
  <1>4. covered' \subseteq Nat /\ good' \subseteq covered'
    BY DEF ReadAndRecord, Block, TypeOK
  <1>5. result'.blocks_tested = result'.blocks_passed + result'.read_errors
        /\ result'.slow_blocks <= result'.blocks_passed
    BY <1>3 DEF CountersAgree, TypeOK, Results
  <1>6. VerdictSound'
    <2> SUFFICES ASSUME is_passed(result)' PROVE good' = covered'
      BY DEF VerdictSound
    <2>1. result'.read_errors = 0
      BY DEF is_passed
    <2>2. ok /\ result.read_errors = 0
      BY <1>3, <2>1 DEF TypeOK, Results
    <2>3. good = covered
      BY <2>2 DEF VerdictSound, is_passed
    <2> QED BY <2>2, <2>3 DEF ReadAndRecord
  <1>7. DeadCardNeverPasses'
    <2>1. ~ok => result'.read_errors # 0
      BY <1>3 DEF TypeOK, Results
    <2> QED BY <1>2, <2>1 DEF DeadCardNeverPasses, is_passed
  <1> QED BY <1>2, <1>3, <1>4, <1>5, <1>6, <1>7

-----------------------------------------------------------------------------
LEMMA InitInv == Init => IInv
  <1> SUFFICES ASSUME Init PROVE IInv
    OBVIOUS
  <1>1. TypeOK
    BY TesterAssumption, CapacityAssumption
    DEF Init, TypeOK, StorageTypeOK, U32s, ZeroResult, InitResult, Results
  <1>2. LoopInv /\ SequentialCoverage /\ CountersAgree /\ VerdictSound
        /\ DeadCardNeverPasses
    BY DEF Init, LoopInv, SequentialCoverage, CountersAgree, VerdictSound,
           DeadCardNeverPasses, ZeroResult, InitResult
  <1> QED BY <1>1, <1>2 DEF IInv

(* Starting either test. *)
LEMMA BeginInv ==
    ASSUME IInv, NEW limit \in Limits, SeqBegin(limit) \/ BtfBegin(limit)
    PROVE  IInv'
  <1>1. /\ total' = cnt /\ cnt \in Counts \cup {0} /\ cnt \in U32s
        /\ 0 \in U32s /\ limit \in U32s
    BY Capacity, TesterAssumption, CapacityAssumption
    DEF SeqBegin, BtfBegin, BeginTest, IInv, TypeOK, StorageTypeOK, U32s
  <1>2. /\ result' = InitResult /\ progress' = <<0, 0>>
        /\ covered' = {} /\ good' = {} /\ StorageTypeOK'
    BY DEF SeqBegin, BtfBegin, BeginTest, IInv, TypeOK, StorageTypeOK,
           storageVars
  <1>3. InitResult \in Results
    BY TesterAssumption, CapacityAssumption DEF InitResult, U32s, Results
  <1>4. VerdictSound' /\ DeadCardNeverPasses'
    BY <1>2 DEF VerdictSound, DeadCardNeverPasses, InitResult
  <1>5. CASE SeqBegin(limit)
    <2>1. test' \in U32s /\ test' <= total'
      BY <1>1, <1>5 DEF SeqBegin, TestSectors, U32s
    <2>2. TypeOK'
      BY <1>1, <1>2, <1>3, <1>5, <2>1
      DEF SeqBegin, IInv, TypeOK, btfVars
    <2>3. LoopInv' /\ SequentialCoverage' /\ CountersAgree'
      BY <1>1, <1>2, <1>5, <2>1, TesterAssumption
      DEF SeqBegin, LoopInv, SequentialCoverage, CountersAgree, InitResult, U32s
    <2> QED BY <1>4, <2>2, <2>3 DEF IInv
  <1>6. CASE BtfBegin(limit)
    <2>1. test' \in U32s
      BY <1>1, <1>6, IterationsBound DEF BtfBegin
    <2>2. high' \in U32s
      BY <1>1, <1>6, Capacity, Word32 DEF BtfBegin, HighStart
    <2>3. TypeOK'
      BY <1>1, <1>2, <1>3, <1>6, <2>1, <2>2
      DEF BtfBegin, IInv, TypeOK, seqVars
    <2>4. LoopInv' /\ SequentialCoverage' /\ CountersAgree'
      BY <1>1, <1>2, <1>6, <2>1
      DEF BtfBegin, LoopInv, SequentialCoverage, CountersAgree, InitResult, U32s
    <2> QED BY <1>4, <2>3, <2>4 DEF IInv
  <1> QED BY <1>5, <1>6

(* One iteration of the sequential loop. *)
LEMMA SeqReadInv ==
    ASSUME IInv, NEW lat \in Latencies, NEW ok \in BOOLEAN, SeqRead(lat, ok)
    PROVE  IInv'
  <1> DEFINE n == SectorsToRead(sector)
  <1>1. /\ pc = "seq" /\ pc' = "seq" /\ sector < test
        /\ test' = test /\ total' = total
        /\ low' = low /\ high' = high /\ i' = i
        /\ sector' = Add32(sector, BLOCKS_PER_READ)
        /\ ReadAndRecord(sector, n, lat, ok)
        /\ \/ progress' = <<sector, test>> /\ last_progress' = sector
           \/ progress' = progress /\ last_progress' = last_progress
    BY DEF SeqRead, btfVars
  <1>2. TypeOK /\ CountersAgree /\ VerdictSound /\ total \in Counts \cup {0}
        /\ covered = 0 .. (sector - 1) /\ test <= total
    BY <1>1 DEF IInv, LoopInv, SequentialCoverage, TypeOK, U32s
  <1>3. /\ sector \in Nat /\ test \in Nat /\ sector + BLOCKS_PER_READ < U32
        /\ BLOCKS_PER_READ \in Nat \ {0} /\ U32 \in Nat /\ total \in Nat
    BY <1>1, <1>2, Capacity, TesterAssumption
    DEF TypeOK, U32s
  <1>4. sector' = sector + BLOCKS_PER_READ
    BY <1>1, <1>3 DEF Add32
  <1>5. /\ n \in Nat
        /\ sector + n = IF sector' < test THEN sector' ELSE test
    BY <1>1, <1>3, <1>4 DEF SectorsToRead, Add32
  <1> HIDE DEF n
  <1>6. /\ StorageTypeOK' /\ result' \in Results
        /\ covered' \subseteq Nat /\ good' \subseteq covered'
        /\ result'.blocks_tested = result.blocks_tested + 1
        /\ result'.blocks_tested
             = result'.blocks_passed + result'.read_errors
        /\ result'.slow_blocks <= result'.blocks_passed
        /\ VerdictSound' /\ DeadCardNeverPasses'
    BY <1>1, <1>2, <1>3, <1>5, RecordedRead
  <1>7. TypeOK'
    BY <1>1, <1>2, <1>3, <1>4, <1>6 DEF TypeOK, U32s
  <1>8. LoopInv'
    BY <1>1, <1>2 DEF LoopInv
  <1>9. SequentialCoverage'
    <2>1. covered' = (0 .. (sector - 1)) \cup (sector .. (sector + n - 1))
      BY <1>1, <1>2 DEF ReadAndRecord, Block
    <2>2. covered' = 0 .. (sector + n - 1)
      BY <1>3, <1>5, <2>1
    <2>3. CASE sector' < test'
      <3>1. sector + n = sector'
        BY <1>1, <1>5, <2>3
      <3>2. covered' = 0 .. (sector' - 1)
        BY <1>1, <1>3, <1>4, <1>5, <2>2, <3>1
      <3> QED BY <1>1, <1>2, <2>3, <3>2 DEF SequentialCoverage
    <2>4. CASE ~(sector' < test')
      <3>1. sector + n = test'
        BY <1>1, <1>5, <2>4
      <3>2. covered' = 0 .. (test' - 1)
        BY <1>1, <1>3, <1>4, <1>5, <2>2, <3>1
      <3> QED BY <1>1, <1>2, <2>4, <3>2 DEF SequentialCoverage
    <2> QED BY <2>3, <2>4
  <1>10. CountersAgree'
    <2>1. result.blocks_tested * BLOCKS_PER_READ = sector
          /\ result.blocks_tested \in Nat
      BY <1>1, <1>2 DEF CountersAgree, TypeOK, Results
    <2>2. (result.blocks_tested + 1) * BLOCKS_PER_READ
            = result.blocks_tested * BLOCKS_PER_READ + BLOCKS_PER_READ
      BY <1>3, <2>1
    <2> QED BY <1>1, <1>4, <1>6, <2>1, <2>2 DEF CountersAgree
  <1> QED BY <1>6, <1>7, <1>8, <1>9, <1>10 DEF IInv

(* The first read of a butterfly iteration. *)
LEMMA BtfReadLowInv ==
    ASSUME IInv, NEW lat \in Latencies, NEW ok \in BOOLEAN, BtfReadLow(lat, ok)
    PROVE  IInv'
  <1>1. /\ pc = "btf" /\ pc' = "btf_high" /\ i < test
        /\ UNCHANGED <<total, test, sector, last_progress, low, high, i,
                       progress>>
        /\ ReadAndRecord(low, BLOCKS_PER_READ, lat, ok)
    BY DEF BtfReadLow, BtfContinues, btfVars, seqVars
  <1>2. TypeOK /\ CountersAgree /\ VerdictSound /\ LoopInv
    BY DEF IInv
  <1>3. low \in Nat /\ BLOCKS_PER_READ \in Nat
    BY <1>2, TesterAssumption DEF TypeOK, U32s
  <1>4. /\ StorageTypeOK' /\ result' \in Results
        /\ covered' \subseteq Nat /\ good' \subseteq covered'
        /\ result'.blocks_tested = result.blocks_tested + 1
        /\ result'.blocks_tested
             = result'.blocks_passed + result'.read_errors
        /\ result'.slow_blocks <= result'.blocks_passed
        /\ VerdictSound' /\ DeadCardNeverPasses'
    BY <1>1, <1>2, <1>3, RecordedRead
  <1>5. TypeOK'
    BY <1>1, <1>2, <1>4 DEF TypeOK
  <1>6. LoopInv' /\ SequentialCoverage' /\ CountersAgree'
    BY <1>1, <1>2, <1>4
    DEF LoopInv, SequentialCoverage, CountersAgree, TypeOK, U32s
  <1> QED BY <1>4, <1>5, <1>6 DEF IInv

(* The second read of a butterfly iteration, and the pointers' move. *)
LEMMA BtfReadHighInv ==
    ASSUME IInv, NEW lat \in Latencies, NEW ok \in BOOLEAN, BtfReadHigh(lat, ok)
    PROVE  IInv'
  <1>1. /\ pc = "btf_high" /\ pc' = "btf" /\ i' = i + 1
        /\ UNCHANGED <<total, test, sector, last_progress>>
        /\ low' = Add32(low, BLOCKS_PER_READ)
        /\ high' = Sub32(high, BLOCKS_PER_READ)
        /\ progress' = <<i, test>> \/ progress' = progress
        /\ ReadAndRecord(high, BLOCKS_PER_READ, lat, ok)
    BY DEF BtfReadHigh, seqVars
  <1>2. TypeOK /\ CountersAgree /\ VerdictSound /\ LoopInv
    BY DEF IInv
  <1>3. /\ high \in Nat /\ BLOCKS_PER_READ \in Nat
        /\ low' \in U32s /\ high' \in U32s
    <2>1. BLOCKS_PER_READ \in U32s /\ 0 \in Counts \cup {0}
      BY Capacity
    <2>2. low \in U32s /\ high \in U32s
      BY <1>2 DEF TypeOK
    <2>3. low' \in U32s /\ high' \in U32s
      BY <1>1, <2>1, <2>2, Word32
    <2> QED BY <2>1, <2>2, <2>3, TesterAssumption DEF U32s
  <1>4. /\ StorageTypeOK' /\ result' \in Results
        /\ covered' \subseteq Nat /\ good' \subseteq covered'
        /\ result'.blocks_tested = result.blocks_tested + 1
        /\ result'.blocks_tested
             = result'.blocks_passed + result'.read_errors
        /\ result'.slow_blocks <= result'.blocks_passed
        /\ VerdictSound' /\ DeadCardNeverPasses'
    BY <1>1, <1>2, <1>3, RecordedRead
  <1>5. i \in U32s /\ i < test /\ i \in Nat /\ test \in Nat
    <2>1. i < test /\ i \in Nat /\ test \in U32s
      BY <1>1, <1>2 DEF LoopInv, TypeOK
    <2> QED BY <2>1, TesterAssumption DEF U32s
  <1>6. TypeOK'
    BY <1>1, <1>2, <1>3, <1>4, <1>5 DEF TypeOK
  <1>7. LoopInv' /\ SequentialCoverage' /\ CountersAgree'
    BY <1>1, <1>2, <1>4, <1>5
    DEF LoopInv, SequentialCoverage, CountersAgree
  <1> QED BY <1>4, <1>6, <1>7 DEF IInv

(* Leaving either loop. *)
LEMMA EndInv ==
    ASSUME IInv, SeqEnd \/ BtfEnd
    PROVE  IInv'
  <1>1. /\ UNCHANGED <<up, cnt, sector, last_progress, low, high, i, total,
                       test, result, covered, good>>
        /\ progress' = <<test, test>>
        /\ \/ pc = "seq" /\ ~(sector < test) /\ pc' = "seq_done"
           \/ pc = "btf" /\ pc' = "btf_done"
    BY DEF SeqEnd, BtfEnd, Finish, storageVars, seqVars, btfVars
  <1>2. TypeOK'
    BY <1>1 DEF IInv, TypeOK, StorageTypeOK
  <1>3. LoopInv' /\ SequentialCoverage'
    BY <1>1 DEF IInv, LoopInv, SequentialCoverage
  <1>4. CountersAgree' /\ VerdictSound' /\ DeadCardNeverPasses'
    BY <1>1
    DEF IInv, CountersAgree, VerdictSound, DeadCardNeverPasses, is_passed
  <1> QED BY <1>2, <1>3, <1>4 DEF IInv

LEMMA StepInv == IInv /\ [Next]_vars => IInv'
  <1> SUFFICES ASSUME IInv, [Next]_vars PROVE IInv'
    OBVIOUS
  <1>1. ASSUME NEW limit \in Limits, SeqBegin(limit) \/ BtfBegin(limit)
        PROVE  IInv'
    BY <1>1, BeginInv
  <1>2. CASE Reads
    BY <1>2, SeqReadInv, BtfReadLowInv, BtfReadHighInv DEF Reads
  <1>3. CASE SeqEnd \/ BtfEnd
    BY <1>3, EndInv
  <1>4. CASE UNCHANGED vars
    BY <1>4
    DEF vars, storageVars, seqVars, btfVars, IInv, LoopInv, TypeOK,
        StorageTypeOK, SequentialCoverage, CountersAgree, VerdictSound,
        DeadCardNeverPasses, is_passed
  <1> QED BY <1>1, <1>2, <1>3, <1>4 DEF Next

-----------------------------------------------------------------------------
(* The inductive invariant holds in every reachable state. *)
THEOREM Invariance == Spec => []IInv
  BY InitInv, StepInv, PTL DEF Spec

(* All u32 locals of both tests keep their type. *)
THEOREM TypeCorrect == Spec => []TypeOK
  <1>1. IInv => TypeOK
    BY DEF IInv
  <1> QED BY <1>1, Invariance, PTL

(* The sequential test reads every sector below its limit and no other.    *)
THEOREM SequentialReadsAll == Spec => []SequentialCoverage
  <1>1. IInv => SequentialCoverage
    BY DEF IInv
  <1> QED BY <1>1, Invariance, PTL

(* The counters of the results dialog agree with each other.               *)
THEOREM CountersCorrect == Spec => []CountersAgree
  <1>1. IInv => CountersAgree
    BY DEF IInv
  <1> QED BY <1>1, Invariance, PTL

(* A test that passes has read every sector it requested.                  *)
THEOREM VerdictCorrect == Spec => []VerdictSound
  <1>1. IInv => VerdictSound
    BY DEF IInv
  <1> QED BY <1>1, Invariance, PTL

(* A card that dies during a test fails it.                                *)
THEOREM DeadCardFails == Spec => []DeadCardNeverPasses
  <1>1. IInv => DeadCardNeverPasses
    BY DEF IInv
  <1> QED BY <1>1, Invariance, PTL

(* A test whose record is accepted has read what it asked for, and a card  *)
(* that died during it fails it.                                           *)
THEOREM VerdictIsHonest == Spec => []VerdictHonest
  <1>1. IInv => VerdictHonest
    BY DEF IInv, VerdictHonest
  <1> QED BY <1>1, Invariance, PTL

-----------------------------------------------------------------------------
(* The latencies: LatencyBounds without its condition, which is inductive. *)
LatencyInv ==
    /\ result.min_latency_us * result.blocks_passed <= result.total_latency_us
    /\ result.total_latency_us <= result.max_latency_us * result.blocks_passed
    /\ result.slow_blocks > 0 <=> result.max_latency_us > LATENCY_SLOW_US

LEMMA ProductMonotone ==
    ASSUME NEW a \in Nat, NEW b \in Nat, NEW p \in Nat, a <= b
    PROVE  a * p <= b * p
  <1>1. (b - a) * p >= 0 /\ (b - a) * p = b * p - a * p
    OBVIOUS
  <1>2. a * p \in Nat /\ b * p \in Nat
    OBVIOUS
  <1> QED BY <1>1, <1>2

(* One more passed read keeps the sum between the two products.            *)
LEMMA SumStep ==
    ASSUME NEW lo \in Nat, NEW hi \in Nat, NEW p \in Nat, NEW sum \in Nat,
           NEW lat \in Nat, NEW lo2 \in Nat, NEW hi2 \in Nat,
           lo * p <= sum, sum <= hi * p,
           lo2 <= lo, lo2 <= lat, hi <= hi2, lat <= hi2
    PROVE  lo2 * (p + 1) <= sum + lat /\ sum + lat <= hi2 * (p + 1)
  <1>1. lo2 * p <= lo * p /\ hi * p <= hi2 * p
    BY ProductMonotone
  <1>2. lo2 * (p + 1) = lo2 * p + lo2 /\ hi2 * (p + 1) = hi2 * p + hi2
    OBVIOUS
  <1>3. /\ lo * p \in Nat /\ hi * p \in Nat
        /\ lo2 * p \in Nat /\ hi2 * p \in Nat
    OBVIOUS
  <1> QED BY <1>1, <1>2, <1>3

LEMMA RecordLatency ==
    ASSUME TypeOK, LatencyInv, NEW lat \in Latencies, NEW ok \in BOOLEAN,
           result' = record_latency(result, lat, ok)
    PROVE  LatencyInv'
  <1>1. /\ result \in Results
        /\ lat \in Nat /\ LATENCY_SLOW_US \in Nat
    BY TesterAssumption DEF TypeOK
  <1>2. /\ result.blocks_passed \in Nat /\ result.slow_blocks \in Nat
        /\ result.min_latency_us \in Nat /\ result.max_latency_us \in Nat
        /\ result.total_latency_us \in Nat
    BY <1>1, TesterAssumption DEF Results, U32s
  <1>3. CASE ok
    <2> DEFINE slow == IF IsSlow(lat) THEN 1 ELSE 0
               lo == IF lat < result.min_latency_us THEN lat
                     ELSE result.min_latency_us
               hi == IF lat > result.max_latency_us THEN lat
                     ELSE result.max_latency_us
    <2>1. /\ result'.blocks_passed = result.blocks_passed + 1
          /\ result'.slow_blocks = result.slow_blocks + slow
          /\ result'.min_latency_us = lo
          /\ result'.max_latency_us = hi
          /\ result'.total_latency_us = result.total_latency_us + lat
      BY <1>3 DEF record_latency
    <2>2. /\ lo \in Nat /\ lo <= lat /\ lo <= result.min_latency_us
          /\ hi \in Nat /\ lat <= hi /\ result.max_latency_us <= hi
      BY <1>1, <1>2
    <2>3. result.slow_blocks + slow > 0 <=> hi > LATENCY_SLOW_US
      BY <1>1, <1>2 DEF LatencyInv, IsSlow
    <2> HIDE DEF slow, lo, hi
    <2>4. /\ lo * (result.blocks_passed + 1) <= result.total_latency_us + lat
          /\ result.total_latency_us + lat <= hi * (result.blocks_passed + 1)
      <3>1. /\ result.min_latency_us * result.blocks_passed
                 <= result.total_latency_us
            /\ result.total_latency_us
                 <= result.max_latency_us * result.blocks_passed
        BY DEF LatencyInv
      <3> QED BY <1>1, <1>2, <2>2, <3>1, SumStep
    <2> QED BY <2>1, <2>3, <2>4 DEF LatencyInv
  <1>4. CASE ~ok
    <2>1. /\ result'.blocks_passed = result.blocks_passed
          /\ result'.slow_blocks = result.slow_blocks
          /\ result'.min_latency_us = result.min_latency_us
          /\ result'.max_latency_us = result.max_latency_us
          /\ result'.total_latency_us = result.total_latency_us
      BY <1>1, <1>4 DEF record_latency, Results
    <2> QED BY <2>1 DEF LatencyInv
  <1> QED BY <1>3, <1>4

LEMMA LatencyInit == Init => LatencyInv
  BY TesterAssumption DEF Init, LatencyInv, ZeroResult, InitResult

LEMMA LatencyStep == TypeOK /\ LatencyInv /\ [Next]_vars => LatencyInv'
  <1> SUFFICES ASSUME TypeOK, LatencyInv, [Next]_vars PROVE LatencyInv'
    OBVIOUS
  <1>1. ASSUME NEW limit \in Limits, SeqBegin(limit) \/ BtfBegin(limit)
        PROVE  LatencyInv'
    <2>1. result' = InitResult
      BY <1>1 DEF SeqBegin, BtfBegin, BeginTest
    <2> QED BY <2>1, TesterAssumption DEF LatencyInv, InitResult
  <1>2. CASE Reads
    <2> PICK lat \in Latencies, ok \in BOOLEAN :
               result' = record_latency(result, lat, ok)
      BY <1>2 DEF Reads, SeqRead, BtfReadLow, BtfReadHigh, ReadAndRecord
    <2> QED BY RecordLatency
  <1>3. CASE SeqEnd \/ BtfEnd \/ UNCHANGED vars
    BY <1>3 DEF SeqEnd, BtfEnd, Finish, vars, LatencyInv
  <1> QED BY <1>1, <1>2, <1>3 DEF Next

(* A quotient lies between the same bounds as the sum it divides.          *)
LEMMA Quotient ==
    ASSUME NEW n \in Nat, NEW d \in Nat \ {0}, NEW lo \in Nat, NEW hi \in Nat
    PROVE  /\ n \div d \in Nat
           /\ n <= hi * d => n \div d <= hi
           /\ lo * d <= n => lo <= n \div d
  <1> DEFINE q == n \div d
             r == n % d
  <1>1. q \in Nat /\ r \in Nat /\ r < d /\ n = d * q + r
    OBVIOUS
  <1> HIDE DEF q, r
  <1>2. ASSUME n <= hi * d, q > hi PROVE FALSE
    <2>1. (q - hi - 1) * d >= 0 /\ (q - hi - 1) * d = d * q - hi * d - d
      BY <1>1, <1>2
    <2> QED BY <1>1, <1>2, <2>1
  <1>3. ASSUME lo * d <= n, lo > q PROVE FALSE
    <2>1. (lo - q - 1) * d >= 0 /\ (lo - q - 1) * d = lo * d - d * q - d
      BY <1>1, <1>3
    <2> QED BY <1>1, <1>3, <2>1
  <1> QED BY <1>1, <1>2, <1>3 DEF q

LEMMA BelowModulus ==
    ASSUME NEW q \in Nat, NEW u \in Nat, q < u
    PROVE  q % u = q
  <1> DEFINE k == q \div u
             r == q % u
  <1>1. k \in Nat /\ r \in Nat /\ q = u * k + r
    OBVIOUS
  <1> HIDE DEF k, r
  <1>2. k # 0 => u * k >= u
    <2>1. (k - 1) * u = u * k - u
      BY <1>1
    <2>2. k # 0 => (k - 1) * u >= 0
      BY <1>1
    <2> QED BY <1>1, <2>1, <2>2
  <1>3. k = 0
    BY <1>1, <1>2
  <1> QED BY <1>1, <1>3 DEF r

(* The average follows from the bounds on the sum: there are at least as   *)
(* many reads as passed ones, and as many when none has failed.            *)
LEMMA AverageFromSum ==
    TypeOK /\ CountersAgree /\ LatencyInv => AverageBounds
  <1> SUFFICES ASSUME TypeOK, CountersAgree, LatencyInv PROVE AverageBounds
    OBVIOUS
  <1> DEFINE n  == result.total_latency_us
             d  == result.blocks_tested
             p  == result.blocks_passed
             lo == result.min_latency_us
             hi == result.max_latency_us
  <1>1. /\ n \in Nat /\ d \in Nat /\ p \in Nat /\ result.read_errors \in Nat
        /\ lo \in Nat /\ hi \in Nat /\ hi < U32 /\ U32 \in Nat
    BY TesterAssumption DEF TypeOK, Results, U32s
  <1>2. d = p + result.read_errors /\ lo * p <= n /\ n <= hi * p
    BY DEF CountersAgree, LatencyInv
  <1>3. CASE d = 0
    BY <1>1, <1>3 DEF AverageBounds, get_avg_latency
  <1>4. CASE d # 0
    <2>1. get_avg_latency(result) = (n \div d) % U32
      BY <1>4 DEF get_avg_latency
    <2> HIDE DEF n, d, p, lo, hi
    <2>2. p * hi <= d * hi
      BY <1>1, <1>2, ProductMonotone
    <2>3. n <= hi * d
      BY <1>1, <1>2, <2>2
    <2>4. n \div d \in Nat /\ n \div d <= hi
      BY <1>1, <1>4, <2>3, Quotient
    <2>5. (n \div d) % U32 = n \div d
      <3> DEFINE q == n \div d
      <3>1. q \in Nat /\ q < U32
        BY <1>1, <2>4
      <3> HIDE DEF q
      <3>2. q % U32 = q
        BY <1>1, <3>1, BelowModulus
      <3> QED BY <3>2 DEF q
    <2>6. result.read_errors = 0 => lo <= n \div d
      BY <1>1, <1>2, <1>4, Quotient
    <2> QED BY <2>1, <2>4, <2>5, <2>6 DEF AverageBounds, lo, hi
  <1> QED BY <1>3, <1>4

(* The numbers of the results dialog belong to the reads of one test:      *)
(* counts add up, the sum of the latencies of the passed reads lies        *)
(* between passed * min and passed * max, and the average is never above   *)
(* the maximum, nor below the minimum while no read has failed.            *)
THEOREM RecordIsSound == Spec => []RecordSound
  <1>1. Spec => []LatencyInv
    BY LatencyInit, LatencyStep, TypeCorrect, PTL DEF Spec
  <1>2. TypeOK /\ LatencyInv => LatencyBounds
    BY DEF LatencyInv, LatencyBounds
  <1>3. CountersAgree /\ LatencyBounds /\ AverageBounds => RecordSound
    BY DEF RecordSound
  <1> QED
    BY <1>1, <1>2, <1>3, AverageFromSum, TypeCorrect, CountersCorrect, PTL

-----------------------------------------------------------------------------
(* The geometry of the butterfly test.  In every state the sectors read    *)
(* are the first `low` and as many last ones of the card; between the two  *)
(* reads of an iteration one read more at the low end.                     *)
Ends(a, b) == (0 .. (a - 1)) \cup ((total - b) .. (total - 1))

GeometryInv ==
    /\ pc \in {"btf", "btf_high", "btf_done"} =>
         /\ test <= MaxIterations(total) /\ i <= test
         /\ low = i * BLOCKS_PER_READ
         /\ i < test => high = total - (i * BLOCKS_PER_READ + BLOCKS_PER_READ)
    /\ pc = "btf_high" => i < test
    /\ pc = "btf_done" => i = test
    /\ pc \in {"btf", "btf_done"} =>
         /\ covered = Ends(low, low)
         /\ result.blocks_tested = 2 * i
    /\ pc = "btf_high" =>
         /\ covered = Ends(low + BLOCKS_PER_READ, low)
         /\ result.blocks_tested = 2 * i + 1

(* What the arithmetic of the two loops needs of integer division.         *)
LEMMA Division ==
    ASSUME NEW n \in Nat, NEW d \in Nat \ {0}
    PROVE  /\ n \div d \in Nat /\ n % d \in 0 .. (d - 1)
           /\ n = d * (n \div d) + (n % d)
  OBVIOUS

LEMMA Remainder ==
    ASSUME NEW n \in Nat, NEW d \in Nat \ {0}, NEW q \in Nat, NEW r \in Nat,
           n = d * q + r, r < d
    PROVE  n % d = r
  <1> DEFINE p == n \div d
             s == n % d
  <1>1. p \in Nat /\ s \in 0 .. (d - 1) /\ n = d * p + s
    BY Division
  <1> HIDE DEF p, s
  <1>2. d * (p - q) = d * p - d * q
    BY <1>1
  <1>3. ~(p > q)
    <2> SUFFICES ASSUME p > q PROVE FALSE
      OBVIOUS
    <2>1. (p - q - 1) * d >= 0 /\ (p - q - 1) * d = d * (p - q) - d
      BY <1>1
    <2> QED BY <1>1, <1>2, <2>1
  <1>4. ~(q > p)
    <2> SUFFICES ASSUME q > p PROVE FALSE
      OBVIOUS
    <2>1. (q - p - 1) * d >= 0 /\ (q - p - 1) * d = d * q - d * p - d
      BY <1>1
    <2> QED BY <1>1, <2>1
  <1>5. p = q
    BY <1>1, <1>3, <1>4
  <1>6. s = r
    BY <1>1, <1>5
  <1> QED BY <1>6 DEF s

(* The full number of iterations leaves less than two reads of the card.   *)
LEMMA Halves ==
    ASSUME NEW t \in Nat
    PROVE  LET m == MaxIterations(t) * BLOCKS_PER_READ
           IN  /\ MaxIterations(t) \in Nat /\ m \in Nat /\ m + m <= t
               /\ t % (2 * BLOCKS_PER_READ) = t - m - m
  <1> DEFINE R == BLOCKS_PER_READ
             q == t \div R
             h == q \div 2
             a == h * R
             r == t % R
             s == q % 2
  <1>0. R \in Nat \ {0}
    BY TesterAssumption
  <1>1. q \in Nat /\ r \in 0 .. (R - 1) /\ t = R * q + r
    BY <1>0, Division
  <1>2. h \in Nat /\ s \in 0 .. 1 /\ q = 2 * h + s
    BY <1>1
  <1>3. MaxIterations(t) = h
    BY DEF MaxIterations
  <1> HIDE DEF q, h, r, s, R
  <1>4. a \in Nat /\ R * q = 2 * a + s * R
    <2>1. R * (2 * h + s) = 2 * (h * R) + s * R /\ h * R \in Nat
      BY <1>0, <1>2
    <2> QED BY <1>2, <2>1
  <1>5. s * R \in {0, R}
    BY <1>0, <1>2
  <1>6. (2 * R) * h = 2 * a
    BY <1>0, <1>2
  <1> HIDE DEF a
  <1>7. t = 2 * a + (s * R + r) /\ s * R + r \in Nat /\ s * R + r < 2 * R
    BY <1>0, <1>1, <1>4, <1>5
  <1>8. t % (2 * R) = s * R + r
    <2>1. t = (2 * R) * h + (s * R + r)
      BY <1>6, <1>7
    <2>2. 2 * R \in Nat \ {0}
      BY <1>0
    <2> QED BY <1>2, <1>7, <2>1, <2>2, Remainder
  <1>9. a + a <= t /\ t % (2 * R) = t - a - a
    BY <1>1, <1>4, <1>5, <1>7, <1>8
  <1> QED BY <1>2, <1>3, <1>4, <1>9 DEF R, a

(* An iteration that begins has room for two reads that do not meet.       *)
LEMMA Room ==
    ASSUME NEW t \in Nat, NEW n \in Nat, NEW k \in Nat,
           n <= MaxIterations(t), k < n
    PROVE  /\ k * BLOCKS_PER_READ \in Nat
           /\ (k + 1) * BLOCKS_PER_READ = k * BLOCKS_PER_READ + BLOCKS_PER_READ
           /\ 2 * (k * BLOCKS_PER_READ) + 2 * BLOCKS_PER_READ <= t
  <1> DEFINE m == MaxIterations(t)
             R == BLOCKS_PER_READ
  <1>1. R \in Nat \ {0} /\ m \in Nat /\ m * R \in Nat /\ m * R + m * R <= t
    BY TesterAssumption, Halves
  <1> HIDE DEF m, R
  <1>2. k + 1 \in Nat /\ k + 1 <= m
    BY <1>1 DEF m
  <1>3. (k + 1) * R <= m * R
    BY <1>1, <1>2, ProductMonotone
  <1>4. (k + 1) * R = k * R + R /\ k * R \in Nat
    BY <1>1
  <1>5. 2 * (k * R) + 2 * R <= t
    BY <1>1, <1>3, <1>4
  <1> QED BY <1>4, <1>5 DEF R

(* Two ends of the card that do not overlap.                               *)
LEMMA TwoEnds ==
    ASSUME total \in Nat, NEW a \in Nat, NEW b \in Nat, a + b <= total
    PROVE  /\ Ends(a, b) \subseteq 0 .. (total - 1)
           /\ Cardinality(Ends(a, b)) = a + b
           /\ Cardinality((0 .. (total - 1)) \ Ends(a, b)) = total - a - b
  <1> DEFINE A == 0 .. (a - 1)
             B == (total - b) .. (total - 1)
  <1>1. IsFiniteSet(A) /\ Cardinality(A) = a
    <2>1. 0 \in Int /\ a - 1 \in Int
      OBVIOUS
    <2>2. Cardinality(A) = IF 0 > a - 1 THEN 0 ELSE (a - 1) - 0 + 1
      BY <2>1, FS_Interval
    <2> QED BY <2>1, <2>2, FS_Interval
  <1>2. IsFiniteSet(B) /\ Cardinality(B) = b
    <2>1. total - b \in Int /\ total - 1 \in Int
      OBVIOUS
    <2>2. Cardinality(B) = IF total - b > total - 1 THEN 0
                           ELSE (total - 1) - (total - b) + 1
      BY <2>1, FS_Interval
    <2> QED BY <2>1, <2>2, FS_Interval
  <1>3. A \cap B = {}
    OBVIOUS
  <1>4. Cardinality(A \cap B) = 0
    BY <1>3, FS_EmptySet
  <1>5. (0 .. (total - 1)) \ (A \cup B) = a .. (total - b - 1)
    OBVIOUS
  <1>6. Cardinality(a .. (total - b - 1)) = total - a - b
    <2>1. a \in Int /\ total - b - 1 \in Int
      OBVIOUS
    <2>2. Cardinality(a .. (total - b - 1))
             = IF a > total - b - 1 THEN 0 ELSE (total - b - 1) - a + 1
      BY <2>1, FS_Interval
    <2> QED BY <2>2
  <1>7. A \cup B \subseteq 0 .. (total - 1)
    OBVIOUS
  <1>8. Ends(a, b) = A \cup B
    BY DEF Ends
  <1> HIDE DEF A, B
  <1>9. Cardinality(A \cup B) = a + b
    BY <1>1, <1>2, <1>4, FS_Union
  <1> QED BY <1>5, <1>6, <1>7, <1>8, <1>9

LEMMA GeometryBegin ==
    ASSUME TypeOK, NEW limit \in Limits, SeqBegin(limit) \/ BtfBegin(limit)
    PROVE  GeometryInv'
  <1>1. CASE SeqBegin(limit)
    BY <1>1 DEF SeqBegin, GeometryInv
  <1>2. CASE BtfBegin(limit)
    <2> DEFINE R == BLOCKS_PER_READ
    <2>1. /\ pc' = "btf" /\ total' = cnt /\ test' = TestIterations(limit, cnt)
          /\ low' = 0 /\ high' = HighStart(cnt) /\ i' = 0
          /\ covered' = {} /\ result'.blocks_tested = 0
      BY <1>2 DEF BtfBegin, BeginTest, InitResult
    <2>2. R \in Nat \ {0} /\ cnt \in Nat /\ limit \in Nat /\ 0 * R = 0
      BY TesterAssumption, CountsAssumption DEF TypeOK, StorageTypeOK
    <2>3. MaxIterations(cnt) \in Nat
      BY <2>2, Halves
    <2>4. test' \in Nat /\ test' <= MaxIterations(cnt)
      BY <2>1, <2>2, <2>3 DEF TestIterations
    <2>5. 0 < test' => high' = cnt - (0 * R + R)
      <3> SUFFICES ASSUME 0 < test' PROVE high' = cnt - R
        BY <2>2
      <3>1. 2 * (0 * R) + 2 * R <= cnt
        BY <2>2, <2>4, Room
      <3> QED BY <2>1, <2>2, <3>1 DEF HighStart, Sub32
    <2>6. Ends(0, 0)' = {}
      BY <2>1, <2>2 DEF Ends
    <2> QED BY <2>1, <2>2, <2>3, <2>4, <2>5, <2>6 DEF GeometryInv, MaxIterations
  <1> QED BY <1>1, <1>2

LEMMA GeometryLow ==
    ASSUME TypeOK, GeometryInv, NEW lat \in Latencies, NEW ok \in BOOLEAN,
           BtfReadLow(lat, ok)
    PROVE  GeometryInv'
  <1> DEFINE R == BLOCKS_PER_READ
  <1>1. /\ pc = "btf" /\ pc' = "btf_high" /\ i < test
        /\ UNCHANGED <<total, test, low, high, i>>
        /\ covered' = covered \cup Block(low, R)
        /\ result' = record_latency(result, lat, ok)
    BY DEF BtfReadLow, BtfContinues, btfVars, ReadAndRecord
  <1>2. /\ i \in Nat /\ low \in Nat /\ R \in Nat /\ total \in Nat
        /\ result.blocks_tested \in Nat
    BY TesterAssumption DEF TypeOK, U32s, Results
  <1>3. result'.blocks_tested = result.blocks_tested + 1
    BY <1>1, RecordStep
  <1>4. covered' = Ends(low + R, low)
    BY <1>1, <1>2 DEF GeometryInv, Ends, Block
  <1>5. (low + R)' = low + R /\ Ends(low + R, low)' = Ends(low + R, low)
    BY <1>1 DEF Ends
  <1> QED BY <1>1, <1>2, <1>3, <1>4, <1>5 DEF GeometryInv, MaxIterations

LEMMA GeometryHigh ==
    ASSUME IInv, GeometryInv, NEW lat \in Latencies, NEW ok \in BOOLEAN,
           BtfReadHigh(lat, ok)
    PROVE  GeometryInv'
  <1> DEFINE R == BLOCKS_PER_READ
             p == i * R
  <1>1. /\ pc = "btf_high" /\ pc' = "btf" /\ i < test /\ i' = i + 1
        /\ UNCHANGED <<total, test>>
        /\ low' = Add32(low, R) /\ high' = Sub32(high, R)
        /\ covered' = covered \cup Block(high, R)
        /\ result' = record_latency(result, lat, ok)
    BY DEF BtfReadHigh, seqVars, ReadAndRecord, GeometryInv
  <1>2. /\ i \in Nat /\ test \in Nat /\ R \in Nat /\ total \in Nat
        /\ total < U32 /\ U32 \in Nat /\ result.blocks_tested \in Nat
    BY TesterAssumption DEF IInv, TypeOK, U32s, Results
  <1>3. result'.blocks_tested = result.blocks_tested + 1
    BY <1>1, RecordStep DEF IInv
  <1>4. /\ p \in Nat /\ (i + 1) * R = p + R /\ 2 * p + 2 * R <= total
    BY <1>1, <1>2, Room DEF GeometryInv
  <1>5. low = p /\ high = total - (p + R)
    BY <1>1 DEF GeometryInv
  <1> HIDE DEF p, R
  <1>6. low' = p + R
    BY <1>1, <1>2, <1>4, <1>5 DEF Add32
  <1>7. i + 1 < test => high' = total - (p + R + R)
    <2> SUFFICES ASSUME i + 1 < test PROVE high' = total - (p + R + R)
      OBVIOUS
    <2>1. 2 * (p + R) + 2 * R <= total
      <3>1. i + 1 \in Nat /\ test <= MaxIterations(total)
        BY <1>1, <1>2 DEF GeometryInv
      <3>2. 2 * ((i + 1) * R) + 2 * R <= total
        BY <1>2, <3>1, Room DEF R
      <3> QED BY <1>4, <3>2
    <2> QED BY <1>1, <1>2, <1>4, <1>5, <2>1 DEF Sub32
  <1>8. covered' = Ends(p + R, p + R)
    <2>1. covered = (0 .. ((p + R) - 1)) \cup ((total - p) .. (total - 1))
      <3>1. covered = Ends(low + R, low)
        BY <1>1 DEF GeometryInv, R
      <3>2. Ends(low + R, low) = (0 .. ((low + R) - 1)) \cup ((total - low) .. (total - 1))
        BY DEF Ends
      <3> QED BY <1>5, <3>1, <3>2
    <2>2. Block(high, R) = (total - (p + R)) .. (total - p - 1)
      BY <1>2, <1>4, <1>5 DEF Block
    <2>3. ((total - p) .. (total - 1)) \cup ((total - (p + R)) .. (total - p - 1))
             = (total - (p + R)) .. (total - 1)
      BY <1>2, <1>4
    <2>4. covered' = covered \cup Block(high, R)
      BY <1>1 DEF R
    <2>5. Ends(p + R, p + R) = (0 .. ((p + R) - 1)) \cup ((total - (p + R)) .. (total - 1))
      BY DEF Ends
    <2> QED BY <2>1, <2>2, <2>3, <2>4, <2>5
  <1>9. Ends(low, low)' = Ends(p + R, p + R)
    BY <1>1, <1>6 DEF Ends
  <1>10. result'.blocks_tested = 2 * i'
    BY <1>1, <1>2, <1>3 DEF GeometryInv
  <1>11. i' <= test /\ test <= MaxIterations(total)
    BY <1>1, <1>2 DEF GeometryInv
  <1>12. low' = i' * R /\ (i' < test => high' = total - (i' * R + R))
    BY <1>1, <1>4, <1>6, <1>7
  <1> QED BY <1>1, <1>8, <1>9, <1>10, <1>11, <1>12 DEF GeometryInv, MaxIterations, R

LEMMA GeometryEnd ==
    ASSUME TypeOK, GeometryInv, SeqEnd \/ BtfEnd
    PROVE  GeometryInv'
  <1>1. CASE SeqEnd
    BY <1>1 DEF SeqEnd, Finish, GeometryInv
  <1>2. CASE BtfEnd
    <2> DEFINE R == BLOCKS_PER_READ
    <2>1. /\ pc = "btf" /\ pc' = "btf_done" /\ ~(i < test /\ low < high)
          /\ UNCHANGED <<total, test, low, high, i, covered, result>>
      BY <1>2 DEF BtfEnd, BtfContinues, Finish, btfVars
    <2>2. i \in Nat /\ test \in Nat /\ R \in Nat \ {0} /\ total \in Nat
      BY TesterAssumption DEF TypeOK, U32s
    <2>3. i = test
      <3> SUFFICES ASSUME i < test PROVE FALSE
        BY <2>1, <2>2 DEF GeometryInv
      <3>1. i * R \in Nat /\ 2 * (i * R) + 2 * R <= total
        BY <2>1, <2>2, Room DEF GeometryInv
      <3>2. low = i * R /\ high = total - (i * R + R)
        BY <2>1 DEF GeometryInv
      <3> DEFINE p == i * R
      <3> HIDE DEF p
      <3>3. p < total - (p + R)
        BY <2>2, <3>1 DEF p
      <3> QED BY <2>1, <3>2, <3>3 DEF p
    <2>4. Ends(low, low)' = Ends(low, low)
      BY <2>1 DEF Ends
    <2> QED BY <2>1, <2>3, <2>4 DEF GeometryInv, MaxIterations
  <1> QED BY <1>1, <1>2

LEMMA GeometryStep == IInv /\ GeometryInv /\ [Next]_vars => GeometryInv'
  <1> SUFFICES ASSUME IInv, GeometryInv, [Next]_vars PROVE GeometryInv'
    OBVIOUS
  <1>1. TypeOK
    BY DEF IInv
  <1>2. ASSUME NEW limit \in Limits, SeqBegin(limit) \/ BtfBegin(limit)
        PROVE  GeometryInv'
    BY <1>1, <1>2, GeometryBegin
  <1>3. CASE Reads
    <2>1. PICK lat \in Latencies, ok \in BOOLEAN :
             SeqRead(lat, ok) \/ BtfReadLow(lat, ok) \/ BtfReadHigh(lat, ok)
      BY <1>3 DEF Reads
    <2>2. CASE SeqRead(lat, ok)
      BY <2>2 DEF SeqRead, GeometryInv
    <2> QED BY <1>1, <2>1, <2>2, GeometryLow, GeometryHigh
  <1>4. CASE SeqEnd \/ BtfEnd
    BY <1>1, <1>4, GeometryEnd
  <1>5. CASE UNCHANGED vars
    BY <1>5 DEF vars, btfVars, GeometryInv, Ends, MaxIterations
  <1> QED BY <1>2, <1>3, <1>4, <1>5 DEF Next

LEMMA GeometryFollows == TypeOK /\ GeometryInv => ButterflyGeometry
  <1> SUFFICES ASSUME TypeOK, GeometryInv PROVE ButterflyGeometry
    OBVIOUS
  <1> DEFINE R == BLOCKS_PER_READ
             p == i * R
             m == MaxIterations(total) * R
  <1>1. /\ i \in Nat /\ test \in Nat /\ R \in Nat \ {0} /\ total \in Nat
    BY TesterAssumption DEF TypeOK, U32s
  <1>2. /\ MaxIterations(total) \in Nat /\ m \in Nat /\ m + m <= total
        /\ total % (2 * R) = total - m - m
    BY <1>1, Halves
  <1>3. p \in Nat /\ (2 * i) * R = p + p /\ (2 * i + 1) * R = p + p + R
    BY <1>1
  <1>4. CASE pc \in {"btf", "btf_done"}
    <2>1. i <= MaxIterations(total) /\ low = p /\ covered = Ends(p, p)
          /\ result.blocks_tested = 2 * i
      BY <1>1, <1>2, <1>4 DEF GeometryInv
    <2>2. p <= m
      BY <1>1, <1>2, <2>1, ProductMonotone
    <2> HIDE DEF p, m, R
    <2>3. p + p <= total
      BY <1>1, <1>2, <1>3, <2>2
    <2>4. /\ Ends(p, p) \subseteq 0 .. (total - 1)
          /\ Cardinality(Ends(p, p)) = p + p
          /\ Cardinality((0 .. (total - 1)) \ Ends(p, p)) = total - p - p
      BY <1>1, <1>3, <2>3, TwoEnds
    <2>5. ButterflyDisjoint
      BY <1>3, <1>4, <2>1, <2>4 DEF ButterflyDisjoint, R
    <2>6. FullButterflyGap
      <3> SUFFICES ASSUME pc = "btf_done"
                   PROVE  /\ i = test
                          /\ test = MaxIterations(total) =>
                               Cardinality((0 .. (total - 1)) \ covered)
                                 = total % (2 * R)
        BY DEF FullButterflyGap, R
      <3>1. i = test
        BY DEF GeometryInv
      <3>2. test = MaxIterations(total) => p = m
        BY <3>1 DEF p, m
      <3> QED BY <1>2, <2>1, <2>4, <3>1, <3>2
    <2> QED BY <2>5, <2>6 DEF ButterflyGeometry
  <1>5. CASE pc = "btf_high"
    <2>1. /\ i < test /\ test <= MaxIterations(total) /\ low = p
          /\ covered = Ends(p + R, p) /\ result.blocks_tested = 2 * i + 1
      BY <1>5 DEF GeometryInv
    <2>2. 2 * p + 2 * R <= total
      BY <1>1, <2>1, Room
    <2> HIDE DEF p, m, R
    <2>3. p + R \in Nat /\ p + R + p <= total
      BY <1>1, <1>3, <2>2
    <2>4. /\ Ends(p + R, p) \subseteq 0 .. (total - 1)
          /\ Cardinality(Ends(p + R, p)) = p + R + p
      BY <1>1, <1>3, <2>3, TwoEnds
    <2>5. p + R + p = p + p + R
      BY <1>1, <1>3
    <2>6. ButterflyDisjoint
      BY <1>3, <1>5, <2>1, <2>4, <2>5 DEF ButterflyDisjoint, R
    <2> QED BY <1>5, <2>6 DEF ButterflyGeometry, FullButterflyGap
  <1> QED BY <1>4, <1>5 DEF ButterflyGeometry, ButterflyDisjoint, FullButterflyGap

(* The butterfly test reads no sector twice and none beyond the card, and  *)
(* the full one leaves less than two reads in the middle of it: the two    *)
(* pointers of sd_tester_run_butterfly meet without crossing.              *)
THEOREM ButterflyMeets == Spec => []ButterflyGeometry
  <1>1. Init => GeometryInv
    BY DEF Init, GeometryInv
  <1> QED BY <1>1, GeometryStep, GeometryFollows, Invariance, TypeCorrect, PTL
         DEF Spec

-----------------------------------------------------------------------------
(* What the progress bar was told is behind the loop's variable.           *)
ProgressInv ==
    /\ pc = "seq" => progress[1] <= sector /\ progress[1] <= test
    /\ pc \in {"btf", "btf_high"} => progress[1] <= i /\ i <= test

LEMMA ProgressStepHolds ==
    IInv /\ ProgressInv /\ [Next]_vars => ProgressInv' /\ (ProgressStep \/ UNCHANGED vars)
  <1> SUFFICES ASSUME IInv, ProgressInv, [Next]_vars
               PROVE  ProgressInv' /\ (ProgressStep \/ UNCHANGED vars)
    OBVIOUS
  <1> DEFINE R == BLOCKS_PER_READ
             at == progress[1]
  <1>1. /\ test \in Nat /\ sector \in Nat /\ i \in Nat /\ R \in Nat
        /\ progress \in U32s \X U32s /\ at \in Nat
    BY TesterAssumption DEF IInv, TypeOK, U32s
  <1>2. ASSUME NEW limit \in Limits, SeqBegin(limit) \/ BtfBegin(limit)
        PROVE  ProgressInv' /\ ProgressStep
    <2>1. /\ progress' = <<0, 0>> /\ pc \notin {"seq", "btf", "btf_high"}
          /\ \/ pc' = "seq" /\ sector' = 0
             \/ pc' = "btf" /\ i' = 0
      BY <1>2 DEF SeqBegin, BtfBegin, BeginTest
    <2>2. TypeOK'
      BY <1>2, BeginInv DEF IInv
    <2>3. test' \in Nat
      BY <2>2, TesterAssumption DEF TypeOK, U32s
    <2> QED BY <2>1, <2>3 DEF ProgressInv, ProgressStep
  <1>3. ASSUME NEW lat \in Latencies, NEW ok \in BOOLEAN, SeqRead(lat, ok)
        PROVE  ProgressInv' /\ ProgressStep
    <2>1. /\ pc = "seq" /\ pc' = "seq" /\ sector < test /\ test' = test
          /\ sector' = Add32(sector, R)
          /\ progress' = <<sector, test>> \/ progress' = progress
      BY <1>3 DEF SeqRead
    <2>2. sector + R < U32 /\ U32 \in Nat
      <3>1. total \in Counts \cup {0} /\ test <= total
        BY <2>1 DEF IInv, LoopInv, SequentialCoverage
      <3>2. total + R < U32 /\ total \in Nat /\ U32 \in Nat
        BY <3>1, Capacity, TesterAssumption DEF U32s
      <3> QED BY <1>1, <2>1, <3>1, <3>2
    <2>3. sector' = sector + R
      BY <1>1, <2>1, <2>2 DEF Add32
    <2>4. progress'[1] \in {sector, at} /\ at <= sector /\ at <= test
      BY <2>1 DEF ProgressInv
    <2>5. progress' = progress \/ (progress'[2] = test /\ progress'[1] = sector)
      BY <2>1
    <2> HIDE DEF R, at
    <2>6. ProgressInv'
      BY <1>1, <2>1, <2>3, <2>4 DEF ProgressInv
    <2>7. ProgressStep
      BY <1>1, <2>1, <2>4, <2>5 DEF ProgressStep, at
    <2> QED BY <2>6, <2>7
  <1>4. ASSUME NEW lat \in Latencies, NEW ok \in BOOLEAN, BtfReadLow(lat, ok)
        PROVE  ProgressInv' /\ ProgressStep
    <2>1. /\ pc = "btf" /\ pc' = "btf_high"
          /\ UNCHANGED <<test, i, progress>>
      BY <1>4 DEF BtfReadLow, btfVars
    <2> QED BY <1>1, <2>1 DEF ProgressInv, ProgressStep
  <1>5. ASSUME NEW lat \in Latencies, NEW ok \in BOOLEAN, BtfReadHigh(lat, ok)
        PROVE  ProgressInv' /\ ProgressStep
    <2>1. /\ pc = "btf_high" /\ pc' = "btf" /\ i' = i + 1 /\ test' = test
          /\ progress' = <<i, test>> \/ progress' = progress
      BY <1>5 DEF BtfReadHigh
    <2>2. i < test
      BY <2>1 DEF IInv, LoopInv
    <2>3. progress'[1] \in {i, at} /\ at <= i
      BY <2>1 DEF ProgressInv
    <2>4. progress' = progress \/ (progress'[2] = test /\ progress'[1] = i)
      BY <2>1
    <2> HIDE DEF at
    <2>5. ProgressInv'
      BY <1>1, <2>1, <2>2, <2>3 DEF ProgressInv
    <2>6. ProgressStep
      BY <1>1, <2>1, <2>2, <2>3, <2>4 DEF ProgressStep, at
    <2> QED BY <2>5, <2>6
  <1>6. CASE SeqEnd \/ BtfEnd
    <2>1. /\ progress' = <<test, test>> /\ pc' \in {"seq_done", "btf_done"}
          /\ pc \in {"seq", "btf"}
      BY <1>6 DEF SeqEnd, BtfEnd, Finish
    <2>2. at <= test
      BY <1>1, <2>1 DEF ProgressInv
    <2> QED BY <1>1, <2>1, <2>2 DEF ProgressInv, ProgressStep
  <1>7. CASE UNCHANGED vars
    BY <1>7 DEF vars, seqVars, btfVars, ProgressInv
  <1> QED BY <1>2, <1>3, <1>4, <1>5, <1>6, <1>7 DEF Next, Reads

(* The progress bar never goes back during a test, never passes its total, *)
(* and its total never changes, for every capacity, limit and interval of  *)
(* the callbacks.                                                          *)
THEOREM ProgressIsMonotone == Spec => ProgressAdvances
  <1>1. Init => ProgressInv
    BY DEF Init, ProgressInv
  <1>2. ProgressStep \/ UNCHANGED vars => [ProgressStep]_vars
    OBVIOUS
  <1> QED BY <1>1, <1>2, Invariance, ProgressStepHolds, PTL
         DEF Spec, ProgressAdvances
=============================================================================
