------------------------------ MODULE SdTester ------------------------------
(***************************************************************************)
(* The two read tests of source/sd_tester.c, one action per loop iteration *)
(* (sequential) or per read (butterfly), over the storage of StorageAPI.   *)
(*                                                                         *)
(* Code                                   Model                            *)
(* sd_storage.initialized, .sec_cnt       up, cnt                          *)
(* the sd_test_result_t of the caller     result                           *)
(* total_sectors, test_sectors or         total, test                      *)
(*   test_iterations                                                       *)
(* sector, last_progress                  sector, last_progress            *)
(* low, high, i                           low, high, i                     *)
(* the last arguments of progress_cb      progress (<<current, total>>)    *)
(*                                                                         *)
(* covered and good are history: the sectors requested, and those read     *)
(* with success, since the test began.                                     *)
(*                                                                         *)
(* malloc never returns NULL (mem/heap.c, _heap_alloc has no failure       *)
(* path), so the `return -1` of both functions is dead code and is not     *)
(* modelled.  u32 arithmetic wraps at U32.                                 *)
(***************************************************************************)
EXTENDS Integers, FiniteSets, StorageAPI

CONSTANTS
    U32,                      \* 2^32: where u32 arithmetic wraps
    BLOCKS_PER_READ,          \* sectors per read
    PROGRESS_UPDATE_SECTORS,  \* sectors between two progress callbacks
    PROGRESS_ITERATIONS,      \* butterfly iterations between two callbacks
    LATENCY_SLOW_US,          \* above it a block is slow
    Latencies,                \* durations a read may take
    Limits                    \* values the caller passes as the limit

ASSUME TesterAssumption ==
    /\ U32 \in Nat
    /\ BLOCKS_PER_READ \in Nat \ {0}
    /\ PROGRESS_UPDATE_SECTORS \in Nat
    /\ PROGRESS_ITERATIONS \in Nat \ {0}
    /\ LATENCY_SLOW_US \in Nat
    /\ Latencies \subseteq 0 .. (U32 - 2)
    /\ Limits \subseteq 0 .. (U32 - 1)

(* CSD capacities are multiples of 1024 sectors for every SDHC/SDXC card   *)
(* and far smaller for SDSC (sdmmc.c, _sd_storage_parse_csd), so the loop  *)
(* counter of the sequential test never wraps.                             *)
ASSUME CapacityAssumption ==
    /\ BLOCKS_PER_READ < U32
    /\ \A c \in Counts : c + BLOCKS_PER_READ < U32

VARIABLES pc, total, test, sector, last_progress, low, high, i,
          result, progress, covered, good

storageVars == <<up, cnt>>
seqVars     == <<sector, last_progress>>
btfVars     == <<low, high, i>>
vars == <<storageVars, seqVars, btfVars, pc, total, test, result, progress,
          covered, good>>

(***************************************************************************)
(* u32 arithmetic.                                                         *)
(***************************************************************************)
Add32(a, b) == IF a + b >= U32 THEN a + b - U32 ELSE a + b
Sub32_NoWrap(a, b) == a - b   \* seeded: signed instead of u32
Sub32(a, b) == IF a >= b THEN a - b ELSE a - b + U32

Block(s, n) == s .. (s + n - 1)

(***************************************************************************)
(* The result record.                                                      *)
(***************************************************************************)
(* sd_tester_init_result *)
InitResult ==
    [blocks_tested |-> 0, blocks_passed |-> 0, read_errors |-> 0,
     slow_blocks |-> 0, min_latency_us |-> U32 - 1, max_latency_us |-> 0,
     total_latency_us |-> 0]

(* The memory of `sd_test_result_t r = {0}` before the first test. *)
ZeroResult == [InitResult EXCEPT !.min_latency_us = 0]

IsSlow(lat) == lat > LATENCY_SLOW_US

(* Seeded: the error is not counted. *)
record_latency_NoError(r, lat, ok) ==
    IF ~ok THEN [r EXCEPT !.blocks_tested = @ + 1]
    ELSE [r EXCEPT !.blocks_tested = @ + 1, !.blocks_passed = @ + 1]

(* Seeded: the maximum follows only latencies that are not a new minimum. *)
record_latency_ElseMax(r, lat, ok) ==
    IF ~ok
    THEN [r EXCEPT !.blocks_tested = @ + 1, !.read_errors = @ + 1]
    ELSE [r EXCEPT !.blocks_tested = @ + 1, !.blocks_passed = @ + 1,
                   !.total_latency_us = @ + lat,
                   !.min_latency_us = IF lat < @ THEN lat ELSE @,
                   !.max_latency_us = IF lat >= r.min_latency_us /\ lat > @
                                      THEN lat ELSE @]

record_latency(r, lat, ok) ==
    IF ~ok
    THEN [r EXCEPT !.blocks_tested = @ + 1, !.read_errors = @ + 1]
    ELSE [blocks_tested    |-> r.blocks_tested + 1,
          blocks_passed    |-> r.blocks_passed + 1,
          read_errors      |-> r.read_errors,
          slow_blocks      |-> r.slow_blocks + (IF IsSlow(lat) THEN 1 ELSE 0),
          min_latency_us   |-> IF lat < r.min_latency_us THEN lat
                                                         ELSE r.min_latency_us,
          max_latency_us   |-> IF lat > r.max_latency_us THEN lat
                                                         ELSE r.max_latency_us,
          total_latency_us |-> r.total_latency_us + lat]

is_passed(r) == r.read_errors = 0

(* The sum over the passed reads, divided by the count of all; the quotient *)
(* of two u64 is cut to u32.                                               *)
get_avg_latency(r) ==
    IF r.blocks_tested = 0 THEN 0
    ELSE (r.total_latency_us \div r.blocks_tested) % U32

(***************************************************************************)
(* One read of a test, with what it records.                               *)
(***************************************************************************)
ReadAndRecord(s, n, lat, ok) ==
    /\ Read(s, n, ok)
    /\ result'  = record_latency(result, lat, ok)
    /\ covered' = covered \cup Block(s, n)
    /\ good'    = IF ok THEN good \cup Block(s, n) ELSE good

(* Seeded: the final callback repeats the loop's last argument, from 0. *)
Finish_FromZero(done) ==
    /\ pc' = done
    /\ progress' = <<0, test>>
    /\ UNCHANGED <<storageVars, seqVars, btfVars, total, test, result,
                   covered, good>>

Finish(done) ==
    /\ pc' = done
    /\ progress' = <<test, test>>
    /\ UNCHANGED <<storageVars, seqVars, btfVars, total, test, result,
                   covered, good>>

BeginTest ==
    /\ pc \in {"ready", "seq_done", "btf_done"}
    /\ total' = cnt
    /\ result' = InitResult
    /\ progress' = <<0, 0>>
    /\ covered' = {}
    /\ good' = {}
    /\ UNCHANGED storageVars

(***************************************************************************)
(* sd_tester_run_sequential                                                *)
(***************************************************************************)
TestSectors(sector_limit, total_sectors) ==
    IF sector_limit = 0 \/ sector_limit > total_sectors
    THEN total_sectors ELSE sector_limit

SectorsToRead_NoClamp(s) == BLOCKS_PER_READ   \* seeded: no short last read

SectorsToRead(s) ==
    IF Add32(s, BLOCKS_PER_READ) > test THEN test - s ELSE BLOCKS_PER_READ

SeqProgressDue == Sub32(sector, last_progress) >= PROGRESS_UPDATE_SECTORS

SeqBegin(sector_limit) ==
    /\ BeginTest
    /\ test' = TestSectors(sector_limit, cnt)
    /\ sector' = 0
    /\ last_progress' = 0
    /\ pc' = "seq"
    /\ UNCHANGED btfVars

(* Seeded: a read that fails starts the test over. *)
SeqRead_StartOver(lat, ok) ==
    /\ pc = "seq"
    /\ sector < test
    /\ Read(sector, SectorsToRead(sector), ok)
    /\ sector' = IF ok THEN Add32(sector, BLOCKS_PER_READ) ELSE 0
    /\ result' = IF ok THEN record_latency(result, lat, ok) ELSE InitResult
    /\ UNCHANGED <<pc, total, test, btfVars, progress, last_progress, covered,
                   good>>

SeqRead(lat, ok) ==
    /\ pc = "seq"
    /\ sector < test
    /\ ReadAndRecord(sector, SectorsToRead(sector), lat, ok)
    /\ IF SeqProgressDue
       THEN progress' = <<sector, test>> /\ last_progress' = sector
       ELSE UNCHANGED <<progress, last_progress>>
    /\ sector' = Add32(sector, BLOCKS_PER_READ)
    /\ UNCHANGED <<pc, total, test, btfVars>>

SeqEnd == pc = "seq" /\ ~(sector < test) /\ Finish("seq_done")

(***************************************************************************)
(* sd_tester_run_butterfly                                                 *)
(***************************************************************************)
MaxIterations(total_sectors) == (total_sectors \div BLOCKS_PER_READ) \div 2

TestIterations(iterations, total_sectors) ==
    LET max == MaxIterations(total_sectors)
    IN  IF iterations = 0 \/ iterations > max THEN max ELSE iterations

HighStart_OffByOne(total_sectors) ==      \* seeded
    Sub32(total_sectors, BLOCKS_PER_READ - 1)

HighStart(total_sectors) == Sub32(total_sectors, BLOCKS_PER_READ)

BtfBegin(iterations) ==
    /\ BeginTest
    /\ test' = TestIterations(iterations, cnt)
    /\ low' = 0
    /\ high' = HighStart(cnt)
    /\ i' = 0
    /\ pc' = "btf"
    /\ UNCHANGED seqVars

BtfContinues == i < test /\ low < high

BtfReadLow(lat, ok) ==
    /\ pc = "btf"
    /\ BtfContinues
    /\ ReadAndRecord(low, BLOCKS_PER_READ, lat, ok)
    /\ pc' = "btf_high"
    /\ UNCHANGED <<total, test, seqVars, btfVars, progress>>

BtfReadHigh(lat, ok) ==
    /\ pc = "btf_high"
    /\ ReadAndRecord(high, BLOCKS_PER_READ, lat, ok)
    /\ low'  = Add32(low, BLOCKS_PER_READ)
    /\ high' = Sub32(high, BLOCKS_PER_READ)
    /\ progress' = IF i % PROGRESS_ITERATIONS = 0 THEN <<i, test>> ELSE progress
    /\ i' = i + 1
    /\ pc' = "btf"
    /\ UNCHANGED <<total, test, seqVars>>

BtfEnd == pc = "btf" /\ ~BtfContinues /\ Finish("btf_done")

(***************************************************************************)
(* The program: tests started one after another by the user.               *)
(***************************************************************************)
Init ==
    /\ up = TRUE
    /\ cnt \in Counts
    /\ pc = "ready"
    /\ total = 0 /\ test = 0
    /\ sector = 0 /\ last_progress = 0
    /\ low = 0 /\ high = 0 /\ i = 0
    /\ result = ZeroResult
    /\ progress = <<0, 0>>
    /\ covered = {} /\ good = {}

Reads == \E lat \in Latencies, ok \in BOOLEAN :
            SeqRead(lat, ok) \/ BtfReadLow(lat, ok) \/ BtfReadHigh(lat, ok)

Next ==
    \/ \E limit \in Limits : SeqBegin(limit) \/ BtfBegin(limit)
    \/ Reads
    \/ SeqEnd
    \/ BtfEnd

(* The loops run without waiting for anything: each read returns. *)
Fairness == WF_vars(Reads \/ SeqEnd \/ BtfEnd)

Spec == Init /\ [][Next]_vars /\ Fairness

(***************************************************************************)
(* Properties.                                                             *)
(***************************************************************************)
U32s == 0 .. (U32 - 1)

Results == [blocks_tested : Nat, blocks_passed : Nat, read_errors : Nat,
            slow_blocks : Nat, min_latency_us : U32s, max_latency_us : U32s,
            total_latency_us : Nat]

(* Types: all u32 locals of both loops stay u32 values, through the wrap   *)
(* of `total_sectors - BLOCKS_PER_READ` on a handle without a card.        *)
TypeOK ==
    /\ StorageTypeOK
    /\ pc \in {"ready", "seq", "seq_done", "btf", "btf_high", "btf_done"}
    /\ total \in U32s /\ test \in U32s
    /\ sector \in U32s /\ last_progress \in U32s
    /\ low \in U32s /\ high \in U32s /\ i \in Nat
    /\ result \in Results
    /\ progress \in U32s \X U32s
    /\ covered \subseteq Nat /\ good \subseteq covered

(* The sequential test requests every sector below its limit, in order and *)
(* never past it, whatever the last chunk's length and whatever fails; at  *)
(* its end that is the whole of [0, test_sectors).                         *)
SequentialCoverage ==
    pc \in {"seq", "seq_done"} =>
        /\ covered = 0 .. ((IF sector < test THEN sector ELSE test) - 1)
        /\ pc = "seq_done" => covered = 0 .. (test - 1)
        /\ test <= total

(* The counters the results dialog shows agree with each other and with    *)
(* the reads: passed and failed reads add up, slow reads are passed reads, *)
(* and a sequential test counts one block per BLOCKS_PER_READ sectors.     *)
CountersAgree ==
    /\ result.blocks_tested = result.blocks_passed + result.read_errors
    /\ result.slow_blocks <= result.blocks_passed
    /\ pc = "seq" => result.blocks_tested * BLOCKS_PER_READ = sector
    /\ pc = "btf" => result.blocks_tested = 2 * i

(* Minimum, maximum and sum of the latencies are those of the same reads:  *)
(* once a read has passed, the sum lies between passed * min and           *)
(* passed * max.                                                           *)
LatencyBounds ==
    result.blocks_passed > 0 =>
        /\ result.min_latency_us * result.blocks_passed
             <= result.total_latency_us
        /\ result.total_latency_us
             <= result.max_latency_us * result.blocks_passed
        /\ result.slow_blocks > 0 <=> result.max_latency_us > LATENCY_SLOW_US

(* The average the dialog shows (sd_tester.c:48) never exceeds the maximum *)
(* shown beside it, whatever fails; it reaches the minimum as long as no   *)
(* read of the test has failed.                                            *)
AverageBounds ==
    /\ get_avg_latency(result) <= result.max_latency_us
    /\ result.blocks_tested > 0 /\ result.read_errors = 0 =>
         result.min_latency_us <= get_avg_latency(result)

(* The record of a test, from which the results dialog is built, is        *)
(* consistent after every read, passed, slow or failed: its counters, its  *)
(* sums, and the average as far as the code keeps it.                      *)
RecordSound == CountersAgree /\ LatencyBounds /\ AverageBounds

(* The verdict is sound: a test that is_passed accepts has read, with      *)
(* success, every sector it requested.                                     *)
VerdictSound ==
    pc # "ready" /\ is_passed(result) => good = covered

(* A card whose handle is torn down while a test runs can never end that   *)
(* test as passed: the remaining reads are refused and each is an error.   *)
DeadCardNeverPasses ==
    ~up /\ result.blocks_tested > 0 => ~is_passed(result)

(* PASSED means read: neither a failed read nor a card lost in the middle  *)
(* of a test can end in an accepted record.                                *)
VerdictHonest == VerdictSound /\ DeadCardNeverPasses

(* The butterfly test reads no sector twice and none beyond the card: the  *)
(* low and the high pointer meet without crossing, for any capacity and    *)
(* any iteration limit.                                                    *)
ButterflyDisjoint ==
    pc \in {"btf", "btf_high", "btf_done"} =>
        /\ Cardinality(covered) = result.blocks_tested * BLOCKS_PER_READ
        /\ covered \subseteq 0 .. (total - 1)

(* The full butterfly test leaves exactly total_sectors mod (2 *           *)
(* BLOCKS_PER_READ) sectors unread, in the middle: none on a card whose    *)
(* capacity is a multiple of 1024 sectors, and the `low < high` condition  *)
(* never ends the loop before its iteration count.                         *)
FullButterflyGap ==
    pc = "btf_done" =>
        /\ i = test
        /\ test = MaxIterations(total) =>
             Cardinality((0 .. (total - 1)) \ covered)
                 = total % (2 * BLOCKS_PER_READ)

(* The two pointers of the butterfly test cover the card from both ends,   *)
(* each sector once, up to a gap of less than two reads.                   *)
ButterflyGeometry == ButterflyDisjoint /\ FullButterflyGap

(* What the progress bar is told during a test never goes back, and its    *)
(* total never changes.                                                    *)
ProgressStep ==
    pc \in {"seq", "btf", "btf_high"} =>
        /\ progress'[1] >= progress[1]
        /\ \/ progress' = progress
           \/ progress'[2] = test /\ progress'[1] <= test

ProgressAdvances == [][ProgressStep]_vars

(* Every test that is started ends, also on a card that stops answering.   *)
TestTerminates ==
    pc \in {"seq", "btf", "btf_high"} ~> pc \in {"seq_done", "btf_done"}
=============================================================================
