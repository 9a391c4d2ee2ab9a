# A TLA+ model of the SD Card Read Tester

This directory holds TLA+ modules, TLC configurations and TLAPS proofs for the
payload in `src/GUI`: a bare-metal program for the Nintendo Switch that reads an
SD card sequentially or in a butterfly pattern and shows latencies, errors and a
verdict on a touch screen.  Paths below are relative to `src/GUI`.

Tools: `tlc -config X.cfg M.tla` for a run, `tlapm M.tla` for the proofs.
`PROJECT.json` lists the runs, the lines each definition stands for, one seeded
bug (a *mutant*) for each property, the hazards the properties answer, the
findings and the theorems.

## 1. Inventory

The program is one thread on one core.  There are no interrupts it handles and no
second task that preempts it; what makes it hard is a card that may fail, be
pulled or be swapped between any two steps, a controller that answers late or
never, a retry and re-initialization machinery three loops deep, a cooperative
scheduler that is called from inside its own tasks, and 32-bit arithmetic over
card capacities and times.

| Component | Source | State it keeps | Operations | Correct when | Module |
|---|---|---|---|---|---|
| Read tests | `source/sd_tester.c` | result record; loop variables | run_sequential, run_butterfly, record_latency, get_avg_latency, is_passed | every sector below the limit is requested once, counters belong to the reads, the verdict is sound, it ends | SdTester |
| UI and main loop | `source/main.c` | widgets, current results | menu, run_test_gui, progress callbacks, results dialog, exit, touch_read | the dialog tells the truth about the run, it appears, nothing points to deleted widgets | App |
| SD ladder, mount, end | `bdk/storage/sd.c` | `sd_mode`, `sd_init_done`, `sd_mounted`, `insertion_event` | sd_initialize, sd_init_retry, sd_mount, sd_end | the mode stays on the ladder, a handle is backed by its host, every call returns | SdStorage |
| SD transfers | `bdk/storage/sdmmc.c` | `sd_storage`; offset, remainder, buffer, retries | read with chunks, retries, re-initialization; storage_end | a read that succeeds has filled the buffer, all or nothing | SdStorage |
| Card initialization | `bdk/storage/sdmmc.c` | card, bus and voltage state on four sides | init_sd, command by command | host, controller, regulator and card agree behind a live handle | SdCard |
| Controller driver | `bdk/storage/sdmmc_driver.c`, `bdk/soc/clock.c` | host record, registers, SoC clock table, PLLC4 | execute_cmd, stop_transmission; init, end, clock, power, width, voltage, tuning | answers belong to commands, DMA stays in its buffer, waits end on time | SdmmcCmd, SdmmcHost |
| FAT | `bdk/libs/fatfs/ff.c`, `sd.c` | window, FAT, directory; open file | mount, open, read, write, sync, close, unlink, rename | a failed access or a power loss costs no file that was safe | FatFs, FatVolume |
| Task scheduler | `lv_misc/lv_task.c` | task list, current task, interrupter, mutex | create, handler | priority order, no starvation, no re-entry | LvTask |
| Objects and input device | `lv_core/lv_obj.c`, `lv_core/lv_indev.c` | object tree; `act_obj`, `last_obj`, `reset_query` | create, delete, press, release | no dangling pointer | LvIndev |
| Refresh | `lv_core/lv_refr.c`, `lv_vdb.c`, `lv_obj.c` | invalid areas, VDB | invalidate, join, cut, draw, flush | what changed is drawn | LvRefr |
| LVGL memory | `lv_misc/lv_mem.c` | the pool | alloc, free, realloc, defrag | blocks are disjoint and keep their content | LvMem |
| Heap | `bdk/mem/heap.c` | doubly linked list of nodes | malloc, free | blocks are disjoint, free space is merged | Heap |
| Touch controller | `bdk/input/touch.c` | tuning values | poll, power-on | reports what the finger does | App (events) |
| Boot, DRAM, power, security, display, eMMC | `bdk/soc`, `bdk/mem`, `bdk/power`, `bdk/sec`, `bdk/display`, `bdk/storage/emmc.c` | registers | initialization | device I/O | |
| Not in the Makefile | `bdk/usb`, `bdk/ianos`, `bdk/libs/compr`, joycon, als, thermal, ramdisk, BIS, vic, dirlist | | | not part of the program | |

(`lv_core` and `lv_misc` are directories of `bdk/libs/lvgl`.)

How they interact.  `ipl_main` mounts the card, creates the menu and calls
`lv_task_handler` for ever.  The handler runs three tasks of one priority:
animations, refresh and the touch screen.  The touch task calls the action of a
released button; `run_test_gui` runs *inside* that action, and so inside the
handler, for minutes.  A test calls `sdmmc_storage_read` for each block, which
may go through retries, `sd_initialize` and `sdmmc_storage_init_sd` before it
returns; every command of these goes through `sdmmc_execute_cmd`, which polls
the controller against deadlines.  The test's progress callback calls
`lv_task_handler` again.  Results are handed to `display_results_gui` by pointer,
the action returns, and only then does the scheduler continue.

The tests see the storage through two fields of one global handle, `initialized`
and `sec_cnt`, which a failed read may change behind their back: that is the
interface `StorageAPI` pins down.  FatFs reaches the same handle through
`diskio.c`; in this payload only `f_mount` is called, the file helpers of `sd.c`
and the rest of `ff.c` are linked for payloads built on the same library.

Behaviours that are hard to test are listed at their lines under `hazards` in
`PROJECT.json`.

## 2. Modules

```
StorageAPI   what a read promises           SdmmcHost  the driver without commands
  |   \                                       |    \
  |    StorageSpec <= implemented by =        |     SdmmcCmd   one command
  |                      SdStorage            |
  |                      StorageProofs      SdCard -- SdCardProofs
  |                          |                | the card's initialization
  |                          |                v
  |                       CardAPI -------- CardSpec <= implemented by SdCard
  |               steps of the initialization
SdTester -- SdTesterProofs
  |                                         LvTask -- LvTaskHistory -- LvglProofs
  |                                         LvIndev
  \_________ App (INSTANCE SdTester, LvTask, LvIndev) ________/

FatVolume -- FatFs -- FatInv -- StorageProofs -- FatFsProofs
LvMem, LvRefr -- LvglProofs                             Heap -- HeapProofs
```

Each level of the storage takes the one below it as a nondeterministic step and
that level shows what may be assumed: SdTester's `Read` is what StorageSpec
allows; SdStorage implements StorageSpec and takes the initialization in the few
steps of CardAPI; SdCard takes it command by command, a command in one step, and
implements CardSpec, which makes no other steps than these; SdmmcCmd takes a command
apart and shows that one leaves the controller as it found it (`QuietBetween`), which
is what makes it a step.

### StorageAPI, StorageSpec

`Read(sector, n, ok)` is one call of `sdmmc_storage_read` as its callers see it:
refused without touching the card (`initialized` unset or out of bounds),
successful (perhaps after a re-initialization, which may change the capacity), or
failed, leaving the handle as it was, torn down, or with the capacity of another
card.  `StorageSpec` is the life of the storage between the calls of `main.c`:
mounted, read, ended.  It is the abstract specification that `SdStorage`
implements, and `SdTester` is built on the same `Read`, so what is shown about the
tests rests on what is shown about the stack.

### SdTester

One action per iteration of the sequential loop (`SeqRead`) and one per read of
the butterfly loop (`BtfReadLow`, `BtfReadHigh`), with the begin and the end of
each test.  The duration of a read comes from `Latencies`, the limit from
`Limits`, the result from `Read`.  u32 arithmetic wraps at `U32` (`Add32`,
`Sub32`): `HighStart` really wraps on a handle of capacity 0.  `covered` and
`good` are history: the sectors requested and those read with success.
`malloc` never returns NULL (see Heap), so `return -1` is dead code.

### SdStorage

`sd.c` and the transfer code of `sdmmc.c` as a small control stack: `op` is the
call of `main.c` in progress, `caller` who waits for an initialization, `pc` the
next step.  `InitRetry` is `sd_init_retry`; the initialization of the card has
four steps that each may fail (host, identification, capacity, bus), and what they
and the shutdown do to the handle and the card are the steps of `CardAPI`.  `TryOk` and
`TryFails` are one attempt of `_sdmmc_storage_readwrite`, `HandleIoError` the way
to a re-initialization, `Reinit` the restart of the whole transfer.  `Remove` and
`Insert` are the user, enabled at every step.  The card is external: its state
(`raw`, `ident`, `tran`) is lost with the supply or the slot.  History variables
(`fresh`, `up0`, `cnt0`, `last`) say which blocks of the caller's buffer hold
their sector, and what the handle was when the call began.

### SdmmcHost, SdCard

`SdmmcHost` holds what the functions of `sdmmc_driver.c` and `clock.c` that run
no command do, as operators on records: the host's record, the controller's
registers, the board's rails and the SoC clock with its table and PLLC4.
`SdCard` keeps them as variables and composes them with the commands of
`sdmmc_storage_init_sd`, one action per command, and with the card in the slot,
which is external: a state of the SD protocol, a signalling voltage, a bus width
and an access mode.  A command is answered by a card in a state that takes it
(`Answered`) or fails, and one that fails may have reached the card (`Lost`).
The caller may initialize in any mode of the ladder again and again, the user
may pull and swap the card at any step.  `Polls` stands for the looks at a busy
card within 1500 ms.

### CardAPI, CardSpec

`CardAPI` says what an initialization and a shutdown do to the handle
(`initialized`), the host (`clock_stopped`, `card_clock_enabled`), the supply and
what the handle has of the card in the slot: nothing (`raw`), an address (`ident`),
an initialized card (`tran`).  `SdStorage` is built of these steps.  `CardSpec` puts
them in order, and `SdCard` implements it (`ImplementsCardSpec`): the commands up to
the address are the phase `ident`, those behind it the phase `bus`, an
initialization has succeeded with the answer to the last command that needs one, and
the card is what its protocol state says as far as this initialization got.  What
`SdStorage` knows of the capacity is outside of this; SdCard leaves the CSD out.

Two places of the models were wrong before they were put on each other.  CMD0 of a
shutdown that fails may have reset the card: the handle stays initialized on a card
that no longer takes transfers (`EndFails`).  And what the SCR said of a card decides
about width and speed also when another card was put in since (`GetScr`).

### SdmmcCmd

The loops of `_sdmmc_wait_cmd_data_inhibit`, `_sdmmc_wait_response`,
`_sdmmc_update_sdma` and `_sdmmc_wait_card_busy` with the code before and after
them, one action per look at the registers, and of `sdmmc_stop_transmission`,
next to a controller that raises its bits in any order, at any time, or never,
and a timer that wraps at `TmrMod`.  `owner` and `moved` are history: who raised
the response bit, and which blocks of memory were written.

### FatVolume, FatFs, FatInv

`FatVolume` has the straight-line functions of `ff.c` on FAT and directory as
operators on a record that holds the card, the window and the fault that is to
strike: `disk_read`, `disk_write`, `sync_window`, `move_window`, `get_fat`,
`put_fat`, `dir_remove`, `sync_fs`, and the two writes of `create_chain` (`Claim`).

`FatFs` has the calls of the library.  A call is a sequence of steps, one for each
iteration of a loop of the library and one for what lies between two loops; `call`
holds its arguments, its local variables and where it is:

| Steps | Loop or part of `ff.c` |
|---|---|
| `dir_next`, `NotFound` | `dir_find` and `dir_alloc`, a slot at a time |
| `OpenRead`, `Overwrite`, `BackToEntry`, `dir_register` | the ends of `f_open`; `dir_register` for the new name of `f_rename` too |
| `remove_chain` | a cluster at a time, for `f_open` and `f_unlink` |
| `Unlink`, `FoundOld`, `Exists`, `Rename` | `f_unlink` and `f_rename` between and behind their searches |
| `NextSector`, `Follow`, `TryNext`, `FindFree`, `ClaimCluster` | `f_write` at a sector's begin: `create_chain`, its search a cluster at a time |
| `Flush`, `WriteSector`, `StartBuffer`, `FillBuffer`, `AllWritten` | the rest of a round of `f_write`; `Flush` of `f_sync` too |
| `f_sync`, `Synced` | the entry, then `sync_fs`, of `f_close`; `Synced` of `f_unlink` and `f_rename` too |
| `ReadSector`, `ReadReturns` | `f_read`, a sector at a time |

In each step a fault may strike at any of its disk accesses, of which there are at
most four (`ReadSector`: the window written out with its mirror, a sector of the FAT
read, then one of the file): a read fails, a write fails before or after its sector is
written, power is lost and the card is mounted again as it is.  `may` is history:
what each file may hold, by what the calls returned.  `FatInv` has the inductive
invariant and nothing else.

### LvTask, LvTaskHistory

`lv_task_create` keeps the list in order.  The handler is one step per list
element: `PassInterrupter`, `Pass`, `Run`, and `HandlerReturns` at the end;
`TaskReturns` is the way back from a task, after which the scan begins again
unless the task had the highest priority.  The clock (`Elapse`) may make any task
due at any moment, faster than the handler runs.  `LvTaskHistory` adds the
variables its ordering properties speak of and leaves every step as it is.

### LvIndev

The object tree by its parent relation, and the three fields of the input device
that can point into it.  `Replace` is what a callback does (delete some objects,
create others) including the reset that `delete_children` asks for; `Settle` is
what follows the callback.  A deleted object's name may be used again, as its
memory may.

### LvRefr

Objects with position, size, style and parent; the setters with what each
invalidates before and after; the buffer of invalid areas; and the refresh, one
action per iteration of its loops: joining (`JoinFrom`, `JoinNext`), the areas
(`SkipJoined`, `lv_refr_area_with_vdb`), the parts of an area that fit the VDB
(`FullPart`, `LastPart`), each drawn from the top object that covers it upwards and
flushed.  `frame` is what the display shows, `Picture` what it
should show (a reference definition: all objects painted from the back).  The setters
wait for the refresh to end: there is one thread.  The drawing of a part is one step,
and recursive functions on the tree say what it paints.

### LvMem, Heap

Both have one action per iteration of a loop of the code.  `LvMem` keeps headers
and data in one array, as `lv_mem.c` does, so that a header that is written over,
or an entry too short for one, shows.  `pc` names the loop that runs: the search
of `lv_mem_alloc`, the joining of `lv_mem_free`, and the two loops of
`lv_mem_defrag`; `e` and `e_next` are its variables, `blk` and `bytes` what the
call in progress was asked for.  `lv_mem_realloc` runs the first two one after
the other (`ReallocMore`, `TakeAndCopy`, `ReallocReturns`).  In `Heap` node fields
are functions on the addresses of the linked nodes, `used` is the set of used
ones, `held` the blocks callers hold.

### App

`main.c` after boot, composed of `SdTester`, `LvTask` and `LvIndev`.  `stage`
says how far the button action in progress is; while it is not "none" the
scheduler stands in the input task.  `RunTestGui` replaces the menu by the
progress screen, `HandlerCycle` is the loop of ten handler calls, `TestReads` a
read of the test with its progress callback (percentage in u32, bar, nested
handler call), `ShowResults` builds the dialog, `mbox_action` dismisses it.
`touch_read` passes on what `TouchEvents` allows; without news from the panel,
or after a failed transfer, anything.  Labels are not modelled; the bar, the
verdict and the error count are.

`mbox_action` gets the button matrix, so its `lv_obj_del(mbox->par)` deletes the
message box and not the background that the comment at `main.c:83` names; the menu is
rebuilt on a cleaned screen right after, which deletes the rest, and the model
deletes both in one step.

## 3. Runs

Each property of a passing run is broken by the mutant listed for it.  The type
invariants of SdCard, LvMem, LvRefr and Heap are proved (section 4) and not among the
runs.

| Run | Instance | Distinct states | Shows |
|---|---|---|---|
| `sd_tester` | capacities 1, 3, 4, 7, 8; 2 sectors per read; 5-bit u32; limits 0 (none), 1, 5 | 28,951 | coverage, counters, latency sums and average (`RecordSound`), verdict (`VerdictHonest`), butterfly geometry, progress, termination |
| `sd_storage` | cards of 2 and 4 sectors; requests of one and two chunks that fit both, one or none; 5 and 3 retries as in the code | 52,327 | whole transfers on a backed handle (`SessionSound`), a mode on the ladder (`TypeOK`), calls return, refinement of StorageSpec |
| `sd_card` | a version 1.0 card, a high-speed SDHC card, two UHS cards; four modes; 2 looks at a busy card | 47,980 | host, card, voltage and clock agree (`BoardAgrees`), the record knows its supply (`RecordBacked`), initializations return, refinement of CardSpec |
| `sdmmc_cmd` | requests with and without data, across and on a boundary, unaligned, of no block, beyond the block count; 2-bit timer | 447,984 | own responses only, exact DMA and a quiet controller (`DataSafe`), honest and bounded waits, calls return |
| `fatfs` | 2 names, 2 directory slots in 2 sectors, 4 clusters, a blank card and one with a fragmented file; writes of 1 and 3 bytes to 2-byte sectors | 627,894 | files kept, chains sound, window coherent, honest answers |
| `lv_task` | five tasks: highest, two equal, lower, off | 559,740 | sorted list (`SchedulerSound`), priority order and no second run among equals (`TurnsFair`), none forgotten, calls end |
| `lv_refr` | 4 by 3 pixels, three objects, opaque, rounded and translucent styles; a VDB of 5 pixels, 2 invalid areas | 308,826 | whatever is stale will be redrawn (`StaleIsQueued`), what waits is not lost (`NoneDropped`), buffers suffice (`BuffersFit`) |
| `lv_mem` | 7 headers of 2 bytes, sizes 0, 1, 3, 5, two blocks | 1,360,488 (blocks symmetric) | entries tile the pool (`PoolTiled`) and contents are kept at every iteration |
| `heap` | blocks of 1 and 9 bytes, 2-byte headers, 3 held | 41,454 | tiling and disjoint blocks (`HeapSound`), merging, calls return |
| `app` | one card of 5 sectors, 5-bit u32, bar of 10, two handler cycles, a mode of each kind | 192,992 | re-entry and no dangling pointers (`StackSound`), honest dialog, results appear |
| `app_passed_untested` | same | violation | see findings |
| `sd_speed82` | as `sd_card` | violation | see findings |

Why the bounds are enough.

* `sd_tester`: the loops depend on capacity only through its size against one
  read, one pair of reads and the limit, and through its remainder; the instance
  has each case, and the proofs lift most results to all values.
* `sd_storage` uses the retry counts of the code; two chunks show everything a
  chunk boundary can do, because the code keeps nothing else between chunks; two
  capacities allow a swap to a smaller and to a larger card.  The ladder has its
  five modes.  The proofs have none of these bounds.
* `sd_card`: the cards have every branch of the initialization (CMD8 or not,
  1.8 V or not, wide or not, one, two or three access modes).  2 looks are one
  that is followed by another and one that is not.  Cards are compared in no
  other way, and the proofs hold for all.
* `sdmmc_cmd`: the controller stops at a boundary before, at and after the end of
  a request; three blocks make a request longer than the count register allows.
  A 2-bit timer wraps within a few waits, where the code needs 49 days.
* `fatfs`: two clusters per FAT sector put a chain across two sectors of the FAT;
  one entry per directory sector makes every entry a move of the window; four
  clusters fill up, so that searches wrap and fail.  `MaxCalls` 4 allows save,
  save over it, rename and read; `MaxFaults` 2 a failure and a loss of power, at
  any access of any step.  The proofs have none of these bounds.
* `lv_task`: five tasks of four priorities have every relation that the handler
  compares; the program's three equal tasks are among them.
* `lv_refr`: two areas make the buffer overflow at the third; a VDB of a row and
  a bit cuts an area into parts of different heights.  `MaxChanges` 3 setters
  between or after refreshes.
* `lv_mem`, `heap`: sizes that fit exactly, leave too little for a header or a
  node, and enough for one; two blocks around a free entry, three in the heap so
  that a free block can have free neighbours on both sides.
* `app`: `CYCLES` is 2 instead of 10: the calls of that loop change nothing, which
  the run itself shows (`ActionOnStack`).  `PERCENT` and `U32` are scaled together
  so that the product wraps in the last part of a test, as it does above 20 GB.

Bounds that cut off behaviour of the code: `MaxHeld` (Heap), `MaxChanges`
(LvRefr), `MaxCalls` and `MaxFaults` (FatFs).  `Polls`, `WaitBound`
and `DmaBound` are bounds of the code, made smaller.  Everything else is finite
by itself.  `App` has CHECK_DEADLOCK FALSE because `btn_exit` ends the program;
every other run checks deadlock.

### Fairness

There is one thread that never waits for another, so each specification has weak
fairness of the running program: a read in progress goes on (`SdTester`,
`SdStorage`), an initialization goes on (`SdCard`), a command goes on
(`SdmmcCmd`), the handler and its tasks go on (`LvTask`), a heap call goes on.
Nothing is assumed of the user, of the card, of the controller, or of how often a
command succeeds.  `SdmmcCmd` adds that the timer ticks; `App` that time passes:
the refresh task becomes due again and again.  `CallsReturn` of `SdStorage`
therefore holds even for a user who swaps cards for ever, and `CallsReturn` of
`SdmmcCmd` for a controller that never answers.

`HandlerEnds` holds for tasks of one priority, as in this program: it assumes that
from some time on only such tasks are due.  With two priorities and tasks due at
once after they ran, the restarts can go on for ever.

`WaitIsBounded` and `CallsReturn` of `SdmmcCmd` have one exception: a deadline on
the last value of the u32 timer is never passed, since nothing is greater.

### Findings

* A card that dies leaves a handle of capacity 0; the next test reads nothing,
  counts no error and is reported as "[PASSED] SD card passed all tests!"
  (`PassedMeansTested`).  The verdict of the test in which it died is right
  (`VerdictHonest`, proved).
* `sdmmc_driver.h:265` describes SDR82 as SDR104 at half the clock; the card is
  run at the full clock, because the rung of SDR82 takes over SDR104's type
  (`SlowerClock`).

Met while modelling, without a run:

* `touch_read` (`main.c:387`) never initializes its `touch_event`: without news
  from the panel, or after a failed transfer, it may report a press at any point,
  where `lv_hal_indev.h:58` asks for "the currently pressed point".
  (`usb_gadget_hid.c:318` keeps its event static.)  `App` models it so, and the
  results hold all the same.  The result of `touch_power_on` is not looked at.
* The repository's `README.md:14` promises "Min/max/average latency per read
  operation".  The average divides the sum of the passed reads by the count of all
  reads (`sd_tester.c:48`), so that one failed read can take it below the minimum
  shown beside it.  What the code does keep is in `RecordSound`: the average never
  exceeds the maximum, and is not below the minimum in a test without errors.
* `main.c:196` makes ten handler calls "to ensure the progress screen renders before
  the blocking test runs", and `main.c:61` one in each progress callback "to update
  display".  They return at once, since the action runs inside the handler and the
  handler holds its mutex: the test runs with the menu on the display.
  `StackSound` shows that these calls do no harm; no property claims that they draw.
* `current * 100` wraps above 20 GB (`main.c:53`).
* `sd.c:105` says "Reset to max." of the ladder's end; the code returns 0 and the
  failed mode stays, beyond the return of the call.  A later `sd_initialize` tries no
  mode at all until the card is pulled or `sd_end` runs.  No property claims either
  behaviour; `TypeOK` shows that the kept mode is not counted down further, which
  would wrap the u32.
* `sdmmc.c:340` says "Reinit SD/EMMC to a lower speed."; the first re-initialization
  of a transfer keeps the speed if the card takes it, only the later ones go down.
* `sd.c:95` "Power cycle" is skipped when CMD0 fails: the handle then stays marked
  initialized, also with the failed mode of a ladder that has ended, so that a later
  read still reaches the card and its re-initialization fails at once.
* `sdmmc_driver.c:1532` waits 5 ms "before turning on the card clock", but
  `sdmmc_setup_clock` has turned it on again already.
* `lv_mem_realloc` from 0 bytes and up leaves the header of the old entry behind
  (`lv_mem.c:226-227`).
* `f_sync` clears FA_MODIFIED although `sync_fs` failed, and `sd_save_to_file`
  ignores the results of f_write and f_close.
* The heap has no end (`heap.c:102`): it grows into whatever lies above it.
* `sd_tester.h` speaks of 512 MB and 512 iterations where `config.h` has 4096.

## 4. Proofs

Eight modules, for every value of the constants within the named assumptions.

`SdTesterProofs`, for every card capacity, read size, limit and latency:

* Assumptions: the constants are numbers of the right kind, and
  `CapacityAssumption`, that a capacity plus one read does not reach 2^32.  The code
  justifies it by the CSD formulas (`_sd_storage_parse_csd`), which give
  multiples of 1024 sectors of at most 2^32 - 1024 for the cards there are.
* Inductive invariant `IInv`: the properties to prove, `LoopInv`, which says
  what each value of `pc` tells of the loop variables, and `LatencyInv`, the
  latency bounds as each read keeps them.  Without `LoopInv`
  `SequentialCoverage` and `CountersAgree` are not inductive: between the two reads
  of a butterfly iteration the count of blocks is odd, and `i` must be known to be
  below the iteration count for its type.
* `GeometryInv` is inductive for the butterfly test: the sectors read are the first
  `low` and as many at the end, one read more at the low end between the two reads
  of an iteration, and an iteration that begins has room for two reads.  That the
  two ends do not cross, and the size of the gap between them, then follow from
  lemmas on the division that sets the number of iterations.  `ProgressInv` keeps
  what the progress bar was told behind the loop variable.
* `AverageFromSum` takes the average from the bounds on the sum, by a lemma on
  quotients; it needs `CountersAgree`, since the sum belongs to the passed reads and
  the divisor counts all.
* Results: `TypeOK`, `SequentialCoverage`, `RecordSound`, `VerdictHonest`,
  `ButterflyGeometry`, `ProgressAdvances`.

`StorageProofs`, SdStorage, for cards of any capacities, requests of any size, any chunk and
any numbers of retries (`StorageAssumption`):

* Inductive invariant: the properties with `StackOK` (who called whom, and what is
  true of the request while a call or an initialization inside it is in progress)
  and `SessionOK` (what each step of an initialization may rely on).  Without the
  first a re-initialization could return into a transfer that never began;
  without the second a handle could be declared initialized on a host that is off.
* Results: `TypeOK`, `SessionSound`, and `ImplementsStorageSpec`:
  initial states map to initial states, and every step is a step of `StorageSpec`
  or leaves what it sees unchanged.  The lemmas go by what the abstract
  specification sees: steps that are hidden, the begin of a read, its return, mount,
  the user.

`SdCardProofs`, for cards of every kind, any set of modes and any number of looks:

* `Serving` states are where the four sides must agree; the induction has to say
  what holds on the way.  The steps are grouped by how far the initialization is
  (`Early`, `Switched`, `Named`, `Asking`, `Choosing`, `Setting`, `Settled`), and
  each part of the invariant says what is true in each group: which states the
  card can be in, a card put in meanwhile included (`CardInv`), rails and signalling
  (`VoltInv`), the controller's timing (`TimingInv`), the SoC clock (`ClkInv`),
  width and access mode (`BusInv`), and that every step has a running host
  (`HostInv`).
* Results: `TypeOK`, `BoardAgrees`, `RecordBacked`, and `ImplementsCardSpec`: initial
  states map to initial states, and every step is a step of `CardSpec` or leaves what
  it sees unchanged.  Lemmas `IdentifyingStep` and `SettingBusStep` say what a command
  of each phase looks like from above, whatever the command is; `HostInv` gives the
  shutdown a running host and the initialization a handle that is not live, `CardInv`
  an empty slot without a card that has an address.

`LvglProofs`, LvTask, for any finite or infinite set of tasks and any priorities:

* `HistoryInv`: while the handler scans, everything is relative to two places, how
  far the scan is and where the interrupter stands.  Whoever is due and waits lies
  ahead, whoever of the priority of the last run ran in this block lies behind.
* Results: `SchedulerSound`, `TurnsFair`, `NoneForgotten`.

`HeapProofs`, for every start, header size and sequence of calls, with any number of blocks:

* `IInv` is `TypeOK`, `Tiled` and `Owned`.  `Tiled` says locally that each node
  begins where the one before it ends and, across the list, that a node ends before any
  later one begins; the second part is what makes a split or an append find room.
  `BlocksDisjoint` is not inductive but follows from `Tiled` and `Owned` (lemma
  `Disjoint`).
* `MergedInv`: two free nodes lie side by side only while a block is being freed, and
  only at or behind the node of the pass over the list: a node with free neighbours on
  both sides is merged in two iterations, and between them the second pair is ahead.
* Results: `TypeOK`, `HeapSound`, `Coalesced`.

`LvglProofs`, LvMem, for every pool and header size, any sizes asked for and any set of blocks
(`LvMemAssumption`):

* The code keeps no list of the entries: they are found by walking over the headers.
  The proof names them by a set `E` of units that exists in every state, and gives
  the new one with each step: `E` with one unit more for a cut, with one less for
  a join, `E` itself otherwise.  Three parts are said of it: `Tiles` (whole entries up
  to the end of the pool), `Owned` (a used entry with data belongs to one block and
  holds all of it) and `Loops` (the variables of the loop that runs are entries).
* `PoolTiled` alone is not inductive.  A join needs to know that `e` is free and that
  `e_next` is the entry behind it, which several iterations have to keep; the copy of
  `lv_mem_realloc` needs the new size to be the larger one, and a second entry that
  is not the block's old one.
* Results: `TypeOK`, `PoolTiled`, `ContentsKept`.

`LvglProofs`, LvRefr, for every screen, every VDB of at least a row, every number of
invalid areas, any finite set of objects in any tree, any styles and positions
(`LvRefrAssumption`):

* `RefrInv`: every area in the buffer is a part of the screen with a pixel, which the
  intersections of `lv_obj_invalidate` and the joins preserve (lemmas `CommonArea`,
  `JoinHolds`); none is inside an earlier one when no refresh runs, since joining
  grows areas over their neighbours; and between two parts the row stands in the area or
  just below it.  That a part is never higher than the VDB has rows is a lemma on the
  division (`MaxRow`).
* `NoneDropped` goes by the cases of a pixel that waits in area `i`: the buffer
  overflows and the screen holds it, the area is joined away and the one it is joined
  into lies ahead of the loop or is the loop's own, its row is drawn.
* Results: `RefrTypeOK`, `BuffersFit`, `NoneDropped`.

`SdmmcCmdProofs`, for every DMA boundary, limit of the block count register, request,
bounds of the waits and modulus of the timer (`CmdAssumption`):

* `ClockInv` says that a call has the card clock and remembers whether to stop it,
  `LineInv` whose bit is on the command line, `EngineInv` where the DMA engine is:
  the address at which it stops next is the first boundary above its block, the
  blocks behind it are moved and those before it are counted.  Without `StopInv` an
  update of the address after a pause could send the engine back or past the end.
  `TimerInv` relates the timer to the deadline: the time waited and the time left
  are the bound, unless the deadline wrapped.
* Results: `InBounds`, `ResponseIsOurs`, `DataSafe`, `TimeoutsHonest`.

`AppProofs`, for every set of block counts a card may have, every set of buttons, any
number of handler calls and any width of u32 (`AppAssumption`):

* `StackInv`: while an action runs, the scheduler stands in the input task and a
  reset is pending, which is why no pointer dangles although the screen under it is
  replaced; `PointInv`: between two actions the input device points to nothing the
  dialog covers.  `TodoInv` and `ResultsInv` follow the errors of a run from the
  record of the test in progress to the two results and the dialog.  The ancestors
  of an object are computed from the recursive function of `LvIndev`
  (lemma `AncestorsExist`).
* Results: `StackSound`, `DialogTellsErrors`.

`StorageProofs` (its second part) and `FatFsProofs`, FatFs, for volumes, directories
and sectors of any size, any names and bytes, cards with nothing wrong on them at
first, any number of calls and of faults (`VolumeAssumption`, `FatFsAssumption`):

* What a card holds is taken as an *image*: a function from clusters to FAT entries,
  one from slots to directory entries, one from clusters to their bytes.  There are
  two of them, `CardImg` of the sectors on the card and `ViewImg` of the card with the
  window over it, and the proof goes in three layers.
* The volume: what each operator of `FatVolume` does to the two images under any
  fault.  `Passes` says which images the card may have held on the way and that
  the window holds no other; `move_window` changes neither image but may bring
  the card up to the view, `put_fat` changes the view in one place, or fails and
  changes nothing, `Claim` goes through the image that is marked and not yet linked.
* Images: `Good` is what must hold of both at every step, so that a loss of power at
  any access finds it: no entry behind the end of the directory, no name twice, no
  reference to a free cluster, each chain as long as its file, and each file holding
  something it may hold.  One lemma for each change a step can make says
  under what condition an image stays good: a free cluster marked, a cluster that
  stands apart linked or written, a cluster nothing refers to freed, an entry emptied,
  deleted or set.  The order of writes the code keeps is what makes the
  conditions true.
* Calls: `FatInd` is `Good` of both images with a phase for each value of `call.pc`.  A
  phase says what the loop knows: the slots looked through and the name not found
  (`Scanned`), the clusters the search has seen used (`Covered`), the cluster about to
  be freed has no reference left, and for an open file (`Own`) the chain that is its
  alone, that no entry leads to yet, and holds the bytes f_write took, those of the
  last sector in the buffer.  None of the four properties is inductive without it:
  `f_sync`'s entry is safe only because the chain behind it is already on the card.
* One lemma for each action, in it one case for a step that goes on and one for a
  step that is cut short by a failure or by power.
* Results: `FilesKept`, `ChainsSound`, `WindowCoherent`, `RepliesHonest`.

Only model-checked: all liveness properties, which need fairness and so are beyond
the prover; and `StaleIsQueued` of `LvRefr`: that the
drawing of a part paints what `Picture` shows relates two recursions over the tree,
which is an induction over data.

## 5. Not modelled

* Boot, DRAM, memory controller, security engines, power, battery, regulators,
  display, console, I2C: register programming without state of the program, or
  waits without a choice.
* eMMC: linked but not called.  LVGL's widgets, drawing, fonts, themes and
  animations: geometry and pixels; nothing in this payload is animated.
* Sources that are not in the Makefile's objects.
* Within the modelled parts: formatting of texts, the counters `sd_errors` (no
  reader), the bounce buffer of `sdmmc_storage_read` (test buffers are aligned heap
  blocks), writes to the card below FatFs, CID, CSD and SSR parsing, pad trimming
  and calibration, DDR200 tuning and HS400; directories other than the root, long
  names, seeking, exFAT and formatting in FatFs; dragging and click groups of the
  input device, alignment of objects; power-on, reset and tuning of the touch
  controller; the functions of the scheduler that nothing calls.
* Time is a number only in `SdmmcCmd`; elsewhere a deadline that passes is a command
  that fails.

## 6. Plan

Done, in this order: StorageAPI, SdTester with its proofs, SdStorage with
StorageSpec and its proofs, LvTask with its proofs, LvIndev, App with its proofs,
Heap with its proofs, SdmmcHost, SdmmcCmd with its proofs, SdCard with its proofs,
FatVolume and FatFs, LvRefr and LvMem with their proofs, CardAPI and CardSpec under
SdStorage and SdCard, FatFs iteration by iteration with its proofs.

Left: subdirectories, the growth of a directory and seeking in FatFs; an abstract
specification of FatFs as a map from names to contents, which `FatInv` is close to.
