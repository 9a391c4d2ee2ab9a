--------------------------------- MODULE App ---------------------------------
(***************************************************************************)
(* The payload after boot (source/main.c): its main loop over the tasks of *)
(* LvTask, one of which reads the touch screen (LvIndev) and calls the     *)
(* button actions; those run the tests of SdTester, whose progress         *)
(* callbacks call the task handler again, and show the results.            *)
(*                                                                         *)
(* The state is that of the three instances below (their variables by the  *)
(* same names) and:                                                        *)
(*   stage     how far the button action in progress is: "none", "cycles", *)
(*             "test", "next"; "off" after btn_exit                        *)
(*   cycle     i of the loop in run_test_gui                               *)
(*   todo      the tests of `mode` that run_test_gui has still to run      *)
(*   seq_ptr, btf_ptr  the results of those it ran, {} for NULL            *)
(*   bar       the value of progress_bar                                   *)
(*   dialog    what display_results_gui says, and (history) whether each   *)
(*             of its tests read anything                                  *)
(*   drawn     external: the scene in the frame buffer                     *)
(* failed is history: the reads that failed since the button was pressed.  *)
(***************************************************************************)
EXTENDS Naturals, Sequences, FiniteSets

CONSTANTS
    U32, BLOCKS_PER_READ, PROGRESS_UPDATE_SECTORS, PROGRESS_ITERATIONS,
    LATENCY_SLOW_US, Latencies, Counts,
    FAST_TEST_SECTORS, FAST_BUTTERFLY_ITER,
    CYCLES,   \* 10: calls of the handler before the tests
    PERCENT,  \* 100: the full bar
    Modes     \* the test buttons

ASSUME AppAssumption ==
    /\ {U32, BLOCKS_PER_READ, PROGRESS_ITERATIONS, PERCENT} \subseteq Nat \ {0}
    /\ {PROGRESS_UPDATE_SECTORS, LATENCY_SLOW_US, FAST_TEST_SECTORS,
        FAST_BUTTERFLY_ITER, CYCLES} \subseteq Nat
    /\ Latencies \subseteq Nat /\ Counts \subseteq Nat \ {0}
    /\ Modes \subseteq {"SEQ_FAST", "SEQ_FULL", "BTF_FAST", "BTF_FULL",
                        "ALL_FAST", "ALL_FULL"}

VARIABLES
    up, cnt, pc, total, test, sector, last_progress, low, high, i, result,
    progress, covered, good,
    list, due, mutex, act, interrupter, hpc,
    live, act_obj, last_obj, reset_query,
    stage, cycle, todo, seq_ptr, btf_ptr, bar, dialog, drawn, failed

Null == "null"

T == INSTANCE SdTester WITH Limits <- {0, FAST_TEST_SECTORS, FAST_BUTTERFLY_ITER}

LvTasks == {"anim_task", "lv_refr_task", "indev_proc_task"}
L == INSTANCE LvTask WITH Tasks <- LvTasks, Prio <- [t \in LvTasks |-> 3]

TestScreen == {"progress_bar", "status_label"}
Dialog     == {"dark_bg", "mbox", "btnm"}
Buttons    == Modes \cup {"Exit"}
Menu       == {"main_win"} \cup Buttons
GuiObjects == {"scr"} \cup Menu \cup TestScreen \cup Dialog

ParentOf ==
    [o \in GuiObjects \ {"scr"} |->
        CASE o = "mbox" -> "dark_bg"
          [] o = "btnm" -> "mbox"
          [] o \in {"main_win", "dark_bg"} -> "scr"
          [] OTHER -> "main_win"]

I == INSTANCE LvIndev WITH
        Objects <- GuiObjects, Screen <- "scr", Parent <- ParentOf

testVars  == <<up, cnt, pc, total, test, sector, last_progress, low, high, i,
               result, progress, covered, good>>
taskVars  == <<list, due, mutex, act, interrupter, hpc>>
indevVars == <<live, act_obj, last_obj, reset_query>>
guiVars   == <<stage, cycle, todo, seq_ptr, btf_ptr, bar, dialog, drawn, failed>>
vars      == <<testVars, taskVars, indevVars, guiVars>>

NoDialog ==
    [shown |-> FALSE, passed |-> FALSE, total_errors |-> 0, tested |-> FALSE]

(* The scene the object tree describes: later children cover the others.   *)
Scene == IF "dark_bg" \in live THEN "results"
         ELSE IF "progress_bar" \in live THEN "progress" ELSE "menu"

(***************************************************************************)
(* The tests of each mode (the switch of run_test_gui).                    *)
(***************************************************************************)
Sequential(limit) == [kind |-> "seq", limit |-> limit]
Butterfly(limit) == [kind |-> "btf", limit |-> limit]

Tests ==
    [m \in Modes |->
       CASE m = "SEQ_FAST" -> <<Sequential(FAST_TEST_SECTORS)>>
         [] m = "SEQ_FULL" -> <<Sequential(0)>>
         [] m = "BTF_FAST" -> <<Butterfly(FAST_BUTTERFLY_ITER)>>
         [] m = "BTF_FULL" -> <<Butterfly(0)>>
         [] m = "ALL_FAST" -> <<Sequential(FAST_TEST_SECTORS), Butterfly(FAST_BUTTERFLY_ITER)>>
         [] m = "ALL_FULL" -> <<Sequential(0), Butterfly(0)>>]

(***************************************************************************)
(* The main loop and the tasks other than the touch screen's.              *)
(***************************************************************************)
Scheduler ==
    /\ stage # "off"
    /\ L!MainLoop \/ L!Scan \/ \E t \in LvTasks : L!Elapse(t)
    /\ UNCHANGED <<testVars, indevVars, guiVars>>

In(task) == stage = "none" /\ hpc = "exec" /\ list[act] = task

(* No object of this program is animated. *)
anim_task ==
    /\ In("anim_task")
    /\ L!TaskReturns
    /\ UNCHANGED <<testVars, indevVars, guiVars>>

(* The invalidated areas are drawn and flushed (disp_flush). *)
lv_refr_task ==
    /\ In("lv_refr_task")
    /\ drawn' = Scene
    /\ L!TaskReturns
    /\ UNCHANGED <<testVars, indevVars, stage, cycle, todo, seq_ptr, btf_ptr, bar,
                   dialog, failed>>

(***************************************************************************)
(* The touch screen: a finger on an object, or none.                       *)
(***************************************************************************)
(* The dialog's background covers the screen. *)
Touchable == IF "dark_bg" \in live THEN Dialog ELSE live

(* What touch_poll may find, and what touch_read makes of it: the object   *)
(* under the pressed point (Null beside all), or a release.  A palm counts *)
(* as a release.  Without news from the panel, or when the transfer fails, *)
(* touch_poll keeps the state of an event that touch_read never            *)
(* initialised: it may be anything.                                        *)
TouchEvents == Touchable \cup {"leave", "no_event"}

touch_read(event) ==
    CASE event = "leave"    -> {"released"}
      [] event = "no_event" -> Touchable \cup {Null, "released"}
      [] OTHER              -> {event, "released"}

TouchPress(o) ==
    /\ In("indev_proc_task")
    /\ \E event \in TouchEvents : o \in touch_read(event) \ {"released"}
    /\ I!Press(o)
    /\ L!TaskReturns
    /\ UNCHANGED <<testVars, guiVars>>

TouchRelease ==
    /\ In("indev_proc_task")
    /\ \E event \in TouchEvents : "released" \in touch_read(event)
    /\ act_obj \notin Buttons \cup {"btnm"}
    /\ I!Release
    /\ L!TaskReturns
    /\ UNCHANGED <<testVars, guiVars>>

(* OK in the dialog is released, or held: lv_btnm repeats its action on a  *)
(* long press.  mbox_action gets the button matrix, deletes its parent and *)
(* then, with the menu, everything else on the screen; the deletion resets *)
(* the input device when the action returns.                               *)
mbox_action ==
    /\ In("indev_proc_task")
    /\ act_obj = "btnm"
    /\ I!Replace(I!Below("scr") \ {"scr"}, Menu)
    /\ stage' = "return"
    /\ dialog' = NoDialog
    /\ bar' = 0 /\ failed' = 0
    /\ UNCHANGED <<testVars, taskVars, cycle, todo, seq_ptr, btf_ptr, drawn>>

(* The action returns through indev_proc_task. *)
ActionReturns ==
    /\ stage = "return"
    /\ \E released \in BOOLEAN : I!Settle(released)
    /\ stage' = "none"
    /\ L!TaskReturns
    /\ UNCHANGED <<testVars, cycle, todo, seq_ptr, btf_ptr, bar, dialog, drawn, failed>>

btn_exit ==
    /\ In("indev_proc_task")
    /\ act_obj = "Exit"
    /\ stage' = "off"
    /\ UNCHANGED <<testVars, taskVars, indevVars, cycle, todo, seq_ptr, btf_ptr,
                   bar, dialog, drawn, failed>>

(***************************************************************************)
(* run_test_gui                                                            *)
(***************************************************************************)
RunTestGui(m) ==
    /\ In("indev_proc_task")
    /\ act_obj = m
    /\ I!Replace(I!Below("main_win") \ {"main_win"}, TestScreen)
    /\ bar' = 0
    /\ cycle' = 0
    /\ todo' = Tests[m]
    /\ seq_ptr' = {} /\ btf_ptr' = {}
    /\ failed' = 0
    /\ stage' = "cycles"
    /\ UNCHANGED <<testVars, taskVars, dialog, drawn>>

HandlerCycle ==
    /\ stage = "cycles" /\ cycle < CYCLES
    /\ cycle' = cycle + 1
    /\ L!lv_task_handler
    /\ UNCHANGED <<testVars, indevVars, stage, todo, seq_ptr, btf_ptr, bar, dialog,
                   drawn, failed>>

StartTest ==
    /\ stage = "cycles" => cycle = CYCLES
    /\ stage \in {"cycles", "next"}
    /\ todo # <<>>
    /\ IF Head(todo).kind = "seq" THEN T!SeqBegin(Head(todo).limit)
                                  ELSE T!BtfBegin(Head(todo).limit)
    /\ bar' = 0
    /\ stage' = "test"
    /\ UNCHANGED <<taskVars, indevVars, cycle, todo, seq_ptr, btf_ptr, dialog,
                   drawn, failed>>

(* gui_seq_progress and gui_btf_progress, called with (c, n). *)
Percent(c, n) == ((c * PERCENT) % U32) \div n

Bounded(v) == IF v > PERCENT THEN PERCENT ELSE v

gui_progress(c, n) ==
    IF n > 0
    THEN bar' = Bounded(Percent(c, n)) /\ L!lv_task_handler
    ELSE UNCHANGED <<bar, taskVars>>

TestReads ==
    /\ stage = "test"
    /\ T!Reads
    /\ IF progress' # progress
       THEN gui_progress(progress'[1], progress'[2])
       ELSE UNCHANGED <<bar, taskVars>>
    /\ failed' = failed + (result'.read_errors - result.read_errors)
    /\ UNCHANGED <<indevVars, stage, cycle, todo, seq_ptr, btf_ptr, dialog, drawn>>

TestEnds ==
    /\ stage = "test"
    /\ T!SeqEnd \/ T!BtfEnd
    /\ gui_progress(progress'[1], progress'[2])
    /\ IF Head(todo).kind = "seq" THEN seq_ptr' = {result} /\ UNCHANGED btf_ptr
                                  ELSE btf_ptr' = {result} /\ UNCHANGED seq_ptr
    /\ todo' = Tail(todo)
    /\ stage' = "next"
    /\ UNCHANGED <<indevVars, cycle, dialog, drawn, failed>>

(* display_results_gui *)
Errors(ptr) == IF ptr = {} THEN 0 ELSE (CHOOSE r \in ptr : TRUE).read_errors

(* Seeded: the butterfly result is not looked at. *)
Verdict_SeqOnly ==
    [shown |-> TRUE,
     passed |-> \A r \in seq_ptr : T!is_passed(r),
     total_errors |-> Errors(seq_ptr) + Errors(btf_ptr),
     tested |-> \A r \in seq_ptr \cup btf_ptr : r.blocks_tested > 0]

Verdict ==
    [shown |-> TRUE,
     passed |-> \A r \in seq_ptr \cup btf_ptr : T!is_passed(r),
     total_errors |-> Errors(seq_ptr) + Errors(btf_ptr),
     tested |-> \A r \in seq_ptr \cup btf_ptr : r.blocks_tested > 0]

ShowResults ==
    /\ stage = "next" /\ todo = <<>>
    /\ I!Replace({}, Dialog)
    /\ dialog' = Verdict
    /\ stage' = "return"
    /\ cycle' = 0 /\ seq_ptr' = {} /\ btf_ptr' = {}   \* locals
    /\ UNCHANGED <<testVars, taskVars, todo, bar, drawn, failed>>

(***************************************************************************)
(* Specification.                                                          *)
(***************************************************************************)
(* After lv_init, which creates the three tasks, and create_main_menu. *)
Init ==
    /\ T!Init
    /\ list = <<"indev_proc_task", "lv_refr_task", "anim_task">>
    /\ due = {"lv_refr_task"}
    /\ mutex = FALSE /\ act = 0 /\ interrupter = "none" /\ hpc = "out"
    /\ live = {"scr"} \cup Menu
    /\ I!IndevInit
    /\ stage = "none" /\ cycle = 0 /\ todo = <<>>
    /\ seq_ptr = {} /\ btf_ptr = {}
    /\ bar = 0 /\ dialog = NoDialog /\ drawn = "boot" /\ failed = 0

Action ==
    \/ HandlerCycle \/ StartTest \/ TestReads \/ TestEnds \/ ShowResults
    \/ ActionReturns

Touch ==
    \/ \E o \in GuiObjects \cup {Null} : TouchPress(o)
    \/ TouchRelease
    \/ mbox_action
    \/ \E m \in Modes : RunTestGui(m)
    \/ btn_exit

Next == Scheduler \/ anim_task \/ lv_refr_task \/ Touch \/ Action

(* The program never waits for the user, and time passes: the screen is    *)
(* due for a refresh again and again.                                      *)
Refresh == stage # "off" /\ L!Elapse("lv_refr_task")
            /\ UNCHANGED <<testVars, indevVars, guiVars>>

Spec ==
    /\ Init /\ [][Next]_vars
    /\ WF_vars(/\ stage # "off"
               /\ L!MainLoop \/ L!Scan
               /\ UNCHANGED <<testVars, indevVars, guiVars>>)
    /\ WF_vars(anim_task \/ lv_refr_task \/ Touch \/ Action)
    /\ WF_vars(Refresh)

(***************************************************************************)
(* Properties.                                                             *)
(***************************************************************************)
(* Types of the program's own state, and of the input device. *)
TypeOK ==
    /\ I!IndevTypeOK
    /\ stage \in {"none", "cycles", "test", "next", "return", "off"}
    /\ cycle \in 0 .. CYCLES
    /\ Len(todo) <= 2
    /\ bar \in 0 .. PERCENT
    /\ dialog \in [shown : BOOLEAN, passed : BOOLEAN, total_errors : Nat,
                  tested : BOOLEAN]
    /\ drawn \in {"boot", "menu", "progress", "results"}
    /\ failed \in Nat

(* While a button action runs, the scheduler stands in the input task that *)
(* called it, whatever handler calls the action and the tests make: no     *)
(* task runs inside another one, and the input task is resumed where it    *)
(* was left.                                                               *)
ActionOnStack ==
    stage \in {"cycles", "test", "next", "return"} =>
        mutex /\ hpc = "exec" /\ list[act] = "indev_proc_task"

(* The input device never points to a deleted object without a reset       *)
(* pending, although a button action deletes the pressed button, and the   *)
(* dialog's action the dialog.                                             *)
NoDangling == I!NoDangling

(* The program's state hangs together through button actions that run the  *)
(* scheduler, delete objects and block.                                    *)
StackSound == TypeOK /\ ActionOnStack /\ NoDangling

(* The dialog tells the truth about the reads of its run, of one test or   *)
(* of two: their failures are counted, and any one of them makes it FAILED.*)
DialogTellsErrors ==
    dialog.shown =>
        dialog.total_errors = failed /\ (dialog.passed <=> failed = 0)

(* The results reach the display, unless the user has dismissed them.      *)
ResultsAppear == "dark_bg" \in live ~> drawn = "results" \/ "dark_bg" \notin live

(* main.c:162 "SD card passed all tests!": a run is reported as passed     *)
(* only when each of its tests has read something.                         *)
PassedMeansTested ==
    dialog.shown /\ dialog.passed => dialog.tested
=============================================================================
