------------------------------ MODULE AppProofs ------------------------------
(***************************************************************************)
(* Proofs about the payload after boot, for every card, every button, any  *)
(* number of handler calls and any width of the bar and of u32: an action  *)
(* of a button keeps its place in the scheduler, no pointer of the input   *)
(* device dangles, and the dialog tells what the tests found.              *)
(***************************************************************************)
EXTENDS App, TLAPS

(* While an action of a button runs, the scheduler stands in the input task*)
(* and the reset that the action asked for is pending.                     *)
Running == {"cycles", "test", "next", "return"}

HandlerInv == mutex \in BOOLEAN /\ (mutex = TRUE <=> hpc # "out")

StackInv ==
    stage \in Running =>
        /\ hpc = "exec" /\ list[act] = "indev_proc_task"
        /\ reset_query = TRUE

(* What the input device points to, between two actions: something under   *)
(* the finger that exists and that the dialog does not cover.              *)
PointInv ==
    /\ NoDangling
    /\ "dark_bg" \in live => Dialog \subseteq live
    /\ stage = "none" =>
           /\ reset_query = FALSE \/ act_obj = Null
           /\ act_obj \in Touchable \cup {Null}

(* A dialog that is shown covers the menu, and was right when it was built.*)
DialogInv ==
    dialog.shown = TRUE =>
        /\ stage \notin {"cycles", "test", "next"}
        /\ "dark_bg" \in live
        /\ dialog.total_errors = failed
        /\ dialog.passed = TRUE <=> failed = 0

Records == [blocks_tested : Nat, blocks_passed : Nat, read_errors : Nat,
            slow_blocks : Nat, min_latency_us : Nat, max_latency_us : Nat,
            total_latency_us : Nat]

(* The part of the test's state that the callbacks and the dialog use. *)
TestInv ==
    /\ cnt \in Nat /\ test \in Nat /\ sector \in Nat /\ i \in Nat
    /\ result \in Records /\ progress \in Nat \X Nat

AtMostOne(ptr) == ptr = {} \/ \E r \in Records : ptr = {r}

(* The tests still to run, sequential before butterfly, have no result yet.*)
TodoInv ==
    /\ todo \in Seq([kind : {"seq", "btf"}, limit : Nat])
    /\ Len(todo) <= 2
    /\ Len(todo) = 2 => todo[1].kind = "seq" /\ todo[2].kind = "btf"
    /\ stage \in {"cycles", "test"} => todo # <<>>
    /\ stage \in {"cycles", "test", "next"} /\ todo # <<>> =>
           btf_ptr = {} /\ (todo[1].kind = "seq" => seq_ptr = {})

(* The failed reads of the run are in the results of the tests that ended  *)
(* and in the record of the one that runs.                                 *)
ResultsInv ==
    /\ AtMostOne(seq_ptr) /\ AtMostOne(btf_ptr)
    /\ stage = "cycles" => seq_ptr = {} /\ btf_ptr = {} /\ failed = 0
    /\ stage = "test" =>
           failed = Errors(seq_ptr) + Errors(btf_ptr) + result.read_errors
    /\ stage = "next" => failed = Errors(seq_ptr) + Errors(btf_ptr)

IInv ==
    /\ TypeOK /\ HandlerInv /\ StackInv /\ PointInv /\ DialogInv /\ TestInv
    /\ TodoInv /\ ResultsInv

-----------------------------------------------------------------------------
(* The object tree: what is below the screen and below the main window.    *)
Lineage(o) ==
    IF o = "scr" THEN {"scr"}
    ELSE IF o \in {"main_win", "dark_bg"} THEN {o, "scr"}
    ELSE IF o = "mbox" THEN {"mbox", "dark_bg", "scr"}
    ELSE IF o = "btnm" THEN {"btnm", "mbox", "dark_bg", "scr"}
    ELSE {o, "main_win", "scr"}

LEMMA ParentIs ==
    ASSUME NEW o \in GuiObjects, o # "scr"
    PROVE  /\ ParentOf[o] \in GuiObjects
           /\ ParentOf[o] = IF o = "mbox" THEN "dark_bg"
                            ELSE IF o = "btnm" THEN "mbox"
                            ELSE IF o \in {"main_win", "dark_bg"} THEN "scr"
                            ELSE "main_win"
  <1>1. o \in GuiObjects \ {"scr"}
    OBVIOUS
  <1>2. ParentOf[o] = CASE o = "mbox" -> "dark_bg"
                        [] o = "btnm" -> "mbox"
                        [] o \in {"main_win", "dark_bg"} -> "scr"
                        [] OTHER -> "main_win"
    BY <1>1 DEF ParentOf
  <1>3. ParentOf[o] = IF o = "mbox" THEN "dark_bg"
                      ELSE IF o = "btnm" THEN "mbox"
                      ELSE IF o \in {"main_win", "dark_bg"} THEN "scr"
                      ELSE "main_win"
    BY <1>2
  <1>4. {"scr", "main_win", "dark_bg", "mbox"} \subseteq GuiObjects
    BY DEF GuiObjects, Menu, Dialog
  <1> QED  BY <1>3, <1>4

LEMMA AncestorsExist ==
    I!Ancestors = [o \in GuiObjects |->
        IF o = "scr" THEN {o} ELSE {o} \cup I!Ancestors[ParentOf[o]]]
  <1> DEFINE g == [o \in GuiObjects |-> Lineage(o)]
             F(f) == [o \in GuiObjects |->
                        IF o = "scr" THEN {o} ELSE {o} \cup f[ParentOf[o]]]
  <1>1. ASSUME NEW o \in GuiObjects
        PROVE  g[o] = IF o = "scr" THEN {o} ELSE {o} \cup g[ParentOf[o]]
    <2>1. CASE o = "scr"
      BY <2>1 DEF Lineage
    <2>2. CASE o # "scr"
      <3>1. ParentOf[o] \in GuiObjects
        BY <2>2, ParentIs
      <3>2. g[ParentOf[o]] = Lineage(ParentOf[o]) /\ g[o] = Lineage(o)
        BY <3>1
      <3>3. Lineage(o) = {o} \cup Lineage(ParentOf[o])
        BY <2>2, ParentIs DEF Lineage
      <3> QED  BY <2>2, <3>2, <3>3
    <2> QED  BY <2>1, <2>2
  <1>2. g = F(g)
    BY <1>1
  <1>3. \E f : f = F(f)
    BY <1>2
  <1>4. I!Ancestors = CHOOSE f : f = F(f)
    BY DEF I!Ancestors
  <1> HIDE DEF F
  <1>5. I!Ancestors = F(I!Ancestors)
    BY <1>3, <1>4
  <1> QED  BY <1>5 DEF F

LEMMA AncestorsAre ==
    ASSUME NEW o \in GuiObjects
    PROVE  I!Ancestors[o] = Lineage(o)
  <1>1. ASSUME NEW x \in GuiObjects
        PROVE  I!Ancestors[x] = IF x = "scr" THEN {x}
                                ELSE {x} \cup I!Ancestors[ParentOf[x]]
    BY AncestorsExist
  <1>2. {"scr", "main_win", "dark_bg", "mbox", "btnm"} \subseteq GuiObjects
    BY DEF GuiObjects, Menu, Dialog
  <1>3. I!Ancestors["scr"] = {"scr"}
    BY <1>1, <1>2
  <1>4. ASSUME NEW x \in {"main_win", "dark_bg"}
        PROVE  I!Ancestors[x] = {x, "scr"}
    <2>1. x \in GuiObjects /\ x # "scr" /\ ParentOf[x] = "scr"
      BY <1>2, ParentIs
    <2>2. I!Ancestors[x] = {x} \cup {"scr"}
      BY <1>1, <1>3, <2>1
    <2> QED  BY <2>2
  <1>5. I!Ancestors["mbox"] = {"mbox", "dark_bg", "scr"}
    <2>1. ParentOf["mbox"] = "dark_bg"
      BY <1>2, ParentIs
    <2>2. I!Ancestors["mbox"] = {"mbox"} \cup {"dark_bg", "scr"}
      <3>1. I!Ancestors["dark_bg"] = {"dark_bg", "scr"}
        BY <1>4
      <3> QED  BY <1>1, <1>2, <2>1, <3>1
    <2> QED  BY <2>2
  <1>6. I!Ancestors["btnm"] = {"btnm", "mbox", "dark_bg", "scr"}
    <2>1. ParentOf["btnm"] = "mbox"
      BY <1>2, ParentIs
    <2>2. I!Ancestors["btnm"] = {"btnm"} \cup {"mbox", "dark_bg", "scr"}
      BY <1>1, <1>2, <1>5, <2>1
    <2> QED  BY <2>2
  <1>7. CASE o \notin {"scr", "main_win", "dark_bg", "mbox", "btnm"}
    <2>1. ParentOf[o] = "main_win"
      BY <1>7, ParentIs
    <2>2. I!Ancestors[o] = {o} \cup {"main_win", "scr"}
      BY <1>1, <1>4, <1>7, <2>1
    <2> QED  BY <1>7, <2>2 DEF Lineage
  <1> QED  BY <1>3, <1>4, <1>5, <1>6, <1>7 DEF Lineage

(* What the two actions of main.c delete. *)
LEMMA BelowScreen ==
    ASSUME TypeOK
    PROVE  I!Below("scr") = live
  <1>1. live \subseteq GuiObjects
    BY DEF TypeOK, I!IndevTypeOK
  <1>2. \A x \in live : "scr" \in I!Ancestors[x]
    BY <1>1, AncestorsAre DEF Lineage
  <1> QED  BY <1>2 DEF I!Below

LEMMA BelowWindow ==
    ASSUME TypeOK, NEW m \in Modes, m \in live
    PROVE  m \in I!Below("main_win") /\ m # "main_win"
  <1>1. m \in GuiObjects /\ m \notin {"scr", "main_win", "dark_bg", "mbox", "btnm"}
    BY AppAssumption DEF GuiObjects, Menu, Buttons
  <1>2. "main_win" \in I!Ancestors[m]
    BY <1>1, AncestorsAre DEF Lineage
  <1> QED  BY <1>1, <1>2 DEF I!Below

-----------------------------------------------------------------------------
(* The scheduler while it stands in a task, and the steps outside one. *)
LEMMA NestedCall ==
    ASSUME HandlerInv, StackInv, stage \in Running, L!lv_task_handler
    PROVE  UNCHANGED taskVars
  BY DEF HandlerInv, StackInv, L!lv_task_handler, L!lvTaskVars, L!handlerVars,
         taskVars

LEMMA TaskEnds ==
    ASSUME HandlerInv, L!TaskReturns
    PROVE  HandlerInv'
  BY DEF HandlerInv, L!TaskReturns, L!AfterTask, L!BeginScan

(* Percentages and records. *)
LEMMA Quotient ==
    ASSUME NEW a \in Nat, NEW m \in Nat \ {0}, NEW n \in Nat \ {0}
    PROVE  (a % m) \div n \in Nat
  <1>1. a % m \in Nat
    OBVIOUS
  <1> QED  BY <1>1

LEMMA Product ==
    ASSUME NEW a \in Nat, NEW b \in Nat
    PROVE  a * b \in Nat
  OBVIOUS

LEMMA BarType ==
    ASSUME NEW c \in Nat, NEW n \in Nat, n > 0
    PROVE  Bounded(Percent(c, n)) \in 0 .. PERCENT
  <1>1. PERCENT \in Nat /\ U32 \in Nat \ {0}
    BY AppAssumption
  <1>2. c * PERCENT \in Nat
    BY <1>1, Product
  <1>3. Percent(c, n) \in Nat
    BY <1>1, <1>2, Quotient DEF Percent
  <1> QED  BY <1>1, <1>3 DEF Bounded

LEMMA RecordStep ==
    ASSUME NEW r \in Records, NEW lat \in Latencies, NEW ok \in BOOLEAN
    PROVE  /\ T!record_latency(r, lat, ok) \in Records
           /\ T!record_latency(r, lat, ok).read_errors
                \in {r.read_errors, r.read_errors + 1}
  <1>1. lat \in Nat
    BY AppAssumption
  <1>2. CASE ok
    BY <1>1, <1>2 DEF T!record_latency, T!IsSlow, Records
  <1>3. CASE ~ok
    <2>1. T!record_latency(r, lat, ok)
             = [r EXCEPT !.blocks_tested = r.blocks_tested + 1,
                         !.read_errors = r.read_errors + 1]
      BY <1>3 DEF T!record_latency
    <2> DEFINE q == [r EXCEPT !.blocks_tested = r.blocks_tested + 1]
    <2>2. q \in Records /\ q.read_errors = r.read_errors
      BY DEF Records
    <2>3. T!record_latency(r, lat, ok) = [q EXCEPT !.read_errors = r.read_errors + 1]
      BY <2>1 DEF Records
    <2>4. r.read_errors + 1 \in Nat
      BY DEF Records
    <2> HIDE DEF q
    <2> QED  BY <2>2, <2>3, <2>4 DEF Records
  <1> QED  BY <1>2, <1>3

LEMMA EmptyRecord ==
    T!InitResult \in Records /\ T!InitResult.read_errors = 0
  BY AppAssumption DEF T!InitResult, Records

LEMMA ErrorsOf ==
    ASSUME NEW ptr, AtMostOne(ptr)
    PROVE  /\ Errors(ptr) \in Nat
           /\ (\A r \in ptr : T!is_passed(r)) <=> Errors(ptr) = 0
  <1>1. CASE ptr = {}
    BY <1>1 DEF Errors
  <1>2. CASE ptr # {}
    <2>1. PICK r \in Records : ptr = {r}
      BY <1>2 DEF AtMostOne
    <2>2. (CHOOSE x \in ptr : TRUE) = r
      BY <2>1
    <2>3. Errors(ptr) = r.read_errors /\ r.read_errors \in Nat
      BY <1>2, <2>2 DEF Errors, Records
    <2> QED  BY <2>1, <2>3 DEF T!is_passed
  <1> QED  BY <1>1, <1>2

(* The tests of a mode. *)
TestRecords == [kind : {"seq", "btf"}, limit : Nat]

LEMMA TestsOf ==
    ASSUME NEW m \in Modes
    PROVE  \/ \E s \in TestRecords : Tests[m] = <<s>>
           \/ \E s, b \in TestRecords :
                 s.kind = "seq" /\ b.kind = "btf" /\ Tests[m] = <<s, b>>
  <1>1. /\ Sequential(FAST_TEST_SECTORS) \in TestRecords
        /\ Sequential(0) \in TestRecords
        /\ Butterfly(FAST_BUTTERFLY_ITER) \in TestRecords
        /\ Butterfly(0) \in TestRecords
    BY AppAssumption DEF Sequential, Butterfly, TestRecords
  <1>2. Sequential(FAST_TEST_SECTORS).kind = "seq" /\ Sequential(0).kind = "seq"
        /\ Butterfly(FAST_BUTTERFLY_ITER).kind = "btf" /\ Butterfly(0).kind = "btf"
    BY DEF Sequential, Butterfly
  <1>3. m \in {"SEQ_FAST", "SEQ_FULL", "BTF_FAST", "BTF_FULL", "ALL_FAST", "ALL_FULL"}
    BY AppAssumption
  <1>4. \/ Tests[m] = <<Sequential(FAST_TEST_SECTORS)>>
        \/ Tests[m] = <<Sequential(0)>>
        \/ Tests[m] = <<Butterfly(FAST_BUTTERFLY_ITER)>>
        \/ Tests[m] = <<Butterfly(0)>>
        \/ Tests[m] = <<Sequential(FAST_TEST_SECTORS), Butterfly(FAST_BUTTERFLY_ITER)>>
        \/ Tests[m] = <<Sequential(0), Butterfly(0)>>
    BY <1>3, Zenon DEF Tests
  <1> QED  BY <1>1, <1>2, <1>4

LEMMA EmptySeqIff ==
    ASSUME NEW S, NEW s \in Seq(S), s # <<>>
    PROVE  Len(s) \in Nat /\ Len(s) # 0
  OBVIOUS

(* Running a test leaves the rest of the list, which is shorter. *)
LEMMA TodoTail ==
    ASSUME TodoInv, todo # <<>>
    PROVE  /\ Head(todo) = todo[1] /\ todo[1] \in TestRecords
           /\ Tail(todo) \in Seq(TestRecords)
           /\ Len(Tail(todo)) = Len(todo) - 1 /\ Len(todo) \in {1, 2}
           /\ Tail(todo) # <<>> => todo[1].kind = "seq" /\ Tail(todo)[1].kind = "btf"
  <1>1. todo \in Seq(TestRecords) /\ Len(todo) <= 2 /\ Len(todo) \in Nat
        /\ Len(todo) # 0
    BY EmptySeqIff DEF TodoInv, TestRecords
  <1>2. Head(todo) = todo[1] /\ todo[1] \in TestRecords
        /\ Tail(todo) \in Seq(TestRecords) /\ Len(Tail(todo)) = Len(todo) - 1
        /\ Len(todo) \in {1, 2}
    <2> DEFINE n == Len(todo)
    <2>1. n \in {1, 2}
      <3>1. n \in Nat /\ n <= 2 /\ n # 0
        BY <1>1
      <3> HIDE DEF n
      <3> QED  BY <3>1
    <2>2. Head(todo) = todo[1] /\ todo[1] \in TestRecords
      BY <1>1, <2>1
    <2>3. Tail(todo) \in Seq(TestRecords) /\ Len(Tail(todo)) = Len(todo) - 1
      BY <1>1
    <2> QED  BY <2>1, <2>2, <2>3
  <1>3. Tail(todo) # <<>> => Len(todo) = 2 /\ Tail(todo)[1] = todo[2]
    BY <1>1, <1>2
  <1> QED  BY <1>2, <1>3 DEF TodoInv

-----------------------------------------------------------------------------
(* What depends on which variables. *)
LEMMA TestKept ==
    ASSUME TestInv, UNCHANGED testVars
    PROVE  TestInv'
  BY DEF TestInv, testVars

LEMMA TypeKept ==
    ASSUME TypeOK, UNCHANGED <<indevVars, stage, cycle, todo, bar, dialog, drawn, failed>>
    PROVE  TypeOK'
  BY DEF TypeOK, indevVars, I!IndevTypeOK

LEMMA PointKept ==
    ASSUME PointInv, UNCHANGED <<indevVars, stage>>
    PROVE  PointInv'
  BY DEF PointInv, NoDangling, I!NoDangling, Touchable, indevVars

LEMMA ResultsKept ==
    ASSUME TodoInv, ResultsInv, DialogInv,
           UNCHANGED <<stage, todo, seq_ptr, btf_ptr, dialog, failed, live, result>>
    PROVE  TodoInv' /\ ResultsInv' /\ DialogInv'
  BY DEF TodoInv, ResultsInv, AtMostOne, Errors, DialogInv

(* The main loop and the tasks. *)
LEMMA SchedulerInv == IInv /\ Scheduler => IInv'
<1> SUFFICES ASSUME IInv, Scheduler PROVE IInv'
  OBVIOUS
<1>1. UNCHANGED <<testVars, indevVars, guiVars>>
  BY DEF Scheduler
<1>2. HandlerInv' /\ (stage \in Running => UNCHANGED <<hpc, list, act>>)
  <2>1. CASE L!MainLoop
    BY <2>1 DEF IInv, HandlerInv, StackInv, L!MainLoop, L!lv_task_handler,
                L!lvTaskVars, L!handlerVars, L!BeginScan
  <2>2. CASE L!Scan
    BY <2>2 DEF IInv, HandlerInv, StackInv, L!Scan, L!PassInterrupter, L!Pass,
                L!Run, L!HandlerReturns
  <2>3. CASE \E t \in LvTasks : L!Elapse(t)
    BY <2>3 DEF IInv, HandlerInv, L!Elapse, L!handlerVars
  <2> QED  BY <2>1, <2>2, <2>3 DEF Scheduler
<1>3. StackInv'
  BY <1>1, <1>2 DEF IInv, StackInv, guiVars, indevVars
<1>4. TypeOK' /\ PointInv'
  BY <1>1, TypeKept, PointKept DEF IInv, guiVars
<1>5. TestInv' /\ TodoInv' /\ ResultsInv' /\ DialogInv'
  BY <1>1, TestKept, ResultsKept DEF IInv, guiVars, testVars, indevVars
<1> QED  BY <1>2, <1>3, <1>4, <1>5 DEF IInv

LEMMA AnimTaskInv == IInv /\ anim_task => IInv'
<1> SUFFICES ASSUME IInv, anim_task PROVE IInv'
  OBVIOUS
<1>1. stage = "none" /\ L!TaskReturns /\ UNCHANGED <<testVars, indevVars, guiVars>>
  BY DEF anim_task, In
<1>2. HandlerInv' /\ StackInv'
  BY <1>1, TaskEnds DEF IInv, StackInv, Running, guiVars
<1>3. TypeOK' /\ PointInv'
  BY <1>1, TypeKept, PointKept DEF IInv, guiVars
<1>4. TestInv' /\ TodoInv' /\ ResultsInv' /\ DialogInv'
  BY <1>1, TestKept, ResultsKept DEF IInv, guiVars, testVars, indevVars
<1> QED  BY <1>2, <1>3, <1>4 DEF IInv

LEMMA RefrTaskInv == IInv /\ lv_refr_task => IInv'
<1> SUFFICES ASSUME IInv, lv_refr_task PROVE IInv'
  OBVIOUS
<1>1. /\ stage = "none" /\ L!TaskReturns /\ drawn' = Scene
      /\ UNCHANGED <<testVars, indevVars, stage, cycle, todo, seq_ptr, btf_ptr,
                     bar, dialog, failed>>
  BY DEF lv_refr_task, In
<1>2. HandlerInv' /\ StackInv'
  BY <1>1, TaskEnds DEF IInv, StackInv, Running
<1>3. TypeOK'
  BY <1>1 DEF IInv, TypeOK, indevVars, I!IndevTypeOK, Scene
<1>4. PointInv' /\ TestInv'
  BY <1>1, PointKept, TestKept DEF IInv
<1>5. TodoInv' /\ ResultsInv' /\ DialogInv'
  BY <1>1, ResultsKept DEF IInv, testVars, indevVars
<1> QED  BY <1>2, <1>3, <1>4, <1>5 DEF IInv

-----------------------------------------------------------------------------
(* The touch screen. *)
LEMMA TouchPressInv ==
    ASSUME IInv, NEW o \in GuiObjects \cup {Null}, TouchPress(o)
    PROVE  IInv'
<1>1. /\ stage = "none" /\ L!TaskReturns /\ I!Press(o)
      /\ UNCHANGED <<testVars, guiVars>>
  BY DEF TouchPress, In
<1>2. o \in Touchable \cup {Null}
  <2>1. PICK event \in TouchEvents : o \in touch_read(event) \ {"released"}
    BY DEF TouchPress
  <2>2. CASE event = "leave"
    BY <2>1, <2>2 DEF touch_read
  <2>3. CASE event = "no_event"
    BY <2>1, <2>3 DEF touch_read
  <2>4. CASE event \notin {"leave", "no_event"}
    BY <2>1, <2>4 DEF touch_read, TouchEvents
  <2> QED  BY <2>2, <2>3, <2>4
<1>3. Touchable \subseteq live
  BY DEF IInv, PointInv, Touchable
<1>4. UNCHANGED <<live, stage>> /\ Touchable' = Touchable
  BY <1>1 DEF I!Press, guiVars, Touchable
<1>5. HandlerInv' /\ StackInv'
  BY <1>1, <1>4, TaskEnds DEF IInv, StackInv, Running
<1>6. TypeOK'
  <2>1. I!IndevTypeOK'
    BY <1>1 DEF IInv, TypeOK, I!IndevTypeOK, I!Press
  <2> QED  BY <1>1, <2>1 DEF IInv, TypeOK, guiVars
<1>7. PointInv'
  <2>1. {act_obj', last_obj'} \subseteq live \cup {Null} /\ reset_query' = FALSE
        /\ act_obj' = o
    BY <1>1, <1>2, <1>3 DEF IInv, TypeOK, I!IndevTypeOK, PointInv, NoDangling,
                            I!NoDangling, I!Press
  <2> QED  BY <1>2, <1>4, <2>1 DEF IInv, PointInv, NoDangling, I!NoDangling
<1>8. TestInv' /\ TodoInv' /\ ResultsInv' /\ DialogInv'
  BY <1>1, <1>4, TestKept, ResultsKept DEF IInv, guiVars, testVars
<1> QED  BY <1>5, <1>6, <1>7, <1>8 DEF IInv

LEMMA TouchReleaseInv == IInv /\ TouchRelease => IInv'
<1> SUFFICES ASSUME IInv, TouchRelease PROVE IInv'
  OBVIOUS
<1>1. /\ stage = "none" /\ L!TaskReturns /\ I!Release
      /\ UNCHANGED <<testVars, guiVars>>
  BY DEF TouchRelease, In
<1>2. UNCHANGED <<live, stage>> /\ Touchable' = Touchable
  BY <1>1 DEF I!Release, guiVars, Touchable
<1>3. HandlerInv' /\ StackInv'
  BY <1>1, <1>2, TaskEnds DEF IInv, StackInv, Running
<1>4. TypeOK'
  <2>1. I!IndevTypeOK'
    BY <1>1 DEF IInv, TypeOK, I!IndevTypeOK, I!Release
  <2> QED  BY <1>1, <2>1 DEF IInv, TypeOK, guiVars
<1>5. PointInv'
  <2>1. last_obj' \in live \cup {Null} /\ reset_query' = FALSE /\ act_obj' = Null
    BY <1>1 DEF IInv, TypeOK, I!IndevTypeOK, PointInv, NoDangling, I!NoDangling,
                I!Release
  <2> QED  BY <1>2, <2>1 DEF IInv, PointInv, NoDangling, I!NoDangling
<1>6. TestInv' /\ TodoInv' /\ ResultsInv' /\ DialogInv'
  BY <1>1, <1>2, TestKept, ResultsKept DEF IInv, guiVars, testVars
<1> QED  BY <1>3, <1>4, <1>5, <1>6 DEF IInv

(* Deleting what the input device points to asks for a reset. *)
LEMMA ReplaceSafe ==
    ASSUME TypeOK, NoDangling, NEW gone, NEW new \in SUBSET GuiObjects,
           I!Replace(gone, new)
    PROVE  /\ NoDangling' /\ I!IndevTypeOK'
           /\ reset_query = TRUE => reset_query' = TRUE
           /\ act_obj \in gone => reset_query' = TRUE
           /\ act_obj' = act_obj /\ live' = (live \ gone) \cup new
  <1>1. reset_query \in BOOLEAN /\ live \subseteq GuiObjects
        /\ {act_obj, last_obj} \subseteq GuiObjects \cup {Null}
    BY DEF TypeOK, I!IndevTypeOK
  <1>2. /\ live' = (live \ gone) \cup new
        /\ act_obj' = act_obj /\ last_obj' = last_obj
        /\ reset_query' = (reset_query \/ gone \cap {act_obj, last_obj} # {})
    BY DEF I!Replace
  <1>3. /\ reset_query = TRUE => reset_query' = TRUE
        /\ act_obj \in gone \/ last_obj \in gone => reset_query' = TRUE
        /\ reset_query' \in BOOLEAN
        /\ reset_query' = FALSE => reset_query = FALSE
    BY <1>1, <1>2
  <1>4. NoDangling'
    BY <1>1, <1>2, <1>3 DEF NoDangling, I!NoDangling
  <1>5. I!IndevTypeOK'
    BY <1>1, <1>2, <1>3 DEF I!IndevTypeOK
  <1> QED  BY <1>2, <1>3, <1>4, <1>5

LEMMA ExitInv == IInv /\ btn_exit => IInv'
<1> SUFFICES ASSUME IInv, btn_exit PROVE IInv'
  OBVIOUS
<1>1. /\ stage = "none" /\ stage' = "off"
      /\ UNCHANGED <<testVars, taskVars, indevVars, cycle, todo, seq_ptr,
                     btf_ptr, bar, dialog, drawn, failed>>
  BY DEF btn_exit, In
<1>2. TypeOK' /\ HandlerInv' /\ StackInv'
  BY <1>1 DEF IInv, TypeOK, I!IndevTypeOK, HandlerInv, StackInv, Running,
              taskVars, indevVars
<1>3. PointInv' /\ TestInv'
  BY <1>1, TestKept DEF IInv, PointInv, NoDangling, I!NoDangling, indevVars
<1>4. TodoInv' /\ ResultsInv' /\ DialogInv'
  BY <1>1 DEF IInv, TodoInv, ResultsInv, AtMostOne, DialogInv, indevVars
<1> QED  BY <1>2, <1>3, <1>4 DEF IInv

LEMMA DialogActionInv == IInv /\ mbox_action => IInv'
<1> SUFFICES ASSUME IInv, mbox_action PROVE IInv'
  OBVIOUS
<1>1. /\ stage = "none" /\ hpc = "exec" /\ list[act] = "indev_proc_task"
      /\ act_obj = "btnm" /\ stage' = "return" /\ dialog' = NoDialog
      /\ bar' = 0 /\ failed' = 0
      /\ I!Replace(I!Below("scr") \ {"scr"}, Menu)
      /\ UNCHANGED <<testVars, taskVars, cycle, todo, seq_ptr, btf_ptr, drawn>>
  BY DEF mbox_action, In
<1>2. Menu \in SUBSET GuiObjects /\ "dark_bg" \notin Menu
  BY AppAssumption DEF GuiObjects, Menu, Buttons
<1>3. /\ NoDangling' /\ I!IndevTypeOK'
      /\ reset_query = TRUE => reset_query' = TRUE
      /\ act_obj \in I!Below("scr") \ {"scr"} => reset_query' = TRUE
      /\ live' = (live \ (I!Below("scr") \ {"scr"})) \cup Menu
  BY <1>1, <1>2, ReplaceSafe DEF IInv, PointInv
<1>4. I!Below("scr") = live
  BY BelowScreen DEF IInv
<1>5. act_obj \in live \ {"scr"}
  BY <1>1 DEF IInv, PointInv, Touchable, Dialog, Null
<1>6. reset_query' = TRUE /\ "dark_bg" \notin live'
  BY <1>2, <1>3, <1>4, <1>5
<1>7. TypeOK'
  <2>1. NoDialog \in [shown : BOOLEAN, passed : BOOLEAN, total_errors : Nat,
                      tested : BOOLEAN]
    BY DEF NoDialog
  <2>2. 0 \in 0 .. PERCENT
    BY AppAssumption
  <2> QED  BY <1>1, <1>3, <2>1, <2>2 DEF IInv, TypeOK
<1>8. HandlerInv' /\ StackInv'
  BY <1>1, <1>6 DEF IInv, HandlerInv, StackInv, taskVars
<1>9. PointInv' /\ TestInv' /\ DialogInv'
  BY <1>1, <1>3, <1>6, TestKept DEF IInv, PointInv, DialogInv, NoDialog
<1>10. TodoInv' /\ ResultsInv'
  BY <1>1 DEF IInv, TodoInv, ResultsInv, AtMostOne
<1> QED  BY <1>7, <1>8, <1>9, <1>10 DEF IInv

LEMMA ActionReturnsInv == IInv /\ ActionReturns => IInv'
<1> SUFFICES ASSUME IInv, ActionReturns PROVE IInv'
  OBVIOUS
<1>1. /\ stage = "return" /\ stage' = "none" /\ L!TaskReturns
      /\ UNCHANGED <<testVars, cycle, todo, seq_ptr, btf_ptr, bar, dialog, drawn,
                     failed>>
  BY DEF ActionReturns
<1>2. reset_query = TRUE
  BY <1>1 DEF IInv, StackInv, Running
<1>3. act_obj' = Null /\ last_obj' = Null /\ reset_query' = FALSE /\ live' = live
  BY <1>2 DEF ActionReturns, I!Settle
<1>4. HandlerInv' /\ StackInv'
  BY <1>1, TaskEnds DEF IInv, StackInv, Running
<1>5. TypeOK' /\ PointInv'
  BY <1>1, <1>3 DEF IInv, TypeOK, I!IndevTypeOK, PointInv, NoDangling, I!NoDangling
<1>6. TestInv' /\ TodoInv' /\ ResultsInv' /\ DialogInv'
  BY <1>1, <1>3, TestKept DEF IInv, TodoInv, ResultsInv, AtMostOne, DialogInv
<1> QED  BY <1>4, <1>5, <1>6 DEF IInv

-----------------------------------------------------------------------------
(* The tests of a button. *)
LEMMA RunTestGuiInv ==
    ASSUME IInv, NEW m \in Modes, RunTestGui(m)
    PROVE  IInv'
<1>1. /\ stage = "none" /\ hpc = "exec" /\ list[act] = "indev_proc_task"
      /\ act_obj = m /\ bar' = 0 /\ cycle' = 0 /\ todo' = Tests[m]
      /\ seq_ptr' = {} /\ btf_ptr' = {} /\ failed' = 0 /\ stage' = "cycles"
      /\ I!Replace(I!Below("main_win") \ {"main_win"}, TestScreen)
      /\ UNCHANGED <<testVars, taskVars, dialog, drawn>>
  BY DEF RunTestGui, In
<1>2. m \notin Dialog \cup {Null, "dark_bg"}
  BY AppAssumption DEF Dialog, Null
<1>3. m \in live /\ "dark_bg" \notin live
  BY <1>1, <1>2 DEF IInv, PointInv, Touchable
<1>4. TestScreen \in SUBSET GuiObjects /\ "dark_bg" \notin TestScreen
  BY DEF GuiObjects, TestScreen
<1>5. /\ NoDangling' /\ I!IndevTypeOK'
      /\ act_obj \in I!Below("main_win") \ {"main_win"} => reset_query' = TRUE
      /\ live' = (live \ (I!Below("main_win") \ {"main_win"})) \cup TestScreen
  BY <1>1, <1>4, ReplaceSafe DEF IInv, PointInv
<1>6. reset_query' = TRUE /\ "dark_bg" \notin live'
  BY <1>1, <1>3, <1>4, <1>5, BelowWindow DEF IInv
<1>7. /\ todo' \in Seq(TestRecords) /\ Len(todo') <= 2 /\ todo' # <<>>
      /\ Len(todo') = 2 => todo'[1].kind = "seq" /\ todo'[2].kind = "btf"
  <2>1. CASE \E s \in TestRecords : Tests[m] = <<s>>
    BY <1>1, <2>1
  <2>2. CASE \E s, b \in TestRecords :
                s.kind = "seq" /\ b.kind = "btf" /\ Tests[m] = <<s, b>>
    BY <1>1, <2>2
  <2> QED  BY <2>1, <2>2, TestsOf
<1>8. TypeOK'
  <2>1. 0 \in 0 .. PERCENT /\ 0 \in 0 .. CYCLES
    BY AppAssumption
  <2> QED  BY <1>1, <1>5, <1>7, <2>1 DEF IInv, TypeOK
<1>9. HandlerInv' /\ StackInv'
  BY <1>1, <1>6 DEF IInv, HandlerInv, StackInv, taskVars
<1>10. PointInv' /\ TestInv' /\ DialogInv'
  BY <1>1, <1>3, <1>5, <1>6, TestKept DEF IInv, PointInv, DialogInv
<1>11. TodoInv'
  BY <1>1, <1>7 DEF TodoInv, TestRecords
<1>12. ResultsInv'
  BY <1>1 DEF ResultsInv, AtMostOne
<1> QED  BY <1>8, <1>9, <1>10, <1>11, <1>12 DEF IInv

LEMMA HandlerCycleInv == IInv /\ HandlerCycle => IInv'
<1> SUFFICES ASSUME IInv, HandlerCycle PROVE IInv'
  OBVIOUS
<1>1. /\ stage = "cycles" /\ cycle < CYCLES /\ cycle' = cycle + 1
      /\ UNCHANGED <<testVars, indevVars, stage, todo, seq_ptr, btf_ptr, bar,
                     dialog, drawn, failed>>
  BY DEF HandlerCycle
<1>2. UNCHANGED taskVars
  BY <1>1, NestedCall DEF IInv, HandlerCycle, Running
<1>3. TypeOK'
  <2>1. cycle' \in 0 .. CYCLES
    BY <1>1, AppAssumption DEF IInv, TypeOK
  <2> QED  BY <1>1, <2>1 DEF IInv, TypeOK, I!IndevTypeOK, indevVars
<1>4. HandlerInv' /\ StackInv'
  BY <1>1, <1>2 DEF IInv, HandlerInv, StackInv, taskVars, indevVars
<1>5. PointInv' /\ TestInv'
  BY <1>1, PointKept, TestKept DEF IInv
<1>6. TodoInv' /\ ResultsInv' /\ DialogInv'
  BY <1>1, ResultsKept DEF IInv, testVars, indevVars
<1> QED  BY <1>3, <1>4, <1>5, <1>6 DEF IInv

LEMMA TestBegins ==
    ASSUME TestInv, NEW l \in Nat, T!SeqBegin(l) \/ T!BtfBegin(l)
    PROVE  TestInv' /\ result'.read_errors = 0
  <1>1. /\ result' = T!InitResult /\ progress' = <<0, 0>> /\ cnt' = cnt
    BY DEF T!SeqBegin, T!BtfBegin, T!BeginTest, T!storageVars
  <1>2. test' \in Nat
    <2>1. CASE T!SeqBegin(l)
      BY <2>1 DEF T!SeqBegin, T!TestSectors, TestInv
    <2>2. CASE T!BtfBegin(l)
      <3>1. cnt \div BLOCKS_PER_READ \in Nat
        BY AppAssumption DEF TestInv
      <3>2. T!MaxIterations(cnt) \in Nat
        BY <3>1 DEF T!MaxIterations
      <3> QED  BY <2>2, <3>2 DEF T!BtfBegin, T!TestIterations
    <2> QED  BY <2>1, <2>2
  <1>3. sector' \in Nat /\ i' \in Nat
    BY DEF T!SeqBegin, T!BtfBegin, T!seqVars, T!btfVars, TestInv
  <1> QED  BY <1>1, <1>2, <1>3, EmptyRecord DEF TestInv

LEMMA StartTestInv == IInv /\ StartTest => IInv'
<1> SUFFICES ASSUME IInv, StartTest PROVE IInv'
  OBVIOUS
<1>1. /\ stage \in {"cycles", "next"} /\ todo # <<>>
      /\ bar' = 0 /\ stage' = "test"
      /\ UNCHANGED <<taskVars, indevVars, cycle, todo, seq_ptr, btf_ptr, dialog,
                     drawn, failed>>
  BY DEF StartTest
<1>2. Head(todo).limit \in Nat
  BY <1>1, TodoTail DEF IInv, TestRecords
<1>3. TestInv' /\ result'.read_errors = 0
  BY <1>2, TestBegins DEF IInv, StartTest
<1>4. TypeOK'
  <2>1. 0 \in 0 .. PERCENT
    BY AppAssumption
  <2> QED  BY <1>1, <2>1 DEF IInv, TypeOK, I!IndevTypeOK, indevVars
<1>5. HandlerInv' /\ StackInv'
  BY <1>1 DEF IInv, HandlerInv, StackInv, Running, taskVars, indevVars
<1>6. PointInv' /\ DialogInv'
  BY <1>1 DEF IInv, PointInv, NoDangling, I!NoDangling, DialogInv, indevVars
<1>7. TodoInv'
  BY <1>1 DEF IInv, TodoInv
<1>8. ResultsInv'
  <2>2. /\ AtMostOne(seq_ptr) /\ AtMostOne(btf_ptr)
        /\ failed = Errors(seq_ptr) + Errors(btf_ptr)
    <3>1. CASE stage = "cycles"
      <4>1. seq_ptr = {} /\ btf_ptr = {} /\ failed = 0
        BY <3>1 DEF IInv, ResultsInv
      <4>2. Errors(seq_ptr) = 0 /\ Errors(btf_ptr) = 0
        BY <4>1 DEF Errors
      <4> QED  BY <4>1, <4>2 DEF AtMostOne
    <3>2. CASE stage = "next"
      BY <3>2 DEF IInv, ResultsInv
    <3> QED  BY <1>1, <3>1, <3>2
  <2>3. Errors(seq_ptr) \in Nat /\ Errors(btf_ptr) \in Nat
    BY <2>2, ErrorsOf
  <2>4. UNCHANGED <<seq_ptr, btf_ptr, failed>>
    BY <1>1
  <2>5. AtMostOne(seq_ptr)' /\ AtMostOne(btf_ptr)'
    BY <2>2, <2>4 DEF AtMostOne
  <2>6. failed' = Errors(seq_ptr)' + Errors(btf_ptr)' + result'.read_errors
    BY <1>3, <2>2, <2>3, <2>4 DEF Errors
  <2> QED  BY <1>1, <2>5, <2>6 DEF ResultsInv
<1> QED  BY <1>3, <1>4, <1>5, <1>6, <1>7, <1>8 DEF IInv

(* A progress callback moves the bar and calls the handler, which returns. *)
LEMMA CallbackReturns ==
    ASSUME IInv, stage = "test", NEW c \in Nat, NEW n \in Nat, gui_progress(c, n)
    PROVE  UNCHANGED taskVars /\ bar' \in 0 .. PERCENT
  <1>1. CASE n > 0
    <2>1. bar' = Bounded(Percent(c, n)) /\ L!lv_task_handler
      BY <1>1 DEF gui_progress
    <2> QED  BY <1>1, <2>1, BarType, NestedCall DEF IInv, Running
  <1>2. CASE ~(n > 0)
    BY <1>2 DEF gui_progress, IInv, TypeOK
  <1> QED  BY <1>1, <1>2

LEMMA ReadStep ==
    ASSUME TestInv, T!Reads
    PROVE  /\ TestInv'
           /\ result'.read_errors \in {result.read_errors, result.read_errors + 1}
  <1>1. PICK lat \in Latencies, ok \in BOOLEAN :
           T!SeqRead(lat, ok) \/ T!BtfReadLow(lat, ok) \/ T!BtfReadHigh(lat, ok)
    BY DEF T!Reads
  <1>2. /\ result' = T!record_latency(result, lat, ok)
        /\ cnt' \in {cnt} \cup Counts \cup {0}
    BY <1>1 DEF T!SeqRead, T!BtfReadLow, T!BtfReadHigh, T!ReadAndRecord, T!Read,
                T!ReadOk, T!ReadFail
  <1>3. /\ result' \in Records /\ cnt' \in Nat
        /\ result'.read_errors \in {result.read_errors, result.read_errors + 1}
    <2>1. result \in Records /\ cnt \in Nat
      BY DEF TestInv
    <2>2. cnt' \in Nat
      BY <1>2, <2>1, AppAssumption
    <2> QED  BY <1>2, <2>1, <2>2, RecordStep
  <1>4. U32 \in Nat /\ BLOCKS_PER_READ \in Nat
    BY AppAssumption
  <1>5. sector' \in Nat /\ i' \in Nat /\ test' \in Nat /\ progress' \in Nat \X Nat
    <2>1. CASE T!SeqRead(lat, ok)
      <3>1. T!Add32(sector, BLOCKS_PER_READ) \in Nat
        BY <1>4 DEF T!Add32, TestInv
      <3> QED  BY <2>1, <3>1 DEF T!SeqRead, T!btfVars, TestInv
    <2>2. CASE T!BtfReadLow(lat, ok)
      BY <2>2 DEF T!BtfReadLow, T!seqVars, T!btfVars, TestInv
    <2>3. CASE T!BtfReadHigh(lat, ok)
      BY <2>3 DEF T!BtfReadHigh, T!seqVars, TestInv
    <2> QED  BY <1>1, <2>1, <2>2, <2>3
  <1> QED  BY <1>3, <1>5 DEF TestInv

LEMMA TestReadsInv == IInv /\ TestReads => IInv'
<1> SUFFICES ASSUME IInv, TestReads PROVE IInv'
  OBVIOUS
<1>1. /\ stage = "test" /\ T!Reads
      /\ failed' = failed + (result'.read_errors - result.read_errors)
      /\ UNCHANGED <<indevVars, stage, cycle, todo, seq_ptr, btf_ptr, dialog, drawn>>
  BY DEF TestReads
<1>2. /\ TestInv'
      /\ result'.read_errors \in {result.read_errors, result.read_errors + 1}
  BY <1>1, ReadStep DEF IInv
<1>3. UNCHANGED taskVars /\ bar' \in 0 .. PERCENT
  <2>1. progress'[1] \in Nat /\ progress'[2] \in Nat
    BY <1>2 DEF TestInv
  <2>2. CASE progress' # progress
    BY <1>1, <2>1, <2>2, CallbackReturns DEF TestReads
  <2>3. CASE progress' = progress
    BY <2>3 DEF TestReads, IInv, TypeOK
  <2> QED  BY <2>2, <2>3
<1>4. /\ failed \in Nat /\ result.read_errors \in Nat /\ result'.read_errors \in Nat
      /\ failed' \in Nat
  <2>1. failed \in Nat /\ result.read_errors \in Nat
    BY DEF IInv, TypeOK, TestInv, Records
  <2> QED  BY <1>1, <1>2, <2>1
<1>5. TypeOK'
  BY <1>1, <1>3, <1>4 DEF IInv, TypeOK, I!IndevTypeOK, indevVars
<1>6. HandlerInv' /\ StackInv'
  BY <1>1, <1>3 DEF IInv, HandlerInv, StackInv, taskVars, indevVars
<1>7. PointInv' /\ TodoInv'
  BY <1>1, PointKept DEF IInv, TodoInv
<1>8. DialogInv'
  BY <1>1 DEF IInv, DialogInv
<1>9. ResultsInv'
  <2>1. /\ AtMostOne(seq_ptr) /\ AtMostOne(btf_ptr)
        /\ failed = Errors(seq_ptr) + Errors(btf_ptr) + result.read_errors
    BY <1>1 DEF IInv, ResultsInv
  <2>2. Errors(seq_ptr) \in Nat /\ Errors(btf_ptr) \in Nat
    BY <2>1, ErrorsOf
  <2>3. failed' = Errors(seq_ptr) + Errors(btf_ptr) + result'.read_errors
    BY <1>1, <1>4, <2>1, <2>2
  <2>4. /\ Errors(seq_ptr)' = Errors(seq_ptr) /\ Errors(btf_ptr)' = Errors(btf_ptr)
        /\ AtMostOne(seq_ptr)' /\ AtMostOne(btf_ptr)'
    BY <1>1, <2>1 DEF Errors, AtMostOne
  <2>5. stage' = "test"
    BY <1>1
  <2> QED  BY <2>3, <2>4, <2>5 DEF ResultsInv
<1> QED  BY <1>2, <1>5, <1>6, <1>7, <1>8, <1>9 DEF IInv

LEMMA TestEndsInv == IInv /\ TestEnds => IInv'
<1> SUFFICES ASSUME IInv, TestEnds PROVE IInv'
  OBVIOUS
<1>1. /\ stage = "test" /\ stage' = "next" /\ todo' = Tail(todo)
      /\ gui_progress(progress'[1], progress'[2])
      /\ UNCHANGED <<indevVars, cycle, dialog, drawn, failed>>
  BY DEF TestEnds
<1>2. progress' = <<test, test>> /\ UNCHANGED <<cnt, test, sector, i, result>>
  BY DEF TestEnds, T!SeqEnd, T!BtfEnd, T!Finish, T!storageVars, T!seqVars, T!btfVars
<1>3. TestInv'
  BY <1>2 DEF IInv, TestInv
<1>4. UNCHANGED taskVars /\ bar' \in 0 .. PERCENT
  <2>1. progress'[1] \in Nat /\ progress'[2] \in Nat
    BY <1>3 DEF TestInv
  <2> QED  BY <1>1, <2>1, CallbackReturns
<1>5. /\ todo # <<>> /\ Head(todo) = todo[1] /\ todo[1] \in TestRecords
      /\ todo' \in Seq(TestRecords) /\ Len(todo') <= 2 /\ Len(todo') # 2
      /\ todo' # <<>> => todo[1].kind = "seq" /\ todo'[1].kind = "btf"
  <2>1. todo # <<>>
    BY <1>1 DEF IInv, TodoInv
  <2>2. /\ Head(todo) = todo[1] /\ todo[1] \in TestRecords
        /\ Tail(todo) \in Seq(TestRecords)
        /\ Len(Tail(todo)) = Len(todo) - 1 /\ Len(todo) \in {1, 2}
        /\ Tail(todo) # <<>> => todo[1].kind = "seq" /\ Tail(todo)[1].kind = "btf"
    BY <2>1, TodoTail DEF IInv
  <2>3. Len(Tail(todo)) <= 2 /\ Len(Tail(todo)) # 2
    <3> DEFINE n == Len(todo)
               k == Len(Tail(todo))
    <3>1. k = n - 1 /\ n \in {1, 2}
      BY <2>2
    <3> HIDE DEF n, k
    <3>2. k <= 2 /\ k # 2
      BY <3>1
    <3> QED  BY <3>2 DEF k
  <2> QED  BY <1>1, <2>1, <2>2, <2>3
<1>6. TypeOK'
  BY <1>1, <1>4, <1>5 DEF IInv, TypeOK, I!IndevTypeOK, indevVars
<1>7. HandlerInv' /\ StackInv'
  BY <1>1, <1>4 DEF IInv, HandlerInv, StackInv, Running, taskVars, indevVars
<1>8. PointInv' /\ DialogInv'
  BY <1>1 DEF IInv, PointInv, NoDangling, I!NoDangling, DialogInv, indevVars
<1>9. /\ btf_ptr = {} /\ (todo[1].kind = "seq" => seq_ptr = {})
      /\ AtMostOne(seq_ptr) /\ AtMostOne(btf_ptr)
      /\ failed = Errors(seq_ptr) + Errors(btf_ptr) + result.read_errors
      /\ result \in Records /\ result.read_errors \in Nat
  BY <1>1, <1>5 DEF IInv, TodoInv, ResultsInv, TestInv, Records
<1>10. Errors({}) = 0 /\ Errors({result}) = result.read_errors
  <2>1. (CHOOSE r \in {result} : TRUE) = result
    OBVIOUS
  <2> QED  BY <2>1 DEF Errors
<1>11. CASE todo[1].kind = "seq"
  <2>1. seq_ptr' = {result} /\ btf_ptr' = {}
    BY <1>5, <1>9, <1>11 DEF TestEnds
  <2>2. TodoInv'
    BY <1>1, <1>5, <2>1 DEF TodoInv, TestRecords
  <2>3. ResultsInv'
    <3>1. Errors(seq_ptr)' = result.read_errors /\ Errors(btf_ptr)' = 0
      BY <1>10, <2>1 DEF Errors
    <3>2. AtMostOne(seq_ptr)' /\ AtMostOne(btf_ptr)'
      BY <1>9, <2>1 DEF AtMostOne
    <3>3. failed' = Errors(seq_ptr)' + Errors(btf_ptr)'
      <4>1. Errors(seq_ptr) = 0 /\ Errors(btf_ptr) = 0
        BY <1>9, <1>11 DEF Errors
      <4> QED  BY <1>1, <1>9, <3>1, <4>1
    <3> QED  BY <1>1, <3>2, <3>3 DEF ResultsInv
  <2> QED  BY <1>3, <1>6, <1>7, <1>8, <2>2, <2>3 DEF IInv
<1>12. CASE todo[1].kind # "seq"
  <2>1. btf_ptr' = {result} /\ seq_ptr' = seq_ptr
    BY <1>5, <1>12 DEF TestEnds
  <2>2. TodoInv'
    BY <1>1, <1>5, <1>12 DEF TodoInv, TestRecords
  <2>3. ResultsInv'
    <3>1. /\ Errors(seq_ptr)' = Errors(seq_ptr)
          /\ Errors(btf_ptr)' = result.read_errors
      BY <1>10, <2>1 DEF Errors
    <3>2. AtMostOne(seq_ptr)' /\ AtMostOne(btf_ptr)'
      BY <1>9, <2>1 DEF AtMostOne
    <3>3. Errors(seq_ptr) \in Nat
      BY <1>9, ErrorsOf
    <3>4. failed' = Errors(seq_ptr)' + Errors(btf_ptr)'
      BY <1>1, <1>9, <1>10, <3>1, <3>3
    <3> QED  BY <1>1, <3>2, <3>4 DEF ResultsInv
  <2> QED  BY <1>3, <1>6, <1>7, <1>8, <2>2, <2>3 DEF IInv
<1> QED  BY <1>11, <1>12

LEMMA ShowResultsInv == IInv /\ ShowResults => IInv'
<1> SUFFICES ASSUME IInv, ShowResults PROVE IInv'
  OBVIOUS
<1>1. /\ stage = "next" /\ stage' = "return" /\ todo = <<>>
      /\ I!Replace({}, Dialog) /\ dialog' = Verdict
      /\ cycle' = 0 /\ seq_ptr' = {} /\ btf_ptr' = {}
      /\ UNCHANGED <<testVars, taskVars, todo, bar, drawn, failed>>
  BY DEF ShowResults
<1>2. /\ NoDangling' /\ I!IndevTypeOK' /\ reset_query' = TRUE
      /\ live' = live \cup Dialog
  <2>1. Dialog \in SUBSET GuiObjects
    BY DEF GuiObjects
  <2>2. reset_query = TRUE
    BY <1>1 DEF IInv, StackInv, Running
  <2>3. TypeOK /\ NoDangling
    BY DEF IInv, PointInv
  <2>4. /\ NoDangling' /\ I!IndevTypeOK'
        /\ reset_query = TRUE => reset_query' = TRUE
        /\ live' = (live \ {}) \cup Dialog
    BY <1>1, <2>1, <2>3, ReplaceSafe
  <2> QED  BY <2>2, <2>4
<1>3. /\ AtMostOne(seq_ptr) /\ AtMostOne(btf_ptr)
      /\ failed = Errors(seq_ptr) + Errors(btf_ptr)
  BY <1>1 DEF IInv, ResultsInv
<1>4. /\ Errors(seq_ptr) \in Nat /\ Errors(btf_ptr) \in Nat
      /\ (\A r \in seq_ptr : T!is_passed(r)) <=> Errors(seq_ptr) = 0
      /\ (\A r \in btf_ptr : T!is_passed(r)) <=> Errors(btf_ptr) = 0
  BY <1>3, ErrorsOf
<1>5. /\ dialog'.total_errors = failed' /\ dialog'.total_errors \in Nat
      /\ dialog'.passed = TRUE <=> failed' = 0
      /\ dialog' \in [shown : BOOLEAN, passed : BOOLEAN, total_errors : Nat,
                      tested : BOOLEAN]
  <2> DEFINE ok == \A r \in seq_ptr \cup btf_ptr : T!is_passed(r)
             read == \A r \in seq_ptr \cup btf_ptr : r.blocks_tested > 0
             sum == Errors(seq_ptr) + Errors(btf_ptr)
  <2>1. dialog' = [shown |-> TRUE, passed |-> ok, total_errors |-> sum,
                   tested |-> read]
    BY <1>1 DEF Verdict
  <2>2. ok <=> sum = 0
    <3>1. ok <=> Errors(seq_ptr) = 0 /\ Errors(btf_ptr) = 0
      BY <1>4
    <3> QED  BY <1>4, <3>1
  <2>3. sum \in Nat /\ failed' = sum
    BY <1>1, <1>3, <1>4
  <2>4. ok \in BOOLEAN /\ read \in BOOLEAN
    OBVIOUS
  <2> HIDE DEF ok, read, sum
  <2> QED  BY <2>1, <2>2, <2>3, <2>4
<1>6. TypeOK'
  <2>1. 0 \in 0 .. CYCLES
    BY AppAssumption
  <2> QED  BY <1>1, <1>2, <1>5, <2>1 DEF IInv, TypeOK
<1>7. HandlerInv' /\ StackInv'
  BY <1>1, <1>2 DEF IInv, HandlerInv, StackInv, Running, taskVars
<1>8. PointInv' /\ DialogInv'
  BY <1>1, <1>2, <1>5 DEF PointInv, DialogInv, Dialog
<1>9. TestInv' /\ TodoInv' /\ ResultsInv'
  BY <1>1, TestKept DEF IInv, TodoInv, ResultsInv, AtMostOne
<1> QED  BY <1>6, <1>7, <1>8, <1>9 DEF IInv

LEMMA StutterInv == IInv /\ UNCHANGED vars => IInv'
<1> SUFFICES ASSUME IInv, UNCHANGED vars PROVE IInv'
  OBVIOUS
<1>1. UNCHANGED <<testVars, taskVars, indevVars, guiVars>>
  BY DEF vars
<1>2. HandlerInv' /\ StackInv'
  BY <1>1 DEF IInv, HandlerInv, StackInv, taskVars, indevVars, guiVars
<1>3. TypeOK' /\ PointInv'
  BY <1>1, TypeKept, PointKept DEF IInv, guiVars
<1>4. TestInv' /\ TodoInv' /\ ResultsInv' /\ DialogInv'
  BY <1>1, TestKept, ResultsKept DEF IInv, guiVars, testVars, indevVars
<1> QED  BY <1>2, <1>3, <1>4 DEF IInv

-----------------------------------------------------------------------------
LEMMA InitInv == Init => IInv
<1> SUFFICES ASSUME Init PROVE IInv
  OBVIOUS
<1>1. TestInv
  <2>1. T!ZeroResult \in Records
    BY AppAssumption DEF T!ZeroResult, T!InitResult, Records
  <2>2. cnt \in Nat
    BY AppAssumption DEF Init, T!Init
  <2> QED  BY <2>1, <2>2 DEF Init, T!Init, TestInv
<1>2. TypeOK
  <2>1. {"scr"} \cup Menu \subseteq GuiObjects
    BY DEF GuiObjects
  <2>2. 0 \in 0 .. PERCENT /\ 0 \in 0 .. CYCLES /\ Len(todo) <= 2
    BY AppAssumption DEF Init
  <2>3. NoDialog \in [shown : BOOLEAN, passed : BOOLEAN, total_errors : Nat,
                      tested : BOOLEAN]
    BY DEF NoDialog
  <2> QED  BY <2>1, <2>2, <2>3 DEF Init, TypeOK, I!IndevInit, I!IndevTypeOK
<1>3. HandlerInv /\ StackInv
  BY DEF Init, HandlerInv, StackInv, Running
<1>4. PointInv
  <2>1. "dark_bg" \notin live
    BY AppAssumption DEF Init, Menu, Buttons
  <2> QED  BY <2>1 DEF Init, I!IndevInit, PointInv, NoDangling, I!NoDangling
<1>5. DialogInv
  BY DEF Init, DialogInv, NoDialog
<1>6. TodoInv /\ ResultsInv
  BY DEF Init, TodoInv, ResultsInv, AtMostOne
<1> QED  BY <1>1, <1>2, <1>3, <1>4, <1>5, <1>6 DEF IInv

LEMMA StepInv == IInv /\ [Next]_vars => IInv'
<1> SUFFICES ASSUME IInv, [Next]_vars PROVE IInv'
  OBVIOUS
<1>1. CASE Scheduler \/ anim_task \/ lv_refr_task
  BY <1>1, SchedulerInv, AnimTaskInv, RefrTaskInv
<1>2. CASE Touch
  BY <1>2, TouchPressInv, TouchReleaseInv, DialogActionInv, RunTestGuiInv, ExitInv
     DEF Touch
<1>3. CASE Action
  BY <1>3, HandlerCycleInv, StartTestInv, TestReadsInv, TestEndsInv,
     ShowResultsInv, ActionReturnsInv DEF Action
<1>4. CASE UNCHANGED vars
  BY <1>4, StutterInv
<1> QED  BY <1>1, <1>2, <1>3, <1>4 DEF Next

(* Every step of the scheduler, the user and the program keeps the         *)
(* inductive invariant.                                                    *)
THEOREM Invariance == Spec => []IInv
<1>1. Init => IInv
  BY InitInv
<1>2. IInv /\ [Next]_vars => IInv'
  BY StepInv
<1> QED  BY <1>1, <1>2, PTL DEF Spec

(* Button actions that run the scheduler, delete objects and block leave   *)
(* the program's state in one piece: types hold, an action always stands   *)
(* in the input task, and the input device never keeps a pointer to an     *)
(* object that is gone without a reset pending.                            *)
THEOREM StackIsSound == Spec => []StackSound
<1>1. IInv => StackSound
  <2> SUFFICES ASSUME IInv PROVE StackSound
    OBVIOUS
  <2>1. ActionOnStack
    BY DEF IInv, HandlerInv, StackInv, Running, ActionOnStack
  <2> QED  BY <2>1 DEF IInv, PointInv, StackSound
<1> QED  BY <1>1, Invariance, PTL

(* display_results_gui: every failed read of the run is in the count the   *)
(* dialog shows, and the verdict is PASSED exactly when there was none, in *)
(* a run of one test or of two.                                            *)
THEOREM DialogIsHonest == Spec => []DialogTellsErrors
<1>1. IInv => DialogTellsErrors
  <2> SUFFICES ASSUME IInv, dialog.shown
               PROVE  dialog.total_errors = failed /\ (dialog.passed <=> failed = 0)
    BY DEF DialogTellsErrors
  <2>1. dialog.shown \in BOOLEAN /\ dialog.passed \in BOOLEAN
    BY DEF IInv, TypeOK
  <2>2. dialog.shown = TRUE
    BY <2>1
  <2> QED  BY <2>1, <2>2 DEF IInv, DialogInv
<1> QED  BY <1>1, Invariance, PTL
=============================================================================
