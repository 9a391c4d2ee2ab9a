------------------------------- MODULE LvTask -------------------------------
(***************************************************************************)
(* The task scheduler of LVGL (bdk/libs/lvgl/lv_misc/lv_task.c), on which  *)
(* everything after boot runs: main.c calls lv_task_handler for ever, and  *)
(* the handler calls the tasks that are due, the button actions of main.c  *)
(* among them.                                                             *)
(*                                                                         *)
(* Code                                     Model                          *)
(* _lv_task_ll                              list, a sequence               *)
(* _lv_task_act                             act, an index of list          *)
(* task_interrupter                         interrupter                    *)
(* task_handler_mutex                       mutex                          *)
(* elapsed time >= period, per task         due, moved by the clock        *)
(* end_flag: FALSE exactly when the inner   the restart of TaskReturns     *)
(*   loop is left after a task ran                                         *)
(*                                                                         *)
(* Tasks are created between two calls of the handler; nothing in this     *)
(* payload deletes one, creates one from a task, changes a priority or     *)
(* suspends the scheduler, so task_deleted and task_created never stop the *)
(* inner loop and lv_task_run stays true.  The idle percentage has no      *)
(* reader.                                                                 *)
(***************************************************************************)
EXTENDS Naturals, Sequences, FiniteSets

CONSTANTS
    Tasks,   \* the tasks of the program
    Prio     \* their priorities

LV_TASK_PRIO_OFF     == 0
LV_TASK_PRIO_MID     == 3
LV_TASK_PRIO_HIGHEST == 5

NoTask == "none"

ASSUME TasksAssumption ==
    /\ Prio \in [Tasks -> LV_TASK_PRIO_OFF .. LV_TASK_PRIO_HIGHEST]
    /\ NoTask \notin Tasks

VARIABLES list, due, mutex, act, interrupter, hpc

handlerVars == <<mutex, act, interrupter, hpc>>
lvTaskVars  == <<list, due, handlerVars>>

Created == {list[k] : k \in 1 .. Len(list)}

(***************************************************************************)
(* lv_task_create: before the first task of no higher priority, so that    *)
(* the list falls in priority and the newest of equals comes first.        *)
(***************************************************************************)
NotAbove(t) == {k \in 1 .. Len(list) : Prio[list[k]] <= Prio[t]}

(* Seeded: a new task goes behind the first of no higher priority. *)
InsertPos_After(t) ==
    IF NotAbove(t) = {} THEN Len(list) + 1
    ELSE 1 + CHOOSE k \in NotAbove(t) : \A j \in NotAbove(t) : k <= j

InsertPos(t) ==
    IF NotAbove(t) = {} THEN Len(list) + 1
    ELSE CHOOSE k \in NotAbove(t) : \A j \in NotAbove(t) : k <= j

(* A task waits for its period first, or is due at once (lv_task_ready).   *)
lv_task_create(t, ready) ==
    /\ hpc = "out"
    /\ t \in Tasks \ Created
    /\ list' = SubSeq(list, 1, InsertPos(t) - 1) \o <<t>>
                 \o SubSeq(list, InsertPos(t), Len(list))
    /\ due' = IF ready THEN due \cup {t} ELSE due
    /\ UNCHANGED <<handlerVars>>

(* The period of a task elapses, at any moment. *)
Elapse(t) ==
    /\ t \in Created \ due
    /\ due' = due \cup {t}
    /\ UNCHANGED <<list, handlerVars>>

(***************************************************************************)
(* lv_task_handler                                                         *)
(***************************************************************************)
BeginScan(from) ==
    /\ act' = 1
    /\ interrupter' = from
    /\ hpc' = "scan"

(* Seeded: a call while the handler runs is not turned away. *)
lv_task_handler_NoMutex ==
    /\ mutex' = TRUE
    /\ BeginScan(NoTask)
    /\ UNCHANGED <<list, due>>

(* A call from inside a task returns at once. *)
lv_task_handler ==
    IF mutex
    THEN UNCHANGED lvTaskVars
    ELSE /\ mutex' = TRUE
         /\ BeginScan(NoTask)
              /\ UNCHANGED <<list, due>>

AtEnd == act <= Len(list) => Prio[list[act]] = LV_TASK_PRIO_OFF

(* The highest priority always, the others unless the task that ran last   *)
(* comes later in the list and is at least as important.                   *)
MayRun(t) ==
    \/ Prio[t] = LV_TASK_PRIO_HIGHEST
    \/ interrupter # NoTask => Prio[t] > Prio[interrupter]

(* Seeded: the interrupter stays interesting after it was passed. *)
PassInterrupter_Keeps ==
    /\ hpc = "scan" /\ ~AtEnd
    /\ list[act] = interrupter
    /\ act' = act + 1
    /\ UNCHANGED <<list, due, mutex, interrupter, hpc>>

(* Here is the interrupter task. Don't execute it again. *)
PassInterrupter ==
    /\ hpc = "scan" /\ ~AtEnd
    /\ list[act] = interrupter
    /\ interrupter' = NoTask
    /\ act' = act + 1
    /\ UNCHANGED <<list, due, mutex, hpc>>

Pass ==
    /\ hpc = "scan" /\ ~AtEnd
    /\ list[act] # interrupter
    /\ ~MayRun(list[act]) \/ list[act] \notin due
    /\ act' = act + 1
    /\ UNCHANGED <<list, due, mutex, interrupter, hpc>>

(* lv_task_exec, up to the call of the task: last_run is set before. *)
Run(t) ==
    /\ hpc = "scan" /\ ~AtEnd
    /\ t = list[act] /\ t # interrupter
    /\ MayRun(t) /\ t \in due
    /\ due' = due \ {t}
    /\ hpc' = "exec"
    /\ UNCHANGED <<list, mutex, act, interrupter>>

(* Seeded: the task that ran is not remembered. *)
AfterTask_NoInterrupter(t) ==
    IF Prio[t] = LV_TASK_PRIO_HIGHEST
    THEN act' = act + 1 /\ hpc' = "scan" /\ UNCHANGED interrupter
    ELSE BeginScan(NoTask)

AfterTask(t) ==
    IF Prio[t] = LV_TASK_PRIO_HIGHEST
    THEN act' = act + 1 /\ hpc' = "scan" /\ UNCHANGED interrupter
    ELSE BeginScan(t)

(* The task returns; unless it has the highest priority, all are looked at *)
(* again from the highest.                                                 *)
TaskReturns ==
    /\ hpc = "exec"
    /\ AfterTask(list[act])
    /\ UNCHANGED <<list, due, mutex>>

HandlerReturns ==
    /\ hpc = "scan" /\ AtEnd
    /\ mutex' = FALSE
    /\ act' = 0 /\ interrupter' = NoTask
    /\ hpc' = "out"
    /\ UNCHANGED <<list, due>>

(***************************************************************************)
(* Specification: the main loop calls the handler again and again.         *)
(***************************************************************************)
Init ==
    /\ list = <<>> /\ due = {}
    /\ mutex = FALSE /\ act = 0 /\ interrupter = NoTask /\ hpc = "out"

Scan == PassInterrupter \/ Pass \/ (\E t \in Tasks : Run(t)) \/ HandlerReturns

MainLoop == hpc = "out" /\ lv_task_handler

Next ==
    \/ \E t \in Tasks, ready \in BOOLEAN : lv_task_create(t, ready)
    \/ \E t \in Tasks : Elapse(t)
    \/ MainLoop
    \/ Scan
    \/ TaskReturns

(* Tasks return and the main loop never stops; the clock owes nothing. *)
Spec == Init /\ [][Next]_lvTaskVars /\ WF_lvTaskVars(MainLoop \/ Scan \/ TaskReturns)

(***************************************************************************)
(* Properties.                                                             *)
(***************************************************************************)
(* The list falls in priority and holds each task once, whatever the order *)
(* of creation.                                                            *)
ListSorted ==
    \A j, k \in 1 .. Len(list) :
        j < k => list[j] # list[k] /\ Prio[list[j]] >= Prio[list[k]]

(* Types, and the mutex is held exactly while the handler is on the stack. *)
TypeOK ==
    /\ list \in Seq(Tasks) /\ due \subseteq Created
    /\ mutex \in BOOLEAN /\ hpc \in {"out", "scan", "exec"}
    /\ act \in 0 .. (Len(list) + 1)
    /\ interrupter \in Tasks \cup {NoTask}
    /\ mutex <=> hpc # "out"
    /\ hpc # "out" => act > 0
    /\ hpc = "exec" => act <= Len(list)

(* What the handler walks is a sorted list, and it is where it thinks.     *)
SchedulerSound == TypeOK /\ ListSorted

(* The tasks that may still run, or run. *)
Pending == {t \in due : Prio[t] # LV_TASK_PRIO_OFF}
             \cup (IF hpc = "exec" THEN {list[act]} ELSE {})

(* Every call of the handler returns to the main loop, even when tasks are *)
(* due again as soon as they have run, once only those of the middle       *)
(* priority become due, which all tasks of this program have.  (Two tasks  *)
(* of different priorities, due in turn, keep the handler for ever.)       *)
HandlerEnds ==
    <>[](\A t \in Pending : Prio[t] = LV_TASK_PRIO_MID) => (hpc # "out" ~> hpc = "out")
=============================================================================
