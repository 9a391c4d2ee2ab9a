---------------------------- MODULE LvTaskHistory ----------------------------
(***************************************************************************)
(* LvTask with the history its ordering properties speak of:               *)
(*   ran        what ran in this call of the handler                       *)
(*   dueAtCall  the tasks due when the call began                          *)
(*   waiting    those due when the inner loop began that have not run      *)
(*              since, but for the priority of the task that made the      *)
(*              loop begin again                                           *)
(*   block      the tasks run since one of another priority                *)
(* The history only watches: every step is a step of LvTask.               *)
(***************************************************************************)
EXTENDS LvTask

VARIABLES ran, dueAtCall, waiting, block

taskHistory == <<ran, dueAtCall, waiting, block>>
hVars == <<lvTaskVars, taskHistory>>

HInit ==
    Init /\ ran = {} /\ dueAtCall = {} /\ waiting = {} /\ block = {}

HCall ==
    /\ MainLoop
    /\ ran' = {} /\ block' = {}
    /\ dueAtCall' = due /\ waiting' = due

HRun(t) ==
    /\ Run(t)
    /\ ran' = ran \cup {t}
    /\ block' = {u \in block : Prio[u] = Prio[t]} \cup {t}
    /\ waiting' = waiting \ {t}
    /\ UNCHANGED dueAtCall

HTaskReturns ==
    /\ TaskReturns
    /\ waiting' = IF Prio[list[act]] = LV_TASK_PRIO_HIGHEST THEN waiting
                  ELSE {u \in due : Prio[u] # Prio[list[act]]}
    /\ UNCHANGED <<ran, dueAtCall, block>>

Unseen == PassInterrupter \/ Pass \/ HandlerReturns

HHandler ==
    \/ HCall \/ HTaskReturns
    \/ \E t \in Tasks : HRun(t)
    \/ Unseen /\ UNCHANGED taskHistory

Outside ==
    \/ \E t \in Tasks, ready \in BOOLEAN : lv_task_create(t, ready)
    \/ \E t \in Tasks : Elapse(t)

HNext ==
    \/ HHandler
    \/ Outside /\ UNCHANGED taskHistory

HSpec == HInit /\ [][HNext]_hVars /\ WF_hVars(HHandler)

(* "Run all task from the highest to the lowest priority": when a task     *)
(* starts, no task of higher priority that was due when the scan began is  *)
(* still waiting for its run; those as important as the task that made the *)
(* scan begin again have had their turn.                                   *)
HigherFirst ==
    [][\A t \in Tasks : Run(t) =>
          \A u \in waiting : Prio[u] <= Prio[t]]_hVars

(* A task runs a second time in one call only after one of another         *)
(* priority: equals cannot keep each other running, however fast the clock *)
(* runs.                                                                   *)
NoRerun == [][\A t \in Tasks : Run(t) => t \notin block]_hVars

(* Every task has its turn in the order of the priorities. *)
TurnsFair == HigherFirst /\ NoRerun

(* When the handler returns, every task due at the call has run, unless it *)
(* is turned off.                                                          *)
NoneForgotten ==
    [][HandlerReturns =>
          \A t \in dueAtCall : t \in ran \/ Prio[t] = LV_TASK_PRIO_OFF]_hVars
=============================================================================
