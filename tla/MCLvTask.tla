----------------------------- MODULE MCLvTask -----------------------------
(***************************************************************************)
(* The scheduler as a library: the highest priority, two equals (the       *)
(* program has three tasks, all equals), a lower one and a task that is    *)
(* turned off.                                                             *)
(***************************************************************************)
EXTENDS LvTaskHistory

MCTasks == {"highest", "mid1", "mid2", "low", "off"}
MCPrio  == [t \in MCTasks |->
              CASE t = "highest" -> LV_TASK_PRIO_HIGHEST
                [] t \in {"mid1", "mid2"} -> LV_TASK_PRIO_MID
                [] t = "low" -> LV_TASK_PRIO_MID - 1
                [] t = "off" -> LV_TASK_PRIO_OFF]
=============================================================================
