------------------------------- MODULE LvIndev -------------------------------
(***************************************************************************)
(* The pointer side of LVGL: the object tree (lv_core/lv_obj.c) and what   *)
(* indev_proc_task (lv_core/lv_indev.c) remembers of the touch screen.     *)
(* The callbacks of a program may delete any object, the pressed one too;  *)
(* App says which ones it deletes.                                         *)
(*                                                                         *)
(* Code                                     Model                          *)
(* the objects that exist                   live                           *)
(* proc.act_obj, proc.last_obj,             act_obj, last_obj,             *)
(*   proc.reset_query                         reset_query                  *)
(*                                                                         *)
(* A deleted object's memory may be reused for one of the same name.       *)
(* Left out: dragging and click groups, which no object here has; signals  *)
(* that only redraw (PRESSED, PRESSING, PRESS_LOST).                       *)
(***************************************************************************)
EXTENDS Naturals

CONSTANTS
    Objects,   \* names of objects
    Screen,    \* the screen, parent of all
    Parent,    \* of every other object
    Null

VARIABLES live, act_obj, last_obj, reset_query

indevVars == <<live, act_obj, last_obj, reset_query>>

Ancestors[o \in Objects] ==
    IF o = Screen THEN {o} ELSE {o} \cup Ancestors[Parent[o]]

(* What lv_obj_del(o) deletes; lv_obj_clean(o) spares o itself. *)
Below(o) == {x \in live : o \in Ancestors[x]}

(* A callback deletes the objects `gone` and creates `new`.  Deleting what *)
(* the input device points to asks it to reset.                            *)
Replace(gone, new) ==
    /\ live' = (live \ gone) \cup new
    /\ reset_query' = (reset_query \/ gone \cap {act_obj, last_obj} # {})
    /\ UNCHANGED <<act_obj, last_obj>>

(* A reset asked for outside the task is done before the point is looked   *)
(* at.  indev_proc_press at object o, or at a point with no object: the    *)
(* pressed object follows the finger.                                      *)
Press(o) ==
    /\ act_obj' = o
    /\ last_obj' = IF o = act_obj /\ ~reset_query THEN last_obj ELSE o
    /\ reset_query' = FALSE
    /\ UNCHANGED live

(* indev_proc_release without a callback. *)
Release ==
    /\ act_obj' = Null
    /\ last_obj' = IF reset_query THEN Null ELSE last_obj
    /\ reset_query' = FALSE
    /\ UNCHANGED live

(* What follows a callback: indev_proc_release stops at once when a reset  *)
(* was asked for and forgets the pressed object otherwise; then            *)
(* indev_proc_reset_query_handler.                                         *)
Settle(released) ==
    /\ act_obj' = IF reset_query \/ released THEN Null ELSE act_obj
    /\ last_obj' = IF reset_query THEN Null ELSE last_obj
    /\ reset_query' = FALSE
    /\ UNCHANGED live

(* lv_indev_drv_register *)
IndevInit ==
    act_obj = Null /\ last_obj = Null /\ reset_query = TRUE

IndevTypeOK ==
    /\ live \subseteq Objects
    /\ {act_obj, last_obj} \subseteq Objects \cup {Null}
    /\ reset_query \in BOOLEAN

(* The input device points only to objects that exist, except between the  *)
(* deletion of one of them and the reset it asks for, when indev_proc_*    *)
(* do not look at it.                                                      *)
NoDangling == ~reset_query => {act_obj, last_obj} \subseteq live \cup {Null}
=============================================================================
