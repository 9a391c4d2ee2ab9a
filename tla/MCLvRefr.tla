------------------------------ MODULE MCLvRefr ------------------------------
(***************************************************************************)
(* Small instance of LvRefr: a screen of 4 by 3 pixels with a window, an   *)
(* object on the window and one beside it; a display buffer of one row and *)
(* a bit, and place for two invalid areas.                                 *)
(***************************************************************************)
EXTENDS LvRefr

CONSTANTS win, btn, tip

Solid == [opaque |-> TRUE, radius |-> 0, shadow |-> 0]
Round == [opaque |-> TRUE, radius |-> 1, shadow |-> 1]
Glass == [opaque |-> FALSE, radius |-> 0, shadow |-> 0]

MCStyles == {Solid, Round, Glass}
MCSpots == {<<0, 0>>, <<2, 1>>}
MCDims == {<<2, 3>>, <<3, 1>>}

MCScenes == {
    [par |-> [o \in {Scr, win, btn, tip} |->
                 CASE o = Scr -> None [] o = btn -> win [] OTHER -> Scr],
     kids |-> [o \in {Scr, win, btn, tip} |->
                 CASE o = Scr -> <<tip, win>> [] o = win -> <<btn>> [] OTHER -> <<>>],
     coords |-> [o \in {Scr, win, btn, tip} |->
                 CASE o = Scr -> Screen
                   [] o = win -> Area(0, 0, 2, 1)
                   [] o = btn -> Area(1, 0, 2, 1)
                   [] OTHER -> Area(2, 1, 3, 2)],
     style |-> [o \in {Scr, win, btn, tip} |->
                 CASE o = btn -> Round [] OTHER -> Solid]]}
=============================================================================
