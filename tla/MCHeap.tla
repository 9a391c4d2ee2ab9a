------------------------------- MODULE MCHeap -------------------------------
(***************************************************************************)
(* Small instance of Heap: headers of 2 bytes; blocks of 1 and 9 bytes *)
(* so that a request may fit exactly, leave too little for a node, or      *)
(* leave enough for one; up to three blocks at a time.                      *)
(***************************************************************************)
EXTENDS Heap

MCSizes == {1, 9}
=============================================================================
