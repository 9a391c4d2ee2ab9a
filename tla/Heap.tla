-------------------------------- MODULE Heap --------------------------------
(***************************************************************************)
(* The heap of the payload (bdk/mem/heap.c): first fit over a doubly       *)
(* linked list of nodes that lie one behind the other from _heap.start,    *)
(* split when a block is taken and merged when one is freed.  One action   *)
(* per iteration of the two loops.                                         *)
(*                                                                         *)
(* Code                                     Model                          *)
(* hnode_t at address a                     a \in Nodes                    *)
(* ->used, ->size, ->prev, ->next           a \in used, size[a], prev[a],  *)
(*                                            next[a]                      *)
(* _heap.first                              first                          *)
(* node, size of the function running       node, want                     *)
(* external: the blocks callers hold, with  held                           *)
(*   the size they asked for                                               *)
(*                                                                         *)
(* Callers free only what they hold.  The header of a merged node stays in *)
(* memory but is not reached again.  _heap.last has no reader without      *)
(* BDK_MALLOC_NO_DEFRAG, which this build does not define.  There is no    *)
(* end of the heap: nothing in the code knows one.                         *)
(***************************************************************************)
EXTENDS Naturals, FiniteSets

CONSTANTS
    START,     \* _heap.start
    HDR,       \* sizeof(hnode_t), also the alignment
    Sizes,     \* bytes that callers ask for
    MaxHeld    \* bound: blocks held at a time

NULL == 0

ASSUME HeapAssumption ==
    /\ START \in Nat \ {NULL}
    /\ HDR \in Nat \ {0}
    /\ Sizes \subseteq Nat
    /\ MaxHeld \in Nat

VARIABLES used, size, prev, next, first, node, want, pc, held

list == <<used, size, prev, next, first>>
vars == <<list, node, want, pc, held>>

Nodes == DOMAIN size

Align(bytes) == ((bytes + HDR - 1) \div HDR) * HDR

(* The address a caller gets for node a, and the address behind node a.    *)
Payload(a) == a + HDR
End(a) == a + HDR + size[a]

(* f with f[a] = v, a new or old. *)
With(f, a, v) == [x \in (DOMAIN f) \cup {a} |-> IF x = a THEN v ELSE f[x]]
Without(f, a) == [x \in (DOMAIN f) \ {a} |-> f[x]]

(***************************************************************************)
(* _heap_alloc                                                             *)
(***************************************************************************)
(* Node a is handed out; the locals are gone. *)
Give(a, bytes) ==
    /\ used' = used \cup {a}
    /\ held' = held \cup {[addr |-> Payload(a), bytes |-> bytes]}
    /\ pc' = "idle"
    /\ node' = NULL /\ want' = 0

(* First allocation. *)
MallocFirst(bytes) ==
    /\ pc = "idle" /\ Cardinality(held) < MaxHeld
    /\ first = NULL
    /\ size' = With(size, START, Align(bytes))
    /\ prev' = With(prev, START, NULL)
    /\ next' = With(next, START, NULL)
    /\ first' = START
    /\ Give(START, bytes)

Malloc(bytes) ==
    /\ pc = "idle" /\ Cardinality(held) < MaxHeld
    /\ first # NULL
    /\ want' = bytes
    /\ node' = first
    /\ pc' = "alloc"
    /\ UNCHANGED <<list, held>>

Fits(a) == a \notin used /\ Align(want) <= size[a]

Leftover == size[node] - Align(want)

(* Seeded: the header of the new node is not subtracted. *)
SplitSize_NoHeader == Leftover

(* The size of the node made of the leftover. *)
SplitSize == Leftover - HDR

(* Enough is left over for a node of its own. *)
Split ==
    LET new == Payload(node) + Align(want)
    IN  /\ pc = "alloc" /\ Fits(node)
        /\ Leftover >= 4 * HDR
        /\ size' = With(With(size, new, SplitSize), node, Align(want))
        /\ next' = With(With(next, new, next[node]), node, new)
        /\ prev' = With(IF next[node] # NULL THEN With(prev, next[node], new)
                        ELSE prev, new, node)
        /\ Give(node, want)
        /\ UNCHANGED first

TakeWhole ==
    /\ pc = "alloc" /\ Fits(node)
    /\ Leftover < 4 * HDR
    /\ Give(node, want)
    /\ UNCHANGED <<size, prev, next, first>>

(* Seeded: the next node is looked for from the first again. *)
Advance_FromFirst ==
    /\ pc = "alloc" /\ ~Fits(node)
    /\ next[node] # NULL
    /\ node' = first
    /\ UNCHANGED <<list, want, pc, held>>

Advance ==
    /\ pc = "alloc" /\ ~Fits(node)
    /\ next[node] # NULL
    /\ node' = next[node]
    /\ UNCHANGED <<list, want, pc, held>>

(* No unused node found, create a new one. *)
Append ==
    LET new == End(node)
    IN  /\ pc = "alloc" /\ ~Fits(node)
        /\ next[node] = NULL
        /\ size' = With(size, new, Align(want))
        /\ prev' = With(prev, new, node)
        /\ next' = With(With(next, new, NULL), node, new)
        /\ Give(new, want)
        /\ UNCHANGED first

(***************************************************************************)
(* _heap_free                                                              *)
(***************************************************************************)
Free(b) ==
    /\ pc = "idle" /\ b \in held
    /\ used' = used \ {b.addr - HDR}
    /\ held' = held \ {b}
    /\ node' = first
    /\ pc' = "free"
    /\ UNCHANGED <<size, prev, next, first, want>>

Mergeable == node \notin used /\ prev[node] # NULL /\ prev[node] \notin used

(* The back pointers once node is merged into p. *)
Relink(p) ==
    Without(IF next[node] # NULL THEN With(prev, next[node], p) ELSE prev, node)

(* Seeded: one merge ends the pass. *)
AfterMerge_Stop == NULL

AfterMerge == next[node]

Merge ==
    LET p == prev[node]
    IN  /\ pc = "free" /\ node # NULL
        /\ Mergeable
        /\ size' = Without(With(size, p, size[p] + size[node] + HDR), node)
        /\ next' = Without(With(next, p, next[node]), node)
        /\ prev' = Relink(p)
        /\ node' = AfterMerge
        /\ UNCHANGED <<used, first, want, pc, held>>

Skip ==
    /\ pc = "free" /\ node # NULL
    /\ ~Mergeable
    /\ node' = next[node]
    /\ UNCHANGED <<list, want, pc, held>>

FreeReturns ==
    /\ pc = "free" /\ node = NULL
    /\ pc' = "idle"
    /\ UNCHANGED <<list, node, want, held>>

(***************************************************************************)
(* Specification: one thread, which allocates and frees as it likes.       *)
(***************************************************************************)
Init ==
    /\ used = {} /\ held = {}
    /\ size = [a \in {} |-> 0] /\ prev = [a \in {} |-> 0]
    /\ next = [a \in {} |-> 0]
    /\ first = NULL /\ node = NULL /\ want = 0 /\ pc = "idle"

Running ==
    \/ Split \/ TakeWhole \/ Advance \/ Append
    \/ Merge \/ Skip \/ FreeReturns

Next ==
    \/ \E bytes \in Sizes : MallocFirst(bytes) \/ Malloc(bytes)
    \/ \E b \in held : Free(b)
    \/ Running

Spec == Init /\ [][Next]_vars /\ WF_vars(Running)

(***************************************************************************)
(* Properties.                                                             *)
(***************************************************************************)
(* Types: the list's fields are defined on the same nodes, its pointers    *)
(* point to nodes, and so does the pointer of a running loop.              *)
TypeOK ==
    /\ Nodes \subseteq Nat \ {NULL}
    /\ used \subseteq Nodes
    /\ size \in [Nodes -> Nat]
    /\ prev \in [Nodes -> Nodes \cup {NULL}]
    /\ next \in [Nodes -> Nodes \cup {NULL}]
    /\ first = (IF Nodes = {} THEN NULL ELSE START)
    /\ Nodes # {} => START \in Nodes
    /\ node \in Nodes \cup {NULL}
    /\ want \in Nat
    /\ pc \in {"idle", "alloc", "free"}
    /\ pc = "alloc" => node # NULL
    /\ held \subseteq [addr : Nat, bytes : Nat]

(* The nodes tile the heap from its start: each begins where the one       *)
(* before it ends, and the two directions of the list agree, through every *)
(* split and merge.                                                        *)
Tiled ==
    \A a \in Nodes :
        /\ START <= a
        /\ prev[a] = NULL <=> a = START
        /\ prev[a] # NULL => next[prev[a]] = a
        /\ next[a] # NULL => next[a] = End(a) /\ prev[next[a]] = a
        /\ \A b \in Nodes : a < b => next[a] # NULL /\ End(a) <= b

(* What callers hold is theirs alone: each block is the payload of a used  *)
(* node that is large enough, no used node is without a holder, and        *)
(* neither another block nor a node's header overlaps it.                  *)
BlocksDisjoint ==
    /\ \A b \in held :
         /\ b.addr - HDR \in used
         /\ b.bytes <= size[b.addr - HDR]
         /\ \A a \in Nodes : a >= b.addr + b.bytes \/ a + HDR <= b.addr
         /\ \A c \in held : c = b \/ c.addr >= b.addr + b.bytes
                                  \/ b.addr >= c.addr + c.bytes
    /\ \A a \in used : \E b \in held : b.addr = Payload(a)

(* The heap is sound: one list over all of its memory, and every holder    *)
(* alone in its block.                                                     *)
HeapSound == Tiled /\ BlocksDisjoint

(* Between calls no two free nodes lie side by side, in whatever order     *)
(* their blocks were freed; when all are freed one free node is left.      *)
Coalesced ==
    pc = "idle" =>
        /\ \A a \in Nodes \ used : next[a] # NULL => next[a] \in used
        /\ held = {} => Cardinality(Nodes) <= 1

(* Both loops end: the list has no cycle to run round.                     *)
CallsReturn == pc # "idle" ~> pc = "idle"
=============================================================================
