-------------------------------- MODULE LvMem --------------------------------
(***************************************************************************)
(* The memory pool of LVGL (lvgl lv_misc/lv_mem.c): headers that lie in    *)
(* the pool between the blocks and say only whether an entry is used and   *)
(* how long it is, first fit, cut on allocation, joined with what follows  *)
(* when freed.  One thread; one action per iteration of the loops.         *)
(*                                                                         *)
(* Code                                     Model                          *)
(* work_mem, in units of a header           mem[u], u \in Units            *)
(* lv_mem_header_t: used, d_size            [used, d_size], d_size in      *)
(*                                            units                        *)
(* the loop that runs: lv_mem_alloc's,      pc = "alloc", "free", and      *)
(*   lv_mem_free's, lv_mem_defrag's two       "scan" and "join"            *)
(* e (e_free), e_next                       e, e_next                      *)
(* external: the pointers callers hold,     held[b]: addr, bytes           *)
(*   by what they point to                                                 *)
(* external: the block alloc or realloc     blk, bytes                     *)
(*   was called for, and its new size                                      *)
(*                                                                         *)
(* Every size is rounded to headers at the entry of a call, so that an     *)
(* entry is a whole number of units.  What a caller writes in unit i of    *)
(* its block b is <<b, i>>; the rest of the pool holds Junk.  Callers pass *)
(* pointers they hold, NULL or &zero_mem, never one they have freed.       *)
(***************************************************************************)
EXTENDS Naturals

CONSTANTS
    UNITS,     \* LV_MEM_SIZE / HDR
    HDR,       \* sizeof(lv_mem_header_t)
    Sizes,     \* bytes that callers ask for, 0 too
    Blocks,    \* names for the blocks callers hold
    Junk

NULL == UNITS          \* no unit of the pool; also no block
ZERO == UNITS + 1      \* &zero_mem

ASSUME LvMemAssumption ==
    /\ UNITS \in Nat \ {0, 1}
    /\ HDR \in Nat \ {0}
    /\ Sizes \subseteq Nat
    /\ NULL \notin Blocks

VARIABLES mem, held, pc, blk, bytes, e, e_next

call == <<pc, blk, bytes, e, e_next>>
vars == <<mem, held, call>>

Units == 0 .. UNITS - 1

Rounded(n) == (n + HDR - 1) \div HDR

Headers == [used : BOOLEAN, d_size : Nat]
Header(used, d_size) == [used |-> used, d_size |-> d_size]
Data(b, i) == [of |-> b, unit |-> i]
Contents == Headers \cup [of : Blocks, unit : Nat] \cup {Junk}

(* The unit behind entry x of memory m. *)
End(m, x) == x + 1 + m[x].d_size

(***************************************************************************)
(* ent_get_next: the entry behind x, when it has room for data.            *)
(***************************************************************************)
ent_get_next(m, x) ==
    IF End(m, x) + 1 >= UNITS THEN NULL ELSE End(m, x)

(* Seeded: a header without data is left behind. *)
ent_trunc_BareHeader(m, x, size) ==
    IF m[x].d_size = size THEN m
    ELSE [m EXCEPT ![x].d_size = size, ![x + 1 + size] = Header(FALSE, m[x].d_size - size - 1)]

(* ent_trunc: what is left over becomes a free entry, unless it would be   *)
(* only a header.                                                          *)
ent_trunc(m, x, size) ==
    IF m[x].d_size \in {size, size + 1} THEN m
    ELSE [m EXCEPT ![x].d_size = size, ![x + 1 + size] = Header(FALSE, m[x].d_size - size - 1)]

lv_mem_get_size(ptr) == IF ptr \in {NULL, ZERO} THEN 0 ELSE mem[ptr - 1].d_size

Copied(m, from, to, n) ==
    [u \in Units |-> IF u \in to .. to + n - 1 THEN m[from + (u - to)] ELSE m[u]]

(* The caller of block b writes units `from` on of what it got at ptr;     *)
(* nothing in the pool when that is ZERO, which lies outside.              *)
Filled(m, b, ptr, from, size) ==
    [u \in Units |-> IF u \in ptr + from .. ptr + size - 1 THEN Data(b, u - ptr) ELSE m[u]]

(* What b's caller wrote so far. *)
Written(b) == IF b \in DOMAIN held THEN Rounded(held[b].bytes) ELSE 0

(* held when b's caller has got ptr for n bytes. *)
Holding(b, ptr, n) ==
    [c \in DOMAIN held \cup {b} |-> IF c = b THEN [addr |-> ptr, bytes |-> n] ELSE held[c]]

Return ==
    /\ pc' = "idle" /\ blk' = NULL /\ bytes' = 0
    /\ e' = NULL /\ e_next' = NULL

(***************************************************************************)
(* lv_mem_alloc                                                            *)
(***************************************************************************)
AllocNothing(b) ==
    /\ pc = "idle" /\ b \notin DOMAIN held
    /\ 0 \in Sizes
    /\ held' = Holding(b, ZERO, 0)
    /\ UNCHANGED <<mem, call>>

(* The search for an entry begins at the first. *)
Search(b, n) ==
    /\ pc' = "alloc" /\ blk' = b /\ bytes' = n
    /\ e' = 0
    /\ UNCHANGED <<mem, held, e_next>>

Alloc(b, n) ==
    /\ pc = "idle" /\ b \notin DOMAIN held
    /\ n # 0
    /\ Search(b, n)

(* ent_alloc takes an entry that is free and large enough. *)
Fits(x, size) == ~mem[x].used /\ mem[x].d_size >= size
Taken(x, size) == [ent_trunc(mem, x, size) EXCEPT ![x].used = TRUE]

SearchOn ==
    /\ pc = "alloc" /\ ~Fits(e, Rounded(bytes))
    /\ ent_get_next(mem, e) # NULL
    /\ e' = ent_get_next(mem, e)
    /\ UNCHANGED <<mem, held, pc, blk, bytes, e_next>>

(* NULL is returned; the caller of lv_mem_realloc keeps what it has. *)
SearchFails ==
    /\ pc = "alloc" /\ ~Fits(e, Rounded(bytes))
    /\ ent_get_next(mem, e) = NULL
    /\ Return
    /\ UNCHANGED <<mem, held>>

(* lv_mem_alloc was called by a caller, or by lv_mem_realloc for a block   *)
(* that had no data: nothing is copied, and nothing given back.            *)
HasData(b) == b \in DOMAIN held /\ lv_mem_get_size(held[b].addr) # 0

Take ==
    LET size == Rounded(bytes)
    IN  /\ pc = "alloc" /\ Fits(e, size)
        /\ ~HasData(blk)
        /\ mem' = Filled(Taken(e, size), blk, e + 1, Written(blk), size)
        /\ held' = Holding(blk, e + 1, bytes)
        /\ Return

(***************************************************************************)
(* lv_mem_free                                                             *)
(***************************************************************************)
FreeNothing(b) ==
    /\ pc = "idle" /\ b \in DOMAIN held
    /\ held[b].addr = ZERO
    /\ held' = [c \in DOMAIN held \ {b} |-> held[c]]
    /\ UNCHANGED <<mem, call>>

(* Entry x of memory m is no longer used; the loop begins. *)
Release(m, x) ==
    /\ mem' = [m EXCEPT ![x].used = FALSE]
    /\ pc' = "free"
    /\ e' = x
    /\ e_next' = ent_get_next(m, x)

Free(b) ==
    /\ pc = "idle" /\ b \in DOMAIN held
    /\ held[b].addr # ZERO
    /\ Release(mem, held[b].addr - 1)
    /\ held' = [c \in DOMAIN held \ {b} |-> held[c]]
    /\ UNCHANGED <<blk, bytes>>

(* The next entry is free too. *)
Joins == e_next # NULL /\ ~mem[e_next].used

Join ==
    /\ pc \in {"free", "join"} /\ Joins
    /\ mem' = [mem EXCEPT ![e].d_size = @ + mem[e_next].d_size + 1]
    /\ e_next' = ent_get_next(mem, e_next)
    /\ UNCHANGED <<held, pc, blk, bytes, e>>

FreeReturns ==
    /\ pc = "free" /\ ~Joins
    /\ blk = NULL
    /\ Return
    /\ UNCHANGED <<mem, held>>

(***************************************************************************)
(* lv_mem_realloc                                                          *)
(***************************************************************************)
Called(b) == pc = "idle" /\ b \in DOMAIN held
OldSize(b) == lv_mem_get_size(held[b].addr)

ReallocSame(b, n) ==
    /\ Called(b)
    /\ Rounded(n) = OldSize(b)
    /\ mem' = Filled(mem, b, held[b].addr, Written(b), Rounded(n))
    /\ held' = Holding(b, held[b].addr, n)
    /\ UNCHANGED call

ReallocCut(b, n) ==
    /\ Called(b)
    /\ Rounded(n) < OldSize(b)
    /\ mem' = Filled(ent_trunc(mem, held[b].addr - 1, Rounded(n)),
                     b, held[b].addr, Written(b), Rounded(n))
    /\ held' = Holding(b, held[b].addr, n)
    /\ UNCHANGED call

ReallocMore(b, n) ==
    /\ Called(b)
    /\ Rounded(n) > OldSize(b)
    /\ Search(b, n)

(* Seeded: a header is taken off the old size. *)
Kept_LessHeader(old_size, new_size) ==
    IF new_size < old_size - 1 THEN new_size ELSE old_size - 1

(* The units that are copied to the new block. *)
Kept(old_size, new_size) == IF new_size < old_size THEN new_size ELSE old_size

(* The content moves, and the old entry is freed. *)
TakeAndCopy ==
    LET size == Rounded(bytes)
        old == held[blk].addr
    IN  /\ pc = "alloc" /\ Fits(e, size)
        /\ HasData(blk)
        /\ Release(Copied(Taken(e, size), old, e + 1, Kept(OldSize(blk), size)), old - 1)
        /\ held' = Holding(blk, e + 1, held[blk].bytes)
        /\ UNCHANGED <<blk, bytes>>

(* lv_mem_free returns to lv_mem_realloc, and that to its caller. *)
ReallocReturns ==
    /\ pc = "free" /\ ~Joins
    /\ blk # NULL
    /\ mem' = Filled(mem, blk, held[blk].addr, Written(blk), Rounded(bytes))
    /\ held' = Holding(blk, held[blk].addr, bytes)
    /\ Return

(***************************************************************************)
(* lv_mem_defrag: every free entry takes the free ones behind it.          *)
(***************************************************************************)
Defrag ==
    /\ pc = "idle"
    /\ pc' = "scan" /\ e' = 0
    /\ UNCHANGED <<mem, held, blk, bytes, e_next>>

ScanOn ==
    /\ pc = "scan" /\ e # NULL /\ mem[e].used
    /\ e' = ent_get_next(mem, e)
    /\ UNCHANGED <<mem, held, pc, blk, bytes, e_next>>

ScanFinds ==
    /\ pc = "scan" /\ e # NULL /\ ~mem[e].used
    /\ pc' = "join"
    /\ e_next' = ent_get_next(mem, e)
    /\ UNCHANGED <<mem, held, blk, bytes, e>>

(* Continue from the lastly checked entry. *)
ScanAgain ==
    /\ pc = "join" /\ ~Joins
    /\ e_next # NULL
    /\ pc' = "scan"
    /\ e' = e_next
    /\ UNCHANGED <<mem, held, blk, bytes, e_next>>

DefragReturns ==
    /\ \/ pc = "scan" /\ e = NULL
       \/ pc = "join" /\ e_next = NULL
    /\ Return
    /\ UNCHANGED <<mem, held>>

(***************************************************************************)
(* Specification                                                           *)
(***************************************************************************)
(* lv_mem_init *)
MemInit ==
    /\ mem = [u \in Units |-> IF u = 0 THEN Header(FALSE, UNITS - 1) ELSE Junk]
    /\ held = [b \in {} |-> 0]
    /\ pc = "idle" /\ blk = NULL /\ bytes = 0
    /\ e = NULL /\ e_next = NULL

MemNext ==
    \/ \E b \in Blocks : AllocNothing(b) \/ FreeNothing(b) \/ Free(b)
    \/ \E b \in Blocks, n \in Sizes :
          Alloc(b, n) \/ ReallocSame(b, n) \/ ReallocCut(b, n) \/ ReallocMore(b, n)
    \/ SearchOn \/ SearchFails \/ Take \/ TakeAndCopy
    \/ Join \/ FreeReturns \/ ReallocReturns
    \/ Defrag \/ ScanOn \/ ScanFinds \/ ScanAgain \/ DefragReturns

MemSpec == MemInit /\ [][MemNext]_vars

(***************************************************************************)
(* Properties                                                              *)
(***************************************************************************)
MemTypeOK ==
    /\ mem \in [Units -> Contents]
    /\ DOMAIN held \subseteq Blocks
    /\ held \in [DOMAIN held -> [addr : 1 .. UNITS - 1 \cup {ZERO}, bytes : Nat]]
    /\ pc \in {"idle", "alloc", "free", "scan", "join"}
    /\ blk \in Blocks \cup {NULL}
    /\ bytes \in Nat
    /\ e \in Units \cup {NULL}
    /\ e_next \in Units \cup {NULL}

(* Headers lie at the units E of memory m, from the first to the end of    *)
(* the pool, each where the data of the one before it ends.                *)
Tiles(m, E) ==
    /\ 0 \in E
    /\ \A x \in E :
          /\ m[x] \in Headers
          /\ x + 1 < UNITS
          /\ ent_get_next(m, x) \in E \/ End(m, x) = UNITS
    /\ \A x, y \in E : x < y => End(m, x) <= y

(* Entry x is the one whose data b's caller holds. *)
IsEntryOf(x, b) ==
    /\ held[b].addr = x + 1
    /\ mem[x].used
    /\ Rounded(held[b].bytes) <= mem[x].d_size

(* The entries tile the pool to its end, every block a caller holds is the *)
(* data of a used entry large enough for it, and a used entry nobody holds *)
(* has no data.  (Such headers are lost for ever: lv_mem_realloc to 0 and  *)
(* up again does not free the old entry.)                                  *)
PoolTiled ==
    \E E \in SUBSET Units :
        /\ Tiles(mem, E)
        /\ \A x \in E : mem[x].used /\ mem[x].d_size > 0 =>
              \E b \in DOMAIN held : IsEntryOf(x, b)
        /\ \A b \in DOMAIN held : held[b].addr # ZERO =>
              \E x \in E : IsEntryOf(x, b)

(* What a caller wrote in its block is there as long as it holds it,       *)
(* through every cut, join and move: no header and no other block is       *)
(* written over it, and lv_mem_realloc keeps the old content.              *)
ContentsKept ==
    \A b \in DOMAIN held : held[b].addr # ZERO =>
        \A i \in 0 .. Rounded(held[b].bytes) - 1 : mem[held[b].addr + i] = Data(b, i)
=============================================================================
