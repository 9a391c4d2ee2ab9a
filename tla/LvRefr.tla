------------------------------- MODULE LvRefr -------------------------------
(***************************************************************************)
(* Redrawing only what changed (lvgl lv_core/lv_obj.c, lv_refr.c, lv_vdb.c *)
(* and lv_misc/lv_area.c): the setters of an object put areas in a small   *)
(* buffer, and lv_refr_task joins them, cuts them to the size of the       *)
(* virtual display buffer, looks for the top object that covers each part, *)
(* draws from there upwards and flushes the part to the display.           *)
(*                                                                         *)
(* Code                                     Model                          *)
(* lv_obj_t: coords, ext_size, hidden,      coords[o], ext[o], o \in       *)
(*   style_p, par, child_ll (head first)      hidden, style[o], par[o],    *)
(*                                            kids[o]                      *)
(* inv_buf[0 .. inv_buf_p - 1]              inv_buf: [area, joined]        *)
(* the loop of lv_refr_task that runs:      at = "join", "areas", "rows"   *)
(*   lv_refr_join_area's, lv_refr_areas's,                                 *)
(*   lv_refr_area_with_vdb's                                               *)
(* join_in, join_from, i (from 1), row      join_in, join_from, cur, row   *)
(* external: what the display shows         frame                          *)
(*                                                                         *)
(* A pixel is the sequence of the paints on it since the last opaque one.  *)
(* lv_draw_rect is modelled by what lv_refr relies on: inside the mask, an *)
(* opaque style paints all of coords but its rounded corners, which stay   *)
(* translucent, and the shadow lies outside coords.  Every object has the  *)
(* design and signal functions of lv_obj and a style of its own; the top   *)
(* and system layers are empty; the display driver flushes at once         *)
(* (disp_flush of main.c calls lv_flush_ready) and asks for no rounding.   *)
(* A setter is one step, a refresh one step per iteration of its loops:    *)
(* there is one thread, and nothing that draws calls a setter.  The        *)
(* program makes at most MaxChanges calls.                                 *)
(*                                                                         *)
(* Init, Next and Spec carry the prefix Refr: LvglProofs extends this      *)
(* module and LvMem.                                                       *)
(***************************************************************************)
EXTENDS Integers, Sequences, FiniteSets, SequencesExt

CONSTANTS
    Scr,         \* the active screen, lv_scr_act()
    Objs,        \* the objects on it
    None,        \* NULL
    HOR_RES, VER_RES, VDB_SIZE, INV_FIFO_SIZE,
    Styles,      \* records: opaque (BOOLEAN), radius, shadow
    Spots,       \* positions <<x, y>> relative to the parent
    Dims,        \* sizes <<w, h>>
    Scenes,      \* records par, kids, coords, style: what is on the screen first
    MaxChanges   \* bound: calls of the setters

All == Objs \cup {Scr}
Areas == [x1 : Int, y1 : Int, x2 : Int, y2 : Int]
AllStyles == [opaque : BOOLEAN, radius : Nat, shadow : Nat]

ASSUME LvRefrAssumption ==
    /\ {HOR_RES, VER_RES, INV_FIFO_SIZE} \subseteq Nat \ {0}
    /\ VDB_SIZE \in Nat /\ VDB_SIZE >= HOR_RES    \* lv_conf.h:78
    /\ IsFiniteSet(Objs) /\ None \notin All
    /\ Styles \subseteq AllStyles
    /\ Spots \subseteq Int \X Int
    /\ Dims \subseteq Nat \X Nat
    /\ \A s \in Scenes :
          /\ s.par \in [All -> All \cup {None}] /\ s.par[Scr] = None
          /\ s.kids \in [All -> Seq(Objs)]
          /\ s.coords \in [All -> Areas]
          /\ s.style \in [All -> Styles]

VARIABLES coords, ext, hidden, style, par, kids,
          inv_buf, at, join_in, join_from, cur, row, frame, changes

scene == <<coords, ext, hidden, style, par, kids>>
refresh == <<at, join_in, join_from, cur, row>>
refr_vars == <<scene, inv_buf, refresh, frame, changes>>

Live == {o \in All : o = Scr \/ par[o] # None}

(***************************************************************************)
(* lv_area.c                                                               *)
(***************************************************************************)
Area(x1, y1, x2, y2) == [x1 |-> x1, y1 |-> y1, x2 |-> x2, y2 |-> y2]
Lower(a, b) == IF a < b THEN a ELSE b
Upper(a, b) == IF a < b THEN b ELSE a

lv_area_intersect(a, b) ==
    Area(Upper(a.x1, b.x1), Upper(a.y1, b.y1), Lower(a.x2, b.x2), Lower(a.y2, b.y2))
lv_area_join(a, b) ==
    Area(Lower(a.x1, b.x1), Lower(a.y1, b.y1), Upper(a.x2, b.x2), Upper(a.y2, b.y2))

(* The result of lv_area_intersect when it returns false. *)
Empty(a) == a.x1 > a.x2 \/ a.y1 > a.y2

lv_area_is_on(a, b) == ~Empty(lv_area_intersect(a, b))
lv_area_is_in(a, holder) ==
    a.x1 >= holder.x1 /\ a.y1 >= holder.y1 /\ a.x2 <= holder.x2 /\ a.y2 <= holder.y2

Width(a) == a.x2 - a.x1 + 1
Height(a) == a.y2 - a.y1 + 1
lv_area_get_size(a) == Width(a) * Height(a)

Grown(a, n) == Area(a.x1 - n, a.y1 - n, a.x2 + n, a.y2 + n)
Moved(a, x, y) == Area(a.x1 + x, a.y1 + y, a.x2 + x, a.y2 + y)
On(p, a) == p[1] \in a.x1 .. a.x2 /\ p[2] \in a.y1 .. a.y2

Screen == Area(0, 0, HOR_RES - 1, VER_RES - 1)
Pixels == (0 .. HOR_RES - 1) \X (0 .. VER_RES - 1)

(***************************************************************************)
(* What is drawn                                                           *)
(***************************************************************************)
Paints == Seq((All \X Styles) \cup {None})

Corners(o) ==
    LET a == coords[o]
        r == style[o].radius
    IN  {p \in Pixels : /\ On(p, a)
                        /\ p[1] \notin a.x1 + r .. a.x2 - r
                        /\ p[2] \notin a.y1 + r .. a.y2 - r}

(* lv_obj_design LV_DESIGN_DRAW_MAIN (lv_draw_rect) on a pixel that shows v. *)
Painted(o, p, v) ==
    IF On(p, coords[o]) /\ style[o].opaque /\ p \notin Corners(o)
    THEN << <<o, style[o]>> >>
    ELSE IF On(p, coords[o]) \/ style[o].shadow > 0
    THEN Append(v, <<o, style[o]>>)
    ELSE v

(* LV_DESIGN_COVER_CHK and the test of the opacity before it. *)
Covers(o, mask) ==
    LET a == coords[o]
        r == style[o].radius
    IN  /\ style[o].opaque
        /\ lv_area_is_in(mask, Area(a.x1 + r, a.y1, a.x2 - r, a.y2))
        /\ lv_area_is_in(mask, Area(a.x1, a.y1 + r, a.x2, a.y2 - r))

ExtCoords(o) == Grown(coords[o], ext[o])

(* What pixel p should show: everything visible, from the screen upwards.  *)
Seen(p) ==
    LET seen[o \in All, v \in Paints] ==
            IF o \in hidden \/ ~On(p, Grown(coords[o], style[o].shadow)) THEN v
            ELSE LET own == Painted(o, p, v)
                 IN  IF On(p, coords[o])
                     THEN FoldLeft(LAMBDA w, c : seen[c, w], own, Reverse(kids[o]))
                     ELSE own
    IN  seen[Scr, <<>>]

Picture == [p \in Pixels |-> Seen(p)]

(***************************************************************************)
(* lv_refr_obj, lv_refr_get_top_obj, lv_refr_obj_and_children: vdb is the  *)
(* contents of the buffer.                                                 *)
(***************************************************************************)
lv_refr_obj(obj, mask_ori, vdb) ==
    LET refr[o \in All, mask \in Areas, v \in [Pixels -> Paints]] ==
            LET outer == lv_area_intersect(mask, ExtCoords(o))
                inner == lv_area_intersect(mask, coords[o])
                drawn == [p \in Pixels |-> IF On(p, outer) THEN Painted(o, p, v[p]) ELSE v[p]]
                Child(w, c) ==
                    LET m == lv_area_intersect(inner, ExtCoords(c))
                    IN  IF Empty(m) THEN w ELSE refr[c, m, w]
            IN  IF o \in hidden \/ Empty(outer) THEN v
                ELSE IF Empty(inner) THEN drawn
                ELSE FoldLeft(Child, drawn, Reverse(kids[o]))
    IN  refr[obj, mask_ori, vdb]

(* The first child with a top object, else o itself if it covers the area. *)
lv_refr_get_top_obj(mask, obj) ==
    LET top[o \in All] ==
            LET tops == SelectSeq([i \in DOMAIN kids[o] |-> top[kids[o][i]]], LAMBDA t : t # None)
            IN  IF ~lv_area_is_in(mask, coords[o]) \/ o \in hidden THEN None
                ELSE IF tops # <<>> THEN Head(tops)
                ELSE IF Covers(o, mask) THEN o
                ELSE None
    IN  top[obj]

(* The top object, the siblings that lie over it, those over its parent... *)
lv_refr_obj_and_children(top, mask, vdb) ==
    LET from == IF top = None THEN Scr ELSE top
        younger[border \in All, v \in [Pixels -> Paints]] ==
            IF border = Scr THEN v
            ELSE LET siblings == kids[par[border]]
                     above == SubSeq(siblings, 1, SelectInSeq(siblings, LAMBDA c : c = border) - 1)
                     drawn == FoldLeft(LAMBDA w, c : lv_refr_obj(c, mask, w), v, Reverse(above))
                 IN  younger[par[border], drawn]
    IN  younger[from, lv_refr_obj(from, mask, vdb)]

(***************************************************************************)
(* lv_refr_area_with_vdb, lv_refr_area_part_vdb                            *)
(***************************************************************************)
(* Seeded: the number of rows is rounded up. *)
max_row_RoundUp(a) == Lower((VDB_SIZE + Width(a) - 1) \div Width(a), Height(a))

(* Full rows of a that the buffer holds. *)
max_row(a) == Lower(VDB_SIZE \div Width(a), Height(a))

LastRow(a) == Lower(a.y2, VER_RES - 1)

(* The part of a from its row r on that is drawn next. *)
Part(a, r) == Area(a.x1, r, a.x2, Lower(r + max_row(a) - 1, LastRow(a)))

(* What is in the buffer before: old pixels of any part. *)
Garbage == [p \in Pixels |-> <<None>>]

(* Draw a part and flush it to the display. *)
lv_refr_area_part_vdb(part) ==
    LET drawn == lv_refr_obj_and_children(lv_refr_get_top_obj(part, Scr), part, Garbage)
    IN  frame' = [p \in Pixels |-> IF On(p, part) THEN drawn[p] ELSE frame[p]]

(***************************************************************************)
(* lv_refr_join_area                                                       *)
(***************************************************************************)
Worthwhile(a, b) ==
    /\ lv_area_is_on(a, b)
    /\ lv_area_get_size(lv_area_join(a, b)) < lv_area_get_size(a) + lv_area_get_size(b)

(* Seeded: the area is marked as joined into one that did not grow. *)
Joined_NotGrown(buf, in, from) ==
    IF in # from /\ ~buf[from].joined /\ Worthwhile(buf[in].area, buf[from].area)
    THEN [buf EXCEPT ![from].joined = TRUE]
    ELSE buf

Joined(buf, in, from) ==
    IF in # from /\ ~buf[from].joined /\ Worthwhile(buf[in].area, buf[from].area)
    THEN [buf EXCEPT ![in].area = lv_area_join(@, buf[from].area), ![from].joined = TRUE]
    ELSE buf

(***************************************************************************)
(* lv_inv_area, lv_obj_invalidate                                          *)
(***************************************************************************)
Entry(a) == [area |-> a, joined |-> FALSE]

(* Seeded: when the buffer is full the new area replaces the others. *)
Saved_Replace(buf, a) ==
    IF \E i \in DOMAIN buf : lv_area_is_in(a, buf[i].area) THEN buf
    ELSE IF Len(buf) < INV_FIFO_SIZE THEN Append(buf, Entry(a))
    ELSE <<Entry(a)>>

(* Not saved when a saved area holds it; the whole screen when there is no *)
(* place left.                                                             *)
Saved(buf, a) ==
    IF \E i \in DOMAIN buf : lv_area_is_in(a, buf[i].area) THEN buf
    ELSE IF Len(buf) < INV_FIFO_SIZE THEN Append(buf, Entry(a))
    ELSE <<Entry(Screen)>>

lv_inv_area(buf, a) ==
    LET com_area == lv_area_intersect(a, Screen)
    IN  IF Empty(com_area) THEN buf ELSE Saved(buf, com_area)

(* The tree as it is at some point of a setter. *)
Tree(c, e, h, p) == [coords |-> c, ext |-> e, hidden |-> h, par |-> p]
Now == Tree(coords, ext, hidden, par)

(* The parents of o, their parents, and so on. *)
Ancestors(t, o) ==
    {q \in All : \A S \in SUBSET All :
        /\ t.par[o] \in S \cup {None}
        /\ \A s \in S : t.par[s] \in S \cup {None}
        => q \in S}

(* What is common to the areas of S. *)
Common(S) ==
    Area(Max({a.x1 : a \in S}), Max({a.y1 : a \in S}), Min({a.x2 : a \in S}), Min({a.y2 : a \in S}))

lv_obj_invalidate(buf, t, o) ==
    LET above == Ancestors(t, o)
        area_trunc == Common({Grown(t.coords[o], t.ext[o])} \cup {t.coords[q] : q \in above})
    IN  IF t.hidden \cap ({o} \cup above) # {} \/ Empty(area_trunc) THEN buf
        ELSE lv_inv_area(buf, area_trunc)

(***************************************************************************)
(* The setters of lv_obj.c                                                 *)
(***************************************************************************)
Below(o) == {o} \cup {b \in All : o \in Ancestors(Now, b)}

(* The buffer after the object was invalidated as it was and as it is.     *)
Twice(o, t) == lv_obj_invalidate(lv_obj_invalidate(inv_buf, Now, o), t, o)

Call ==
    /\ at = "idle"
    /\ changes < MaxChanges
    /\ changes' = changes + 1
    /\ UNCHANGED <<refresh, frame>>

(* coords with o and its children at <<x, y>> of q; nothing moves when it is there. *)
At(o, q, spot) ==
    LET dx == spot[1] + coords[q].x1 - coords[o].x1
        dy == spot[2] + coords[q].y1 - coords[o].y1
    IN  [b \in All |-> IF b \in Below(o) THEN Moved(coords[b], dx, dy) ELSE coords[b]]

lv_obj_set_pos(o, spot) ==
    LET there == At(o, par[o], spot)
    IN  /\ Call /\ there # coords
        /\ coords' = there
        /\ inv_buf' = Twice(o, Tree(there, ext, hidden, par))
        /\ UNCHANGED <<ext, hidden, style, par, kids>>

lv_obj_set_size(o, dim) ==
    LET a == coords[o]
        sized == [coords EXCEPT ![o] = Area(a.x1, a.y1, a.x1 + dim[1] - 1, a.y1 + dim[2] - 1)]
    IN  /\ Call /\ sized # coords
        /\ coords' = sized
        /\ inv_buf' = Twice(o, Tree(sized, ext, hidden, par))
        /\ UNCHANGED <<ext, hidden, style, par, kids>>

lv_obj_set_hidden(o, en) ==
    LET h == IF en THEN hidden \cup {o} ELSE hidden \ {o}
    IN  /\ Call
        /\ hidden' = h
        /\ inv_buf' = Twice(o, Tree(coords, ext, h, par))
        /\ UNCHANGED <<coords, ext, style, par, kids>>

(* lv_obj_set_style and lv_obj_refresh_style: the object is invalidated    *)
(* with the old extension, then LV_SIGNAL_STYLE_CHG refreshes it.          *)
lv_obj_set_style(o, st) ==
    LET e == [ext EXCEPT ![o] = st.shadow]
    IN  /\ Call
        /\ style' = [style EXCEPT ![o] = st]
        /\ ext' = e
        /\ inv_buf' = Twice(o, Tree(coords, e, hidden, par))
        /\ UNCHANGED <<coords, hidden, par, kids>>

(* Removed from its list, and put at the head of that of its new parent.   *)
lv_obj_set_parent(o, q) ==
    LET spot == <<coords[o].x1 - coords[par[o]].x1, coords[o].y1 - coords[par[o]].y1>>
        there == At(o, q, spot)
        p == [par EXCEPT ![o] = q]
        before == Tree(coords, ext, hidden, p)
        after == Tree(there, ext, hidden, p)
        removed == [kids EXCEPT ![par[o]] = Remove(@, o)]
        old == lv_obj_invalidate(inv_buf, Now, o)
        moved == IF there = coords THEN old
                 ELSE lv_obj_invalidate(lv_obj_invalidate(old, before, o), after, o)
    IN  /\ Call /\ q \notin Below(o)
        /\ par' = p
        /\ kids' = [removed EXCEPT ![q] = <<o>> \o @]
        /\ coords' = there
        /\ inv_buf' = lv_obj_invalidate(moved, after, o)
        /\ UNCHANGED <<ext, hidden, style>>

lv_obj_del(o) ==
    LET gone == Below(o)
    IN  /\ Call
        /\ inv_buf' = lv_obj_invalidate(inv_buf, Now, o)
        /\ par' = [b \in All |-> IF b \in gone THEN None ELSE par[b]]
        /\ kids' = [b \in All |-> IF b \in gone THEN <<>> ELSE Remove(kids[b], o)]
        /\ hidden' = hidden \ gone
        /\ UNCHANGED <<coords, ext, style>>

(***************************************************************************)
(* lv_refr_task                                                            *)
(***************************************************************************)
lv_refr_task ==
    /\ at = "idle"
    /\ at' = "join"
    /\ join_in' = 1 /\ join_from' = 1
    /\ UNCHANGED <<scene, inv_buf, cur, row, frame, changes>>

(* lv_refr_join_area: an iteration of the inner loop, of the outer loop,   *)
(* and its end, which begins lv_refr_areas.                                *)
JoinFrom ==
    /\ at = "join" /\ join_in <= Len(inv_buf) /\ join_from <= Len(inv_buf)
    /\ ~inv_buf[join_in].joined
    /\ inv_buf' = Joined(inv_buf, join_in, join_from)
    /\ join_from' = join_from + 1
    /\ UNCHANGED <<scene, at, join_in, cur, row, frame, changes>>

JoinNext ==
    /\ at = "join" /\ join_in <= Len(inv_buf)
    /\ inv_buf[join_in].joined \/ join_from > Len(inv_buf)
    /\ join_in' = join_in + 1
    /\ join_from' = 1
    /\ UNCHANGED <<scene, inv_buf, at, cur, row, frame, changes>>

JoinEnds ==
    /\ at = "join" /\ join_in > Len(inv_buf)
    /\ at' = "areas"
    /\ join_in' = 1 /\ join_from' = 1
    /\ cur' = 1
    /\ UNCHANGED <<scene, inv_buf, row, frame, changes>>

(* lv_refr_areas *)
SkipJoined ==
    /\ at = "areas" /\ cur <= Len(inv_buf)
    /\ inv_buf[cur].joined
    /\ cur' = cur + 1
    /\ UNCHANGED <<scene, inv_buf, at, join_in, join_from, row, frame, changes>>

lv_refr_area_with_vdb ==
    /\ at = "areas" /\ cur <= Len(inv_buf)
    /\ ~inv_buf[cur].joined
    /\ at' = "rows"
    /\ row' = inv_buf[cur].area.y1
    /\ UNCHANGED <<scene, inv_buf, join_in, join_from, cur, frame, changes>>

(* The loop over the rows, and what follows it: row_last is row - 1 then,  *)
(* since the first iteration always runs.                                  *)
Area_p == inv_buf[cur].area
RoomForAll == row + max_row(Area_p) - 1 <= LastRow(Area_p)

FullPart ==
    /\ at = "rows" /\ RoomForAll
    /\ lv_refr_area_part_vdb(Part(Area_p, row))
    /\ row' = row + max_row(Area_p)
    /\ UNCHANGED <<scene, inv_buf, at, join_in, join_from, cur, changes>>

AreaDone ==
    /\ at' = "areas"
    /\ cur' = cur + 1
    /\ row' = 0
    /\ UNCHANGED <<scene, inv_buf, join_in, join_from, changes>>

LastPart ==
    /\ at = "rows" /\ ~RoomForAll
    /\ LastRow(Area_p) # row - 1
    /\ lv_refr_area_part_vdb(Part(Area_p, row))
    /\ AreaDone

NoLastPart ==
    /\ at = "rows" /\ ~RoomForAll
    /\ LastRow(Area_p) = row - 1
    /\ AreaDone
    /\ UNCHANGED frame

(* Clean up *)
RefrReturns ==
    /\ at = "areas" /\ cur > Len(inv_buf)
    /\ at' = "idle"
    /\ inv_buf' = <<>>
    /\ cur' = 1
    /\ UNCHANGED <<scene, join_in, join_from, row, frame, changes>>

(***************************************************************************)
(* Specification                                                           *)
(***************************************************************************)
(* The program stands on a scene that has been refreshed. *)
RefrInit ==
    /\ \E s \in Scenes :
          /\ par = s.par /\ kids = s.kids /\ coords = s.coords
          /\ style = s.style /\ ext = [o \in All |-> s.style[o].shadow]
    /\ hidden = {}
    /\ inv_buf = <<>>
    /\ at = "idle" /\ join_in = 1 /\ join_from = 1 /\ cur = 1 /\ row = 0
    /\ frame = Picture
    /\ changes = 0

Setters ==
    \E o \in Live \ {Scr} :
        \/ \E spot \in Spots : lv_obj_set_pos(o, spot)
        \/ \E dim \in Dims : lv_obj_set_size(o, dim)
        \/ \E en \in BOOLEAN : lv_obj_set_hidden(o, en)
        \/ \E st \in Styles : lv_obj_set_style(o, st)
        \/ \E q \in Live : lv_obj_set_parent(o, q)
        \/ lv_obj_del(o)

Refresh ==
    \/ lv_refr_task \/ JoinFrom \/ JoinNext \/ JoinEnds
    \/ SkipJoined \/ lv_refr_area_with_vdb
    \/ FullPart \/ LastPart \/ NoLastPart \/ RefrReturns

RefrNext == Setters \/ Refresh

RefrSpec == RefrInit /\ [][RefrNext]_refr_vars

(***************************************************************************)
(* Properties                                                              *)
(***************************************************************************)
RefrTypeOK ==
    /\ coords \in [All -> Areas] /\ ext \in [All -> Nat]
    /\ hidden \subseteq All
    /\ style \in [All -> Styles]
    /\ par \in [All -> All \cup {None}]
    /\ inv_buf \in Seq([area : Areas, joined : BOOLEAN])
    /\ at \in {"idle", "join", "areas", "rows"}
    /\ {join_in, join_from, cur} \subseteq Nat \ {0}
    /\ row \in Nat
    /\ changes \in Nat

(* Area i of the buffer will be drawn, and holds pixel p on a row that has *)
(* not been drawn yet.                                                     *)
WillDraw(i, p) ==
    /\ ~inv_buf[i].joined /\ On(p, inv_buf[i].area)
    /\ at \in {"areas", "rows"} => i >= cur
    /\ at = "rows" /\ i = cur => p[2] >= row

Queued(p) == \E i \in DOMAIN inv_buf : WillDraw(i, p)

(* Whatever the display does not show as it should, a refresh that runs or *)
(* the next one will draw: the incremental drawing never leaves a stale    *)
(* pixel behind, although areas are clipped by the ancestors, left out     *)
(* when another holds them, merged when the buffer is full, joined, cut    *)
(* into parts, and drawn only from the object that covers them.            *)
StaleIsQueued == \A p \in Pixels : frame[p] # Picture[p] => Queued(p)

(* A pixel that waits to be drawn goes on waiting until a part that holds  *)
(* it is drawn and flushed: no setter, join, cut or cleanup loses it,      *)
(* neither when the buffer overflows nor when its area is joined away.     *)
NoneDropped ==
    [][\A p \in Pixels : Queued(p) =>
          Queued(p)' \/ (/\ at = "rows" /\ On(p, Part(Area_p, row))
                         /\ lv_refr_area_part_vdb(Part(Area_p, row)))]_refr_vars

(* inv_buf never holds more than it has place for, and only areas of the   *)
(* screen; between refreshes none is joined or inside an earlier one; and  *)
(* the part that is drawn lies in its area and fits the display buffer.    *)
BuffersFit ==
    /\ Len(inv_buf) <= INV_FIFO_SIZE
    /\ \A i \in DOMAIN inv_buf : ~Empty(inv_buf[i].area) /\ lv_area_is_in(inv_buf[i].area, Screen)
    /\ at = "idle" =>
          \A i \in DOMAIN inv_buf :
             /\ ~inv_buf[i].joined
             /\ \A j \in 1 .. i - 1 : ~lv_area_is_in(inv_buf[i].area, inv_buf[j].area)
    /\ at = "rows" =>
          LET part == Part(Area_p, row)
          IN  /\ lv_area_is_in(part, Area_p)
              /\ Empty(part) \/ lv_area_get_size(part) <= VDB_SIZE
=============================================================================
