----------------------------- MODULE Windows -----------------------------
(***************************************************************************)
(* kernel/ui/window.c: the window table over the partition tree of Bsp.    *)
(* Open, close, relayout and the window-local drawing calls.  A window is   *)
(* its rectangle, or Closed; its id is its index, its name and colours are  *)
(* left out.                                                               *)
(***************************************************************************)
EXTENDS Bsp, SequencesExt

CONSTANTS MaxWindows,                   \* WM_MAX_WINDOWS
          Width, Height,                \* fb_info
          GlyphW, GlyphH,               \* the 8 by 16 font
          Deltas                        \* what bsp_resize may add to a ratio, in percent

VARIABLES windows, wm_tree, focused_window_id

winVars == <<windows, wm_tree, focused_window_id>>

WindowIds == 0 .. (MaxWindows - 1)
Rect(x, y, w, h) == [x |-> x, y |-> y, w |-> w, h |-> h]
Screen == Rect(0, 0, Width, Height)
NoRect == Rect(0, 0, 0, 0)              \* of a window that has had no layout yet
Closed == Rect(Nil, Nil, Nil, Nil)      \* in_use = 0

WinInit ==
    /\ windows = [w \in WindowIds |-> Closed]
    /\ wm_tree = BspTreeInit
    /\ focused_window_id = Nil

OpenIds(ws) == {w \in WindowIds : ws[w] # Closed}

(***************************************************************************)
(* bsp_layout: the rectangle of every leaf's window below node, in the      *)
(* order of the visits.                                                    *)
(***************************************************************************)
Share(len, ratio) == (len * ratio + 50) \div 100

Halves(n, r) ==
    LET w0 == Share(r.w, n.ratio)
        h0 == Share(r.h, n.ratio)
    IN  IF n.split_dir = "vertical"
        THEN <<[r EXCEPT !.w = w0], [r EXCEPT !.x = @ + w0, !.w = @ - w0]>>
        ELSE <<[r EXCEPT !.h = h0], [r EXCEPT !.y = @ + h0, !.h = @ - h0]>>

RECURSIVE LayoutRecurse(_, _, _)
LayoutRecurse(t, node, r) ==
    IF ValidLeaf(t, node) THEN <<[win |-> t.nodes[node].window_id, rect |-> r]>>
    ELSE IF ~ValidSplit(t, node) THEN <<>>
    ELSE LET n == t.nodes[node]
             half == Halves(n, r)
         IN  LayoutRecurse(t, n.child[1], half[1]) \o LayoutRecurse(t, n.child[2], half[2])

\* relayout_visit over bsp_layout; the borders wm_relayout then draws are pixels.
Relayout(ws, t) ==
    LET Visit(acc, v) ==
          IF acc[v.win] # Closed THEN [acc EXCEPT ![v.win] = v.rect] ELSE acc
    IN  FoldLeft(Visit, ws, LayoutRecurse(t, t.root, Screen))

(***************************************************************************)
(* The operations.                                                         *)
(***************************************************************************)
WmInit ==
    /\ windows' = [w \in WindowIds |-> Closed]
    /\ wm_tree' = BspTreeInit
    /\ focused_window_id' = Nil

FocusedOpen == focused_window_id # Nil /\ windows[focused_window_id] # Closed

\* The leaf bsp_insert_auto adds for a window in the given slot.
InsertFor(slot) ==
    IF FocusedOpen
    THEN BspInsertAuto(wm_tree, BspFind(wm_tree, focused_window_id), windows[focused_window_id], slot)
    ELSE BspInsertAuto(wm_tree, Nil, Screen, slot)

\* Mutant: the leaf stays behind when the window's task cannot be created.
MutOpenWindow(entry, made) ==
    LET free == WindowIds \ OpenIds(windows)
        slot == Min(free)
        ins == InsertFor(slot)
        opened == [windows EXCEPT ![slot] = NoRect]
    IN  IF free = {} \/ ins.leaf = Nil
        THEN UNCHANGED winVars
        ELSE IF entry /\ ~made
        THEN /\ wm_tree' = ins.tree
             /\ UNCHANGED <<windows, focused_window_id>>
        ELSE /\ wm_tree' = ins.tree
             /\ windows' = Relayout(opened, ins.tree)
             /\ focused_window_id' = slot

\* entry: the window is to have a task of its own; made: task_create found a slot.
OpenWindow(entry, made) ==
    LET free == WindowIds \ OpenIds(windows)
        slot == Min(free)
        ins == InsertFor(slot)
        opened == [windows EXCEPT ![slot] = NoRect]
    IN  IF free = {} \/ ins.leaf = Nil
        THEN UNCHANGED winVars
        ELSE IF entry /\ ~made
        THEN /\ wm_tree' = BspRemove(ins.tree, ins.leaf)
             /\ UNCHANGED <<windows, focused_window_id>>
        ELSE /\ wm_tree' = ins.tree
             /\ windows' = Relayout(opened, ins.tree)
             /\ focused_window_id' = slot

FocusAfter(w, closed) ==
    IF focused_window_id # w THEN focused_window_id
    ELSE IF OpenIds(closed) = {} THEN Nil ELSE Min(OpenIds(closed))

CloseWindow(w) ==
    LET t == BspRemove(wm_tree, BspFind(wm_tree, w))
        closed == [windows EXCEPT ![w] = Closed]
    IN  /\ windows[w] # Closed
        /\ wm_tree' = t
        /\ focused_window_id' = FocusAfter(w, closed)
        /\ windows' = Relayout(closed, t)

\* bsp_flip, bsp_rotate or bsp_resize of a node followed by wm_relayout.
Rearrange(t) ==
    /\ wm_tree' = t
    /\ windows' = Relayout(windows, t)
    /\ UNCHANGED focused_window_id

(***************************************************************************)
(* The drawing calls of a window with rectangle r: the pixels they paint.   *)
(***************************************************************************)
Pixels(r) == (r.x .. (r.x + r.w - 1)) \X (r.y .. (r.y + r.h - 1))


WinFillrect(r, x, y, w, h) ==
    LET x0 == Max({r.x + x, r.x})    x1 == Min({r.x + x + w, r.x + r.w})
        y0 == Max({r.y + y, r.y})    y1 == Min({r.y + y + h, r.y + r.h})
    IN  IF x1 <= x0 \/ y1 <= y0 THEN {} ELSE Pixels(Rect(x0, y0, x1 - x0, y1 - y0))

WinPutpixel(r, x, y) == {<<r.x + x, r.y + y>>} \cap Pixels(r)

WinClear(r) == WinFillrect(r, 0, 0, r.w, r.h)

\* The glyphs that fit whole, of a string of len characters.
WinDrawString(r, x, y, len) ==
    UNION {LET px == r.x + x + GlyphW * i
               py == r.y + y
           IN  IF px >= r.x /\ py >= r.y /\ px + GlyphW <= r.x + r.w /\ py + GlyphH <= r.y + r.h
               THEN Pixels(Rect(px, py, GlyphW, GlyphH)) ELSE {} : i \in 0 .. (len - 1)}

(***************************************************************************)
(* A window manager calls these in any order from the task it runs in.      *)
(***************************************************************************)
Open == \E entry, made \in BOOLEAN : OpenWindow(entry, made)
Close == \E w \in WindowIds : CloseWindow(w)
Flip == \E n \in NodeIds : ValidSplit(wm_tree, n) /\ Rearrange(BspFlip(wm_tree, n))
Rotate == \E n \in NodeIds : ValidSplit(wm_tree, n) /\ Rearrange(BspRotate(wm_tree, n))
Resize == \E n \in NodeIds, d \in Deltas : ValidSplit(wm_tree, n) /\ Rearrange(BspResize(wm_tree, n, d))

WinNext == WmInit \/ Open \/ Close \/ Flip \/ Rotate \/ Resize
WinSpec == WinInit /\ [][WinNext]_winVars

(***************************************************************************)
(* Properties                                                              *)
(***************************************************************************)
Leaves(t) == {i \in NodeIds : ValidLeaf(t, i)}
Splits(t) == {i \in NodeIds : ValidSplit(t, i)}

\* The table, the tree and the focus agree: every open window has exactly one
\* leaf, every leaf an open window, n windows cost 2n - 1 nodes, a split's
\* children name it as their parent, and an open window has the focus whenever
\* there is one (otherwise wm_open_window would ask for a second root and fail
\* for good).
TreeMatchesTable ==
    LET open == OpenIds(windows)
        t == wm_tree
    IN  /\ {t.nodes[i].window_id : i \in Leaves(t)} = open
        /\ Cardinality(Leaves(t)) = Cardinality(open)
        /\ Cardinality(Splits(t)) = Max({0, Cardinality(open) - 1})
        /\ \A i \in Splits(t) : \A c \in {1, 2} :
              LET k == t.nodes[i].child[c]
              IN  k \in Leaves(t) \cup Splits(t) /\ t.nodes[k].parent = i
        /\ IF open = {} THEN focused_window_id = Nil /\ t.root = Nil
           ELSE focused_window_id \in open /\ t.nodes[t.root].parent = Nil

\* The open windows tile the screen: every pixel belongs to exactly one of them,
\* after any sequence of opens (failed ones included), closes and rearrangements.
Tiled == OpenIds(windows) # {} => \A p \in Pixels(Screen) : Cardinality(
            {w \in OpenIds(windows) : p \in Pixels(windows[w])}) = 1

===========================================================================
