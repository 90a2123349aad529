------------------------------- MODULE Bsp -------------------------------
(***************************************************************************)
(* kernel/bsp.c: the binary partition tree of the tiling layout, in a      *)
(* fixed pool of nodes.  A tree is a record of the pool and the root; the   *)
(* operations are functions from trees to trees.                           *)
(*                                                                         *)
(* A node is free, a leaf or a split, and has the fields bsp.h gives that   *)
(* kind.  (The C struct also keeps the bytes of its former kind; every one  *)
(* of them is assigned again before the node's new kind reads it.)  The     *)
(* ratio of a split is a percentage: the code's float only ever holds 0.5   *)
(* and what bsp_resize makes of it.                                        *)
(***************************************************************************)
EXTENDS Integers, FiniteSetsExt

CONSTANT BspMaxNodes                    \* BSP_MAX_NODES

Nil == -1
NodeIds == 0 .. (BspMaxNodes - 1)
MinRatio == 10                          \* BSP_MIN_RATIO
MaxRatio == 90                          \* BSP_MAX_RATIO

FreeSlot == [kind |-> "free"]
Leaf(parent, w) == [kind |-> "leaf", parent |-> parent, window_id |-> w]
Split(parent, dir, ratio, child) ==
    [kind |-> "split", parent |-> parent, split_dir |-> dir, ratio |-> ratio, child |-> child]

BspTreeInit == [nodes |-> [i \in NodeIds |-> FreeSlot], root |-> Nil]

\* Where alloc_node may look, and what free_node leaves.
FreeNodes(t) == {i \in NodeIds : t.nodes[i].kind = "free"}
FreeNode(t, i) == [t EXCEPT !.nodes[i] = FreeSlot]

ValidLeaf(t, i) == i \in NodeIds /\ t.nodes[i].kind = "leaf"
ValidSplit(t, i) == i \in NodeIds /\ t.nodes[i].kind = "split"

Result(t, leaf) == [tree |-> t, leaf |-> leaf]
InsertFailed(t) == Result(t, Nil)

\* The target's index becomes the split, over its old window and the new one.
SplitLeaf(t, target, old, new, dir, second, w) ==
    [t EXCEPT !.nodes[old] = Leaf(target, t.nodes[target].window_id),
              !.nodes[new] = Leaf(target, w),
              !.nodes[target] = Split(@.parent, dir, 50, IF second THEN <<old, new>> ELSE <<new, old>>)]

\* bsp_insert; second is new_on_second_child.  Splitting takes the two lowest
\* free nodes, and gives the first back if there is no second.
BspInsert(t, target, dir, second, w) ==
    LET free == FreeNodes(t)
        old == Min(free)
        new == Min(free \ {old})
    IN  IF target = Nil
        THEN IF t.root # Nil \/ free = {} THEN InsertFailed(t)
             ELSE Result([t EXCEPT !.nodes[old] = Leaf(Nil, w), !.root = old], old)
        ELSE IF ~ValidLeaf(t, target) \/ Cardinality(free) < 2 THEN InsertFailed(t)
             ELSE Result(SplitLeaf(t, target, old, new, dir, second, w), new)

\* bsp_insert_auto: side by side if the target is at least as wide as tall.
BspInsertAuto(t, target, rect, w) ==
    BspInsert(t, target, IF rect.w >= rect.h THEN "vertical" ELSE "horizontal", TRUE, w)

Sibling(t, leaf) ==
    LET c == t.nodes[t.nodes[leaf].parent].child IN IF c[1] = leaf THEN c[2] ELSE c[1]

\* Mutant: the sibling always becomes the grandparent's first child.
MutPromote(t, parent, sibling) ==
    LET up == t.nodes[parent].parent
        t2 == [t EXCEPT !.nodes[sibling].parent = up]
    IN  IF up = Nil THEN [t2 EXCEPT !.root = sibling]
        ELSE [t2 EXCEPT !.nodes[up].child[1] = sibling]

\* The sibling takes the place of the shared parent under the grandparent.
Promote(t, parent, sibling) ==
    LET up == t.nodes[parent].parent
        t2 == [t EXCEPT !.nodes[sibling].parent = up]
    IN  IF up = Nil THEN [t2 EXCEPT !.root = sibling]
        ELSE [t2 EXCEPT !.nodes[up].child[IF t.nodes[up].child[1] = parent THEN 1 ELSE 2] = sibling]

BspRemove(t, leaf) ==
    LET parent == t.nodes[leaf].parent
    IN  IF ~ValidLeaf(t, leaf) THEN t
        ELSE IF parent = Nil THEN [FreeNode(t, leaf) EXCEPT !.root = Nil]
        ELSE FreeNode(FreeNode(Promote(t, parent, Sibling(t, leaf)), leaf), parent)

BspFlip(t, n) ==
    IF ~ValidSplit(t, n) THEN t
    ELSE [t EXCEPT !.nodes[n].child = <<@[2], @[1]>>]

BspRotate(t, n) ==
    IF ~ValidSplit(t, n) THEN t
    ELSE BspFlip([t EXCEPT !.nodes[n].split_dir = IF @ = "vertical" THEN "horizontal" ELSE "vertical"], n)

BspResize(t, n, delta) ==
    IF ~ValidSplit(t, n) THEN t
    ELSE [t EXCEPT !.nodes[n].ratio = Min({MaxRatio, Max({MinRatio, @ + delta})})]

\* bsp_find: the first leaf that holds window w.
BspFind(t, w) ==
    LET at == {i \in NodeIds : ValidLeaf(t, i) /\ t.nodes[i].window_id = w}
    IN  IF at = {} THEN Nil ELSE Min(at)
===========================================================================
