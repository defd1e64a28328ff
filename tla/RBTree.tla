-------------------------------- MODULE RBTree --------------------------------
(***************************************************************************)
(* The red-black tree macros of                                            *)
(* src/originaldest/darwin/include/libkern/tree.h, of which pf's state     *)
(* tables (net/pfvar.h) are made.                                          *)
(*                                                                         *)
(* A tree is a record: its root, the left and the right link of every      *)
(* node, and its rbe_parent word.  The macros keep the color in the lowest *)
(* bit of that word: a node n stands for the address 2 * n.  Each pair of  *)
(* mirrored macros or branches is one definition with a side.              *)
(***************************************************************************)
EXTENDS Integers, Sequences

CONSTANTS
    Nodes,      \* the elements, as positive numbers
    Key         \* what cmp compares

ASSUME TreeAssumption ==
    /\ Nodes \subseteq Nat \ {0} /\ Key \in [Nodes -> Nat]

NULL == 0
RB_BLACK == 0
RB_RED == 1
Opposite(side) == IF side = "left" THEN "right" ELSE "left"

\* The side of node n on which elm belongs, by (cmp)(elm, n).
Comp(elm, n) == IF Key[elm] < Key[n] THEN "left" ELSE "right"

RB_INITIALIZER ==
    [root |-> NULL,
     link |-> [side \in {"left", "right"} |-> [n \in Nodes |-> NULL]],
     rbe_parent |-> [n \in Nodes |-> 0]]

RB_GETPARENT(t, n) == t.rbe_parent[n] \div 2
RB_GETCOLOR(t, n) == t.rbe_parent[n] % 2
RB_SETCOLOR(t, n, color) ==
    [t EXCEPT !.rbe_parent[n] = 2 * RB_GETPARENT(t, n) + color]
\* Fault: the word is assigned without its color.
ColorForgotten(t, n, parent) == [t EXCEPT !.rbe_parent[n] = 2 * parent]
RB_SETPARENT(t, n, parent) ==
    LET assigned == [t EXCEPT !.rbe_parent[n] = 2 * parent]
    IN  IF RB_GETCOLOR(t, n) = RB_RED THEN RB_SETCOLOR(assigned, n, RB_RED)
        ELSE assigned
RB_SET_BLACKRED(t, black, red) ==
    RB_SETCOLOR(RB_SETCOLOR(t, black, RB_BLACK), red, RB_RED)

SetLink(t, n, side, child) == [t EXCEPT !.link[side][n] = child]
IsBlack(t, n) == n = NULL \/ RB_GETCOLOR(t, n) = RB_BLACK

\* A new element is red.  What its entry held before is not looked at, except
\* for the color that RB_SETPARENT keeps.
RB_SET(t, elm, parent) ==
    LET placed == RB_SETPARENT(t, elm, parent)
    IN  RB_SETCOLOR(SetLink(SetLink(placed, elm, "left", NULL),
                            elm, "right", NULL), elm, RB_RED)

\* The link that leads to old is made to lead to new.
Relink(t, parent, old, new) ==
    IF parent = NULL THEN [t EXCEPT !.root = new]
    ELSE SetLink(t, parent,
                 IF t.link["left"][parent] = old THEN "left" ELSE "right", new)

\* RB_ROTATE_LEFT and RB_ROTATE_RIGHT: elm goes down to the given side.
RB_ROTATE(t, elm, side) ==
    LET tmp == t.link[Opposite(side)][elm]
        inner == t.link[side][tmp]
        moved == SetLink(t, elm, Opposite(side), inner)
        adopted == IF inner = NULL THEN moved ELSE RB_SETPARENT(moved, inner, elm)
        parent == RB_GETPARENT(t, elm)
        raised == Relink(RB_SETPARENT(adopted, tmp, parent), parent, elm, tmp)
    IN  RB_SETPARENT(SetLink(raised, tmp, side, elm), elm, tmp)

(***************************************************************************)
(* Insertion                                                               *)
(***************************************************************************)
Recolor(t, parent, gparent) == RB_SET_BLACKRED(t, parent, gparent)

RECURSIVE RB_INSERT_COLOR(_, _)
RB_INSERT_COLOR(t, elm) ==
    LET parent == RB_GETPARENT(t, elm) IN
    IF IsBlack(t, parent) THEN RB_SETCOLOR(t, t.root, RB_BLACK)
    ELSE LET gparent == RB_GETPARENT(t, parent)
             side == IF parent = t.link["left"][gparent] THEN "left" ELSE "right"
             uncle == t.link[Opposite(side)][gparent]
         IN  IF ~IsBlack(t, uncle)
             THEN RB_INSERT_COLOR(Recolor(RB_SETCOLOR(t, uncle, RB_BLACK),
                                          parent, gparent), gparent)
             ELSE LET inner == t.link[Opposite(side)][parent] = elm
                      straight == IF inner THEN RB_ROTATE(t, parent, side) ELSE t
                      upper == IF inner THEN elm ELSE parent
                      lower == IF inner THEN parent ELSE elm
                  IN  RB_INSERT_COLOR(
                          RB_ROTATE(Recolor(straight, upper, gparent),
                                    gparent, Opposite(side)), lower)

\* The way down from tmp: the node with elm's key, or NULL, and the last node
\* before it.
RECURSIVE Descend(_, _, _, _)
Descend(t, elm, tmp, parent) ==
    IF tmp = NULL \/ (tmp # NULL /\ Key[tmp] = Key[elm]) THEN <<tmp, parent>>
    ELSE Descend(t, elm, t.link[Comp(elm, tmp)][tmp], tmp)

RB_FIND(t, elm) == Descend(t, elm, t.root, NULL)[1]

\* Returns the tree and, if elm's key is taken, the element that has it.
RB_INSERT(t, elm) ==
    LET found == Descend(t, elm, t.root, NULL)
        parent == found[2]
        set == RB_SET(t, elm, parent)
        hung == IF parent = NULL THEN [set EXCEPT !.root = elm]
                ELSE SetLink(set, parent, Comp(elm, parent), elm)
    IN  IF found[1] # NULL THEN [tree |-> t, answer |-> found[1]]
        ELSE [tree |-> RB_INSERT_COLOR(hung, elm), answer |-> NULL]

(***************************************************************************)
(* Removal                                                                 *)
(***************************************************************************)
\* A red sibling goes above the parent, which then has a black one.
BlackSibling(t, parent, side) ==
    LET tmp == t.link[Opposite(side)][parent]
    IN  IF RB_GETCOLOR(t, tmp) = RB_BLACK THEN t
        ELSE RB_ROTATE(RB_SET_BLACKRED(t, tmp, parent), parent, side)
\* One of the sibling's children is red: now its outer one is.
RedOutside(t, tmp, side) ==
    LET inner == t.link[side][tmp]
        black == IF inner = NULL THEN t ELSE RB_SETCOLOR(t, inner, RB_BLACK)
    IN  IF ~IsBlack(t, t.link[Opposite(side)][tmp]) THEN t
        ELSE RB_ROTATE(RB_SETCOLOR(black, tmp, RB_RED), tmp, Opposite(side))
\* The sibling takes the color and the place of the parent.
RaiseSibling(t, parent, side) ==
    LET tmp == t.link[Opposite(side)][parent]
        outer == t.link[Opposite(side)][tmp]
        colored == RB_SETCOLOR(RB_SETCOLOR(t, tmp, RB_GETCOLOR(t, parent)),
                               parent, RB_BLACK)
    IN  RB_ROTATE(IF outer = NULL THEN colored ELSE RB_SETCOLOR(colored, outer, RB_BLACK),
                  parent, side)
BlackRoot(t) == RB_SETCOLOR(t, t.root, RB_BLACK)

RECURSIVE RB_REMOVE_COLOR(_, _, _)
RB_REMOVE_COLOR(t, parent, elm) ==
    IF elm = t.root \/ ~IsBlack(t, elm)
    THEN IF elm = NULL THEN t ELSE RB_SETCOLOR(t, elm, RB_BLACK)
    ELSE LET side == IF t.link["left"][parent] = elm THEN "left" ELSE "right"
             turned == BlackSibling(t, parent, side)
             tmp == turned.link[Opposite(side)][parent]
         IN  IF \A s \in {"left", "right"} : IsBlack(turned, turned.link[s][tmp])
             THEN RB_REMOVE_COLOR(RB_SETCOLOR(turned, tmp, RB_RED),
                                  RB_GETPARENT(turned, parent), parent)
             ELSE BlackRoot(RaiseSibling(RedOutside(turned, tmp, side), parent, side))

\* The last node from n in the direction of a side.
RECURSIVE Last(_, _, _)
Last(t, n, side) ==
    IF t.link[side][n] = NULL THEN n ELSE Last(t, t.link[side][n], side)

\* A node with at most one child is taken out of the tree.
Unlink(t, elm, child) ==
    LET parent == RB_GETPARENT(t, elm)
    IN  Relink(IF child = NULL THEN t ELSE RB_SETPARENT(t, child, parent),
               parent, elm, child)

\* Its successor takes over the entry of a removed node, color included.
TakeOver(t, old, elm) ==
    LET copied == [t EXCEPT !.link["left"][elm] = t.link["left"][old],
                            !.link["right"][elm] = t.link["right"][old],
                            !.rbe_parent[elm] = t.rbe_parent[old]]
        placed == Relink(copied, RB_GETPARENT(t, old), old, elm)
        left == RB_SETPARENT(placed, t.link["left"][old], elm)
        right == t.link["right"][old]
    IN  IF right = NULL THEN left ELSE RB_SETPARENT(left, right, elm)

RemovedFrom(t, old, elm) ==
    IF RB_GETPARENT(t, elm) = old THEN elm ELSE RB_GETPARENT(t, elm)

RB_REMOVE(t, old) ==
    LET two == t.link["left"][old] # NULL /\ t.link["right"][old] # NULL
        elm == IF two THEN Last(t, t.link["right"][old], "left") ELSE old
        child == IF t.link["left"][elm] = NULL THEN t.link["right"][elm]
                 ELSE t.link["left"][elm]
        unlinked == Unlink(t, elm, child)
        removed == IF two THEN TakeOver(unlinked, old, elm) ELSE unlinked
        parent == IF two THEN RemovedFrom(t, old, elm) ELSE RB_GETPARENT(t, elm)
    IN  [tree |-> IF RB_GETCOLOR(t, elm) = RB_BLACK
                  THEN RB_REMOVE_COLOR(removed, parent, child) ELSE removed,
         answer |-> old]

(***************************************************************************)
(* Walks                                                                   *)
(***************************************************************************)
RB_MINMAX(t, side) == IF t.root = NULL THEN NULL ELSE Last(t, t.root, side)

RECURSIVE Climb(_, _, _)
Climb(t, elm, side) ==
    LET parent == RB_GETPARENT(t, elm)
    IN  IF parent # NULL /\ elm = t.link[side][IF parent = NULL THEN elm ELSE parent]
        THEN Climb(t, parent, side) ELSE parent

Step(t, elm, side) ==
    IF t.link[side][elm] # NULL
    THEN Last(t, t.link[side][elm], Opposite(side))
    ELSE Climb(t, elm, side)
RB_NEXT(t, elm) == Step(t, elm, "right")
RB_PREV(t, elm) == Step(t, elm, "left")

\* RB_FOREACH from the first element.
RECURSIVE Foreach(_, _)
Foreach(t, x) ==
    IF x = NULL THEN <<>> ELSE <<x>> \o Foreach(t, RB_NEXT(t, x))
RB_FOREACH(t) == Foreach(t, RB_MINMAX(t, "left"))

\* RB_FOREACH_SAFE, RB_FOREACH_FROM and RB_FOREACH_REVERSE_FROM fetch the next
\* element before the body, which here removes the current one.
RECURSIVE ForeachRemoving(_, _, _)
ForeachRemoving(t, x, side) ==
    IF x = NULL THEN <<>>
    ELSE LET y == Step(t, x, side)
         IN  <<x>> \o ForeachRemoving(RB_REMOVE(t, x).tree, y, side)
===============================================================================
