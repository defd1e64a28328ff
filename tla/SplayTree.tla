------------------------------- MODULE SplayTree -------------------------------
(***************************************************************************)
(* The splay tree macros of                                                *)
(* src/originaldest/darwin/include/libkern/tree.h.  A tree is a record of  *)
(* its root and the left and right link of every node.  Each pair of       *)
(* mirrored macros or branches is one definition with a side.              *)
(***************************************************************************)
EXTENDS RBTree

\* &__node, the node on the stack that SPLAY hangs its two halves on.
Node == -1

SPLAY_INITIALIZER ==
    [root |-> NULL,
     link |-> [side \in {"left", "right"} |->
                  [n \in Nodes \cup {Node} |-> NULL]]]
SPLAY_EMPTY(t) == t.root = NULL

\* SPLAY_ROTATE_RIGHT and SPLAY_ROTATE_LEFT.
SPLAY_ROTATE(t, tmp, side) ==
    [t EXCEPT !.link[Opposite(side)][t.root] = t.link[side][tmp],
              !.link[side][tmp] = t.root,
              !.root = tmp]

\* SPLAY_LINKLEFT and SPLAY_LINKRIGHT: the root, whose other half is on the far
\* side of the key, is hung on tmp.
SPLAY_LINK(t, tmp, side) ==
    [t EXCEPT !.link[side][tmp] = t.root, !.root = t.link[side][t.root]]

\* A link of one node is assigned from a link of another.
Assign(t, n, side, from, at) == SetLink(t, n, side, t.link[at][from])
\* The assignments of SPLAY_ASSEMBLE, the first one innermost: the halves can be
\* the node on the stack itself.
CutRoot(t, left, right) ==
    Assign(Assign(t, left, "right", t.root, "left"), right, "left", t.root, "right")
\* Fault: the halves are exchanged.
Exchanged(t, left, right) ==
    Assign(Assign(CutRoot(t, left, right), t.root, "left", Node, "left"),
           t.root, "right", Node, "right")
SPLAY_ASSEMBLE(t, left, right) ==
    Assign(Assign(CutRoot(t, left, right), t.root, "left", Node, "right"),
           t.root, "right", Node, "left")

\* The loop of SPLAY and SPLAY_MINMAX for a key.  ends holds __left and __right.
RECURSIVE SplayLoop(_, _, _)
SplayLoop(t, key, ends) ==
    LET side == IF key < Key[t.root] THEN "left" ELSE "right"
        tmp == t.link[side][t.root]
        beyond == IF side = "left" THEN key < Key[tmp] ELSE key > Key[tmp]
        turned == IF beyond THEN SPLAY_ROTATE(t, tmp, Opposite(side)) ELSE t
        end == ends[Opposite(side)]
    IN  IF key = Key[t.root] \/ tmp = NULL
        THEN SPLAY_ASSEMBLE(t, ends["left"], ends["right"])
        ELSE IF turned.link[side][turned.root] = NULL
             THEN SPLAY_ASSEMBLE(turned, ends["left"], ends["right"])
             ELSE SplayLoop(SPLAY_LINK(turned, end, side), key,
                            [ends EXCEPT ![Opposite(side)] = turned.root])
SplayFor(t, key) ==
    LET done == SplayLoop(t, key, [side \in {"left", "right"} |-> Node])
    IN  SetLink(SetLink(done, Node, "left", NULL), Node, "right", NULL)
SPLAY(t, elm) == SplayFor(t, Key[elm])

\* SPLAY_NEGINF and SPLAY_INF compare like keys below and above all others.
Infinite(side) ==
    IF side = "left" THEN -1
    ELSE 1 + CHOOSE k \in {Key[n] : n \in Nodes} : \A n \in Nodes : Key[n] <= k
SPLAY_MINMAX(t, side) == SplayFor(t, Infinite(side))

\* All operations return the tree and an element.
SPLAY_FIND(t, elm) ==
    IF SPLAY_EMPTY(t) THEN [tree |-> t, answer |-> NULL]
    ELSE LET s == SPLAY(t, elm)
         IN  [tree |-> s, answer |-> IF Key[s.root] = Key[elm] THEN s.root ELSE NULL]

SPLAY_INSERT(t, elm) ==
    LET s == IF SPLAY_EMPTY(t) THEN t ELSE SPLAY(t, elm)
        side == Comp(elm, s.root)
        split == [s EXCEPT !.link[side][elm] = s.link[side][s.root],
                           !.link[Opposite(side)][elm] = s.root,
                           !.link[side][s.root] = NULL,
                           !.root = elm]
        alone == [s EXCEPT !.link["left"][elm] = NULL,
                           !.link["right"][elm] = NULL,
                           !.root = elm]
    IN  IF SPLAY_EMPTY(t) THEN [tree |-> alone, answer |-> NULL]
        ELSE IF Key[s.root] = Key[elm] THEN [tree |-> s, answer |-> s.root]
        ELSE [tree |-> split, answer |-> NULL]

\* Fault: the left half is not splayed before the right one is hung on it.
NotSplayed(t, elm) == t
JoinRoot(t, elm) == SPLAY(t, elm)
SPLAY_REMOVE(t, elm) ==
    LET s == IF SPLAY_EMPTY(t) THEN t ELSE SPLAY(t, elm)
        left == s.link["left"][s.root]
        right == s.link["right"][s.root]
        joined == JoinRoot([s EXCEPT !.root = left], elm)
    IN  IF SPLAY_EMPTY(t) \/ Key[s.root] # Key[elm]
        THEN [tree |-> s, answer |-> NULL]
        ELSE [tree |-> IF left = NULL THEN [s EXCEPT !.root = right]
                       ELSE SetLink(joined, joined.root, "right", right),
              answer |-> elm]

SPLAY_NEXT(t, elm) ==
    LET s == SPLAY(t, elm)
        right == s.link["right"][elm]
    IN  [tree |-> s, answer |-> IF right = NULL THEN NULL ELSE Last(s, right, "left")]

\* SPLAY_MIN and SPLAY_MAX.
SPLAY_MIN_MAX(t, side) ==
    IF SPLAY_EMPTY(t) THEN [tree |-> t, answer |-> NULL]
    ELSE LET s == SPLAY_MINMAX(t, side) IN [tree |-> s, answer |-> s.root]

\* SPLAY_FOREACH: every step of it splays the tree.
RECURSIVE SplayForeach(_)
SplayForeach(at) ==
    IF at.answer = NULL THEN <<>>
    ELSE <<at.answer>> \o SplayForeach(SPLAY_NEXT(at.tree, at.answer))
SPLAY_FOREACH(t) == SplayForeach(SPLAY_MIN_MAX(t, "left"))
================================================================================
