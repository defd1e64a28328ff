-------------------------------- MODULE TreeSet --------------------------------
(***************************************************************************)
(* Any sequence of the operations of libkern/tree.h on one tree, red-black *)
(* or splay.  The header leaves locking to its users, so an operation is   *)
(* one step.                                                               *)
(***************************************************************************)
EXTENDS SplayTree, FiniteSets

CONSTANT Kinds      \* "rb", "splay" or both

VARIABLES
    kind,           \* which of the two trees it is
    tree,
    last            \* the last operation, its argument and its answer
vars == <<kind, tree, last>>

Init ==
    /\ kind \in Kinds
    /\ tree = IF kind = "rb" THEN RB_INITIALIZER ELSE SPLAY_INITIALIZER
    /\ last = [op |-> "init", elm |-> NULL, answer |-> NULL]

\* The elements that are reached from the root.
RECURSIVE Below(_, _)
Below(t, n) ==
    IF n = NULL THEN {}
    ELSE {n} \cup Below(t, t.link["left"][n]) \cup Below(t, t.link["right"][n])
Members == Below(tree, tree.root)

\* An element outside of the tree is memory of its owner.
Forget(t, elm) ==
    LET cleared == SetLink(SetLink(t, elm, "left", NULL), elm, "right", NULL)
    IN  IF kind = "rb" THEN [cleared EXCEPT !.rbe_parent[elm] = 0] ELSE cleared
\* It holds anything when it is inserted, for instance the links and the color
\* it had in another tree.
Stale(t, elm) ==
    {t} \cup {IF kind = "rb" THEN [s EXCEPT !.rbe_parent[elm] = 2 * n + RB_RED] ELSE s :
                n \in Nodes, s \in {SetLink(SetLink(t, elm, "left", elm), elm, "right", elm)}}

Does(op, elm, result) ==
    /\ tree' = result.tree
    /\ last' = [op |-> op, elm |-> elm, answer |-> result.answer]
    /\ UNCHANGED kind
Reads(answer) == [tree |-> tree, answer |-> answer]

Inserted(elm, result) ==
    Does("insert", elm, IF result.answer = NULL THEN result
                        ELSE [result EXCEPT !.tree = Forget(@, elm)])
Insert(elm) ==
    /\ elm \notin Members
    /\ \E t \in Stale(tree, elm) :
          Inserted(elm, IF kind = "rb" THEN RB_INSERT(t, elm) ELSE SPLAY_INSERT(t, elm))

\* RB_REMOVE follows the links of its argument, SPLAY_REMOVE only compares it, so
\* that the element it removes can be another one.
Removed(elm, result) ==
    LET gone == Members \ Below(result.tree, result.tree.root)
    IN  IF gone = {} THEN Does("remove", elm, result)
        ELSE Does("remove", elm, [result EXCEPT !.tree = Forget(@, CHOOSE n \in gone : TRUE)])
Remove(elm) ==
    /\ kind = "rb" => elm \in Members
    /\ Removed(elm, IF kind = "rb" THEN RB_REMOVE(tree, elm) ELSE SPLAY_REMOVE(tree, elm))
Find(elm) ==
    Does("find", elm, IF kind = "rb" THEN Reads(RB_FIND(tree, elm))
                      ELSE SPLAY_FIND(tree, elm))
NextOf(elm) ==
    /\ elm \in Members
    /\ Does("next", elm, IF kind = "rb" THEN Reads(RB_NEXT(tree, elm))
                         ELSE SPLAY_NEXT(tree, elm))
PrevOf(elm) ==
    /\ elm \in Members /\ kind = "rb"
    /\ Does("prev", elm, Reads(RB_PREV(tree, elm)))
MinMax(op, side) ==
    Does(op, NULL, IF kind = "rb" THEN Reads(RB_MINMAX(tree, side))
                   ELSE SPLAY_MIN_MAX(tree, side))

Next ==
    \/ \E elm \in Nodes : Insert(elm) \/ Remove(elm) \/ Find(elm)
                            \/ NextOf(elm) \/ PrevOf(elm)
    \/ MinMax("min", "left") \/ MinMax("max", "right")
Spec == Init /\ [][Next]_vars

(***************************************************************************)
(* Properties                                                              *)
(***************************************************************************)
RECURSIVE Height(_, _)
Height(t, n) ==
    IF n = NULL THEN 0
    ELSE LET l == Height(t, t.link["left"][n])
             r == Height(t, t.link["right"][n])
         IN  1 + IF l < r THEN r ELSE l
\* The black nodes on every path down from n; -1 if the paths differ.
RECURSIVE BlackHeight(_, _)
BlackHeight(t, n) ==
    IF n = NULL THEN 0
    ELSE LET l == BlackHeight(t, t.link["left"][n])
             r == BlackHeight(t, t.link["right"][n])
         IN  IF l = r /\ l >= 0 THEN l + (IF RB_GETCOLOR(t, n) = RB_BLACK THEN 1 ELSE 0)
             ELSE -1
\* tree.h:75-84 of red-black trees: "every search path from the root to a leaf
\* consists of the same number of black nodes", "each red node (except for the
\* root) has a black parent", "The maximum height of a red-black tree is
\* 2lg (n+1)".  Also, every child's parent word leads back to its parent.
Balanced ==
    kind = "rb" =>
        /\ BlackHeight(tree, tree.root) >= 0
        /\ \A n \in Members :
              /\ RB_GETCOLOR(tree, n) = RB_RED => IsBlack(tree, RB_GETPARENT(tree, n))
              /\ n = tree.root <=> RB_GETPARENT(tree, n) = NULL
              /\ \A side \in {"left", "right"} :
                    tree.link[side][n] # NULL
                        => RB_GETPARENT(tree, tree.link[side][n]) = n
        /\ 2 ^ Height(tree, tree.root) <= (Cardinality(Members) + 1) ^ 2

Ascending(s) == \A i, j \in DOMAIN s : i < j => Key[s[i]] < Key[s[j]]
Elements(s) == {s[i] : i \in DOMAIN s}
VisitsAll(walk) == Ascending(walk) /\ Elements(walk) = Members
SafeAlong(walk) ==
    \A i \in DOMAIN walk :
        /\ ForeachRemoving(tree, walk[i], "right")
               = [j \in 1 .. Len(walk) - i + 1 |-> walk[i + j - 1]]
        /\ ForeachRemoving(tree, walk[i], "left")
               = [j \in 1 .. i |-> walk[i - j + 1]]
\* The loops visit every element once and in order, and those that fetch the
\* next element first do so even if their body removes the one it is given.
WalksInOrder ==
    IF kind = "rb" THEN VisitsAll(RB_FOREACH(tree)) /\ SafeAlong(RB_FOREACH(tree))
    ELSE VisitsAll(SPLAY_FOREACH(tree))

\* Whatever operations came before, each one answers as that of an ordered set.
Abstract == INSTANCE OrderedSet WITH content <- Members
ImplementsOrderedSet == Abstract!Spec
================================================================================
