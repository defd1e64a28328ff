------------------------------ MODULE OrderedSet ------------------------------
(***************************************************************************)
(* What the trees of libkern/tree.h promise: a set of elements without two *)
(* of one key, and operations that answer with an element or with NULL.    *)
(***************************************************************************)
EXTENDS Naturals

CONSTANTS Nodes, Key

VARIABLES
    content,    \* the elements in the set
    last        \* the last operation, its argument and its answer

NULL == 0
Holder(k) ==
    IF \E n \in content : Key[n] = k
    THEN CHOOSE n \in content : Key[n] = k ELSE NULL
Above(k) == {n \in content : Key[n] > k}
Below(k) == {n \in content : Key[n] < k}
Lowest(S) ==
    IF S = {} THEN NULL ELSE CHOOSE n \in S : \A m \in S : Key[n] <= Key[m]
Highest(S) ==
    IF S = {} THEN NULL ELSE CHOOSE n \in S : \A m \in S : Key[m] <= Key[n]

Answers(op, elm, answer) ==
    last' = [op |-> op, elm |-> elm, answer |-> answer]

Init == content = {} /\ last = [op |-> "init", elm |-> NULL, answer |-> NULL]

Insert(elm) ==
    /\ elm \notin content
    /\ content' = IF Holder(Key[elm]) = NULL THEN content \cup {elm} ELSE content
    /\ Answers("insert", elm, Holder(Key[elm]))
\* The answer is the argument, which need not be the element removed.
Remove(elm) ==
    /\ content' = content \ {Holder(Key[elm])}
    /\ Answers("remove", elm, IF Holder(Key[elm]) = NULL THEN NULL ELSE elm)
Query ==
    /\ UNCHANGED content
    /\ \/ \E elm \in Nodes : Answers("find", elm, Holder(Key[elm]))
       \/ \E elm \in content : \/ Answers("next", elm, Lowest(Above(Key[elm])))
                               \/ Answers("prev", elm, Highest(Below(Key[elm])))
       \/ Answers("min", NULL, Lowest(content))
       \/ Answers("max", NULL, Highest(content))

Next == Query \/ \E elm \in Nodes : Insert(elm) \/ Remove(elm)
Spec == Init /\ [][Next]_<<content, last>>
===============================================================================
