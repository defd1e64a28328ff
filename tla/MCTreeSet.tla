------------------------------- MODULE MCTreeSet -------------------------------
\* Eight elements, two of them with one key: enough for every case of a removal.
EXTENDS TreeSet

Eight == 1 .. 8
KeyOf == [n \in Eight |-> IF n = 8 THEN 3 ELSE n]
BothKinds == {"rb", "splay"}
================================================================================
