----------------------------- MODULE MCSSHDialer -----------------------------
\* Instances of SSHDialer for TLC.
EXTENDS SSHDialer, FiniteSetsExt

CONSTANTS d1, d2, s1

OneDialer == {d1}
TwoDialers == {d1, d2}
OneSession == {s1}
NoSession == {}
\* The first proxy goroutine dials twice.
FirstTwice == [g \in Goroutines |-> IF g = d1 THEN 2 ELSE 1]
Twice == [g \in Goroutines |-> 2]
Once == [g \in Goroutines |-> 1]
OnePerCall == MapThenSumSet(LAMBDA g : Calls[g], Goroutines)
===============================================================================
