------------------------------- MODULE MCRuleSet -------------------------------
(* Values for the model checker: addresses of two bits. *)
EXTENDS RuleSetHistory, TLC

CONSTANTS c1, c2, c3, c4, d1

Host(a) == [ip |-> a, slash |-> FALSE, bits |-> 0]
Cidr(a, b) == [ip |-> a, slash |-> TRUE, bits |-> b]

\* Four networks, one typed with host bits that the mask clears and one without
\* a mask, so that the fourth rule finds room in its array; and a mask that is
\* too long.
Lines == {<<Cidr(3, 0)>>, <<Cidr(2, 1)>>, <<Host(2)>>, <<Cidr(3, 2)>>,
          <<Cidr(0, 3)>>}
Flags == {"empty", "ssh"}

\* One address is in the whole range only, the other in three networks.
Ends == {0, 3}

FourCommands == {c1, c2, c3, c4}
OneConn == {d1}
CommandSymmetry == Permutations(Commands)
================================================================================
