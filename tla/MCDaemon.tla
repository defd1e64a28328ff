------------------------------- MODULE MCDaemon -------------------------------
(* Values for the model checker. *)
EXTENDS Daemon

CONSTANTS p1, p2, c1, c2, c3

TwoPids == {p1, p2}
ThreeCommands == {c1, c2, c3}

AnyList == {<<>>, <<"other", "stop">>, <<"unknown">>}

Either == BOOLEAN
================================================================================
