---------------------------- MODULE MCSSHConnector ----------------------------
\* Instances of SSHConnector for TLC.
EXTENDS SSHConnector, TLC

CONSTANTS s1, s2

TwoSessions == {s1, s2}
OneSession == {s1}
Keys == {"publickey"}
KeysAndPasswords == {"publickey", "password"}

\* Sessions are interchangeable when all of them are of one kind.
SessionSymmetry == Permutations(Sessions)
===============================================================================
