--------------------------- MODULE MCDialerRegistry ---------------------------
(* Values for the model checker. *)
EXTENDS DialerRegistry, TLC

CONSTANTS r1, r2, r3, d1

AllCalls ==
    {[kind |-> "key", items |-> <<"k1">>],
     [kind |-> "key", items |-> <<"bad">>],
     [kind |-> "keys", items |-> <<>>], [kind |-> "connect", items |-> <<>>],
     [kind |-> "dialer", items |-> <<"a", "b">>],
     [kind |-> "dialer", items |-> <<"bad", "c">>],
     [kind |-> "socks5", items |-> <<>>]}
Parsed == {"k1", "a", "b", "c"}
AllNames == {"default", "ssh"}

ThreeRequests == {r1, r2, r3}
OneConn == {d1}
Either == BOOLEAN
RequestSymmetry == Permutations(Requests)
================================================================================
