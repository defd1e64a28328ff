------------------------------- MODULE MCProxies -------------------------------
\* Three requests, so that two DNS proxies and one that uses them are started at
\* a time, and two UDP ports, which both DNS proxies or others can take.
EXTENDS Proxies, TLC

CONSTANTS r1, r2, r3
ThreeRequests == {r1, r2, r3}
Permuted == Permutations(ThreeRequests)
================================================================================
