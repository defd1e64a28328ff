------------------------------- MODULE MCTunnel -------------------------------
\* Both proxies that copy connections themselves.
EXTENDS Tunnel

BothKinds == {"transparent", "http"}
================================================================================
