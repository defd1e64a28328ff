------------------------------ MODULE MCHookedApp ------------------------------
\* The second target answers with an IPv6 address.  The numbers of
\* SSHTUNNEL_PROXY are the port of the http proxy, that of the socks5 proxy and
\* one of more than 16 bits.
EXTENDS HookedApp

AddressOf == [t \in Targets |-> IF t = "dns1" THEN <<"ipv4">> ELSE <<"ipv6", "COLON", "ipv6">>]
PortOf == [k \in {"http", "socks5"} |-> IF k = "http" THEN 8080 ELSE 1080]
Numbers == {8080, 1080, 2 ^ 16 + 8080}
================================================================================
