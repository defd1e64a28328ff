------------------------------- MODULE HookedApp -------------------------------
(***************************************************************************)
(* An application with the client hook, and the daemon whose http proxy    *)
(* the hook calls.  Of the daemon's state there is what a call depends on; *)
(* Proxies has the steps in which a proxy is started.                      *)
(***************************************************************************)
EXTENDS ClientHook, FiniteSets

CONSTANTS
    Targets,        \* addresses of DNS servers
    Words,          \* the words of an address, and the COLONs between them
    Address,        \* target -> the address it answers with, as it is formatted
    TcpPort         \* the ports of the http and the socks5 proxy

\* net.IP.String writes digits, '.' and ':', and something for every address.
ASSUME AddressAssumption ==
    /\ Words \cap {"CR", "LF", NUL} = {}
    /\ Address \in [Targets -> Seq(Words) \ {<<>>}]
    /\ DOMAIN TcpPort = {"http", "socks5"}

VARIABLES
    alive,          \* the daemon runs
    listening,      \* the TCP proxies that accept connections
    dnsTarget,
    reply,          \* history: the answer of the http proxy
    cut             \* history: the connection was lost
daemon == <<alive, listening, dnsTarget>>
vars == <<daemon, hookVars, reply, cut>>

Nil == <<"<nil>">>              \* how Go formats an IP that is nil
NoReply == [host |-> <<>>, head |-> <<>>, rest |-> <<>>]

Init ==
    /\ HookInit
    /\ alive = TRUE /\ listening = {} /\ dnsTarget = ""
    /\ reply = NoReply /\ cut = FALSE

(***************************************************************************)
(* The daemon's side of the connection                                     *)
(***************************************************************************)
\* A response as net/http writes it.
Line(key, value) == <<key, "COLON", "SP">> \o value \o <<"CR", "LF">>
HeadOf(lines) == <<"status", "CR", "LF">> \o lines \o <<"CR", "LF">>
Date == Line("Date", <<"time", "COLON", "time">>)
Responds(host, head, rest) ==
    /\ wire' = head \o rest
    /\ reply' = [host |-> host, head |-> head, rest |-> rest]
    /\ peer' = "answered"
    /\ UNCHANGED <<s_port, call, arg, socket, parser, errors, result, cut>>

\* ResolveDNS: an address is its own answer, without a query.  A name is asked
\* for at dnsTarget through the rule set, which can fail, and does without a
\* target.
Resolutions(name) ==
    IF name = "address" THEN {<<name>>}
    ELSE {Nil} \cup IF dnsTarget = "" THEN {} ELSE {Address[dnsTarget]}
\* handleResolve does not look at the error.
HandleResolve ==
    /\ alive /\ peer = "getaddrinfo"
    /\ \E host \in Resolutions(arg) : Responds(host, HeadOf(Line("Host", host) \o Date), <<>>)
    /\ UNCHANGED daemon
\* handleTunneling: 200 and the tunnel, or 503 and the text of an error.
HandleTunneling ==
    /\ alive /\ peer = "connect"
    /\ \E rest \in {<<"data">>, <<"text">>}, lines \in {<<>>, Date} :
          Responds(<<>>, HeadOf(lines), rest)
    /\ UNCHANGED daemon
\* The socks5 server closes a connection that does not begin with its version.
SocksRefuses ==
    /\ alive /\ peer = "stranger"
    /\ peer' = "closed"
    /\ UNCHANGED <<daemon, s_port, call, arg, socket, parser, errors, result, wire,
                   reply, cut>>

\* StartProxy for the http or the socks5 proxy, or for another DNS proxy.
StartsProxy ==
    /\ alive
    /\ \/ \E k \in DOMAIN TcpPort : listening' = listening \cup {k} /\ UNCHANGED dnsTarget
       \/ \E t \in Targets : dnsTarget' = t /\ UNCHANGED listening
    /\ UNCHANGED <<alive, hookVars, reply, cut>>
\* The daemon is stopped or killed, or panics.  Its connections are lost, with
\* what is on its way.
Ends ==
    /\ alive /\ alive' = FALSE /\ listening' = {}
    /\ peer' = IF peer = "none" THEN "none" ELSE "closed"
    /\ \E n \in 0 .. Len(wire) : wire' = SubSeq(wire, 1, n)
    /\ cut' = (peer # "none")
    /\ UNCHANGED <<dnsTarget, s_port, call, arg, socket, parser, errors, result, reply>>

Handle == HandleResolve \/ HandleTunneling \/ SocksRefuses

(***************************************************************************)
(* The application's side                                                  *)
(***************************************************************************)
Listener ==
    IF \E k \in listening : TcpPort[k] = sin_port
    THEN CHOOSE k \in listening : TcpPort[k] = sin_port ELSE "none"
Calls ==
    /\ \/ \E node \in Names : GetAddrInfo(node)
       \/ \E kind \in {"inet_stream", "other"}, nonblock \in BOOLEAN :
             ConnectCall(kind, nonblock)
    /\ UNCHANGED <<daemon, reply, cut>>
Hook ==
    /\ SocketMakeBlocking \/ Socket \/ Connect(Listener) \/ Send
         \/ Read \/ ReadEnds \/ Parsed \/ Destroy
    /\ UNCHANGED <<daemon, reply, cut>>
Interrupted == ReadFails /\ UNCHANGED <<daemon, reply, cut>>
Returns == Return /\ reply' = NoReply /\ cut' = FALSE /\ UNCHANGED daemon

Next == StartsProxy \/ Ends \/ Handle \/ Calls \/ Hook \/ Interrupted \/ Returns
Spec == Init /\ [][Next]_vars /\ WF_vars(Hook) /\ WF_vars(Handle) /\ WF_vars(Returns)

(***************************************************************************)
(* Properties                                                              *)
(***************************************************************************)
\* The state has its types, and the loop of Request stays within m_buffer and
\* within its tables of 32 lines, whatever reads fail.
TypeOK ==
    /\ alive \in BOOLEAN /\ listening \subseteq DOMAIN TcpPort
    /\ dnsTarget \in Targets \cup {""}
    /\ p \in 0 .. BufSize - 1 /\ m_nvalues \in 0 .. Slots - 1
    /\ \A i \in 0 .. Slots - 1 : /\ m_keys[i] \in {NULL} \cup Positions
                                 /\ m_values[i] \in {NULL} \cup 0 .. BufSize
    /\ call.at \in {"idle", "blocking", "socket", "connect", "send", "read", "parsed",
                    "leave", "return"}

\* The response has been read as it was sent, and its head fits into m_buffer.
Clean ==
    /\ reply # NoReply /\ errors = 0 /\ ~cut
    /\ Cardinality({i \in 1 .. Len(reply.head) : reply.head[i] # "CR"}) < BufSize

\* client-hook.cpp:190-222: the hook takes the head of the response from the
\* socket and not one byte of what follows it, so that the application's first
\* read gets the first byte of the tunnel.
HeadConsumed ==
    call.at \in {"parsed", "leave", "return"} /\ Clean => wire = reply.rest

\* client-hook.cpp:271-280: the system is asked for the address in the response
\* when there is a whole one, and never for a part of it, wherever the
\* connection is cut; otherwise for the node of the application.
HostExplained ==
    call.op = "getaddrinfo" /\ call.at \in {"leave", "return"} /\ errors = 0 =>
        /\ result \in {<<arg>>, reply.host}
        /\ Clean => result = reply.host

\* client-hook.cpp:126-140: however a call ends, the application's socket has the
\* flags it had before, and the hook's own one is closed.
SocketRestored ==
    call.at = "return" => fd.owner # "hook" /\ (fd.owner = "application" => fd.nonblock = was)

\* client-hook.cpp:190: every call returns, although the hook has made the
\* socket blocking: the proxy answers or the connection ends.
CallReturns == call.at # "idle" ~> call.at = "idle"
================================================================================
