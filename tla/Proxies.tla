-------------------------------- MODULE Proxies --------------------------------
(***************************************************************************)
(* The start of proxies in the daemon: Server.StartProxy                   *)
(* (src/server/server.go), the factories of src/proxy, and the global      *)
(* variables of the DNS proxy, which the other proxies resolve names with. *)
(* Every request of the control API runs in a goroutine of its own.        *)
(***************************************************************************)
EXTENDS Naturals, Sequences, FiniteSets

CONSTANTS
    Requests,       \* the StartProxy requests
    Targets,        \* addresses of DNS servers
    UdpPorts        \* the UDP ports of the machine

ASSUME ProxiesAssumption ==
    /\ "" \notin Targets
    /\ Targets \cap {"malformed", "http", "socks5", "unknown"} = {}

\* What a request asks for.  A DNS proxy is named by its parameter: a target, or
\* an address that SplitHostPort refuses.
DNS == Targets \cup {"malformed"}
TCP == {"http", "socks5"}
Kinds == DNS \cup TCP \cup {"unknown"}

VARIABLES
    alive,          \* the daemon has not panicked
    asked,          \* request -> what it asks for
    at,             \* request -> where its goroutine is
    port,           \* request -> the free UDP port it was given
    seen,           \* request -> server.proxies as its append has read it
    proxies,        \* server.proxies
    dnsTarget,
    forwarder,      \* request -> where its forwardDNS goroutine is
    handler,        \* the target in the closure that handles "." in the dns mux
    bound,          \* the UDP ports that are in use
    listening,      \* the TCP proxies that accept connections
    resolver,       \* the socks5 proxies that resolve names by ResolveDNS
    overtaken,      \* history: a DNS proxy was started before an earlier one handled "."
    together        \* history: two appends to server.proxies overlapped
startVars == <<asked, at, port, seen, proxies, resolver, together>>
dnsVars == <<dnsTarget, forwarder, handler, bound, overtaken>>
vars == <<alive, listening, startVars, dnsVars>>

Init ==
    /\ alive = TRUE
    /\ asked = [r \in Requests |-> "unknown"]
    /\ at = [r \in Requests |-> "idle"]
    /\ port = [r \in Requests |-> 0]
    /\ seen = [r \in Requests |-> <<>>] /\ proxies = <<>>
    /\ dnsTarget = ""
    /\ forwarder = [r \in Requests |-> "none"]
    /\ handler = "" /\ bound = {}
    /\ listening = {} /\ resolver = {}
    /\ overtaken = FALSE /\ together = FALSE

Goes(r, from, to) == at[r] = from /\ at' = [at EXCEPT ![r] = to]
\* The factory returns an error.
Refused(r, from) == Goes(r, from, "failed")

\* NewProxy looks up the factory.
NewProxy(r) ==
    /\ \E kind \in Kinds :
          /\ asked' = [asked EXCEPT ![r] = kind]
          /\ Goes(r, "idle", CASE kind \in DNS -> "port"
                               [] kind \in TCP -> "listen"
                               [] OTHER -> "failed")
    /\ UNCHANGED <<alive, listening, port, seen, proxies, resolver, together, dnsVars>>

\* createTCPListener fails if the port is in use or is not a number.
CreateTCPListener(r) ==
    /\ \/ Refused(r, "listen") /\ UNCHANGED listening
       \/ /\ Goes(r, "listen", IF asked[r] = "socks5" THEN "resolver" ELSE "read")
          /\ listening' = listening \cup {asked[r]}
    /\ UNCHANGED <<alive, asked, port, seen, proxies, resolver, together, dnsVars>>

\* The socks5 proxy looks at dnsTarget when it starts and never again.
ConfigResolver(r) ==
    /\ Goes(r, "resolver", "read")
    /\ resolver' = IF dnsTarget # "" THEN resolver \cup {r} ELSE resolver
    /\ UNCHANGED <<alive, listening, asked, port, seen, proxies, together, dnsVars>>

\* The port is free while its listener is open; it is closed at once.
GetFreeUDPPort(r) ==
    /\ \/ \E p \in UdpPorts \ bound :
             port' = [port EXCEPT ![r] = p] /\ Goes(r, "port", "target")
       \/ UdpPorts \subseteq bound /\ Refused(r, "port") /\ UNCHANGED port
    /\ UNCHANGED <<alive, listening, asked, seen, proxies, resolver, together, dnsVars>>

\* A forwarder that has not handled "." yet.
Pending(r) == forwarder[r] = "handle"
Starts(r, kind) ==
    /\ dnsTarget' = kind
    /\ forwarder' = [forwarder EXCEPT ![r] = "handle"]
    /\ overtaken' = (overtaken \/ \E q \in Requests : Pending(q))

\* makeTargetAddr, the assignment of dnsTarget, and go forwardDNS.  dnsDialer is
\* always nil here, and ResolveDNS takes the rule set for nil: it is left out.
\* Fault: the target is assigned before makeTargetAddr's error is looked at.
AssignFirst(r) ==
    /\ \/ /\ asked[r] = "malformed" /\ Refused(r, "target")
          /\ dnsTarget' = asked[r] /\ UNCHANGED <<forwarder, overtaken>>
       \/ asked[r] # "malformed" /\ Goes(r, "target", "read") /\ Starts(r, asked[r])
    /\ UNCHANGED <<alive, listening, asked, port, seen, proxies, resolver, together,
                   handler, bound>>
NewDNSProxy(r) ==
    /\ \/ /\ asked[r] = "malformed" /\ Refused(r, "target")
          /\ UNCHANGED <<dnsTarget, forwarder, overtaken>>
       \/ asked[r] # "malformed" /\ Goes(r, "target", "read") /\ Starts(r, asked[r])
    /\ UNCHANGED <<alive, listening, asked, port, seen, proxies, resolver, together,
                   handler, bound>>

\* server.proxies = append(server.proxies, proxyInfo), without a lock.
\* Fault: the list is not the one of the time of the append.
ReadNothing(r) ==
    /\ Goes(r, "read", "write")
    /\ together' = (together \/ \E q \in Requests : at[q] = "write")
    /\ UNCHANGED <<alive, listening, asked, port, seen, proxies, resolver, dnsVars>>
ReadProxies(r) ==
    /\ Goes(r, "read", "write")
    /\ seen' = [seen EXCEPT ![r] = proxies]
    /\ together' = (together \/ \E q \in Requests : at[q] = "write")
    /\ UNCHANGED <<alive, listening, asked, port, proxies, resolver, dnsVars>>
WriteProxies(r) ==
    /\ Goes(r, "write", "done")
    /\ proxies' = Append(seen[r], r)
    /\ seen' = [seen EXCEPT ![r] = <<>>]
    /\ UNCHANGED <<alive, listening, asked, port, resolver, together, dnsVars>>

\* forwardDNS: there is one handler for "." in the process.
HandleFunc(r) ==
    /\ forwarder[r] = "handle"
    /\ handler' = asked[r]
    /\ forwarder' = [forwarder EXCEPT ![r] = "listen"]
    /\ UNCHANGED <<alive, listening, dnsTarget, bound, overtaken, startVars>>
\* A port that has been taken since it was free is a panic of the goroutine,
\* which ends the daemon.
ListenAndServe(r) ==
    /\ forwarder[r] = "listen"
    /\ \/ /\ port[r] \notin bound
          /\ bound' = bound \cup {port[r]}
          /\ forwarder' = [forwarder EXCEPT ![r] = "serving"]
          /\ UNCHANGED <<alive, listening>>
       \/ /\ port[r] \in bound
          /\ alive' = FALSE /\ listening' = {}
          /\ UNCHANGED <<bound, forwarder>>
    /\ UNCHANGED <<dnsTarget, handler, overtaken, startVars>>

\* Another process binds a UDP port.
OtherBinds ==
    /\ \E p \in UdpPorts \ bound : bound' = bound \cup {p}
    /\ UNCHANGED <<alive, listening, startVars,
                   dnsTarget, forwarder, handler, overtaken>>

StartStep(r) ==
    alive /\ (\/ NewProxy(r) \/ CreateTCPListener(r) \/ ConfigResolver(r)
              \/ GetFreeUDPPort(r) \/ NewDNSProxy(r)
              \/ ReadProxies(r) \/ WriteProxies(r))
ForwarderStep(r) == alive /\ (HandleFunc(r) \/ ListenAndServe(r))
Next == OtherBinds \/ \E r \in Requests : StartStep(r) \/ ForwarderStep(r)
Spec == Init /\ [][Next]_vars

(***************************************************************************)
(* Properties                                                              *)
(***************************************************************************)
\* dnsproxy.go:107 and :117: UDP queries go where the handler of "." says, names
\* of the socks5 and http proxies where dnsTarget says.  The two agree, except
\* after a DNS proxy was started before an earlier one had installed its handler.
TargetsAgree ==
    ~overtaken /\ (\A r \in Requests : ~Pending(r)) => handler = dnsTarget

\* server.go:64: every proxy that was started is listed, once, and none that
\* failed, unless two appends overlapped.
ListComplete ==
    ~together =>
        /\ {proxies[i] : i \in DOMAIN proxies} = {r \in Requests : at[r] = "done"}
        /\ Len(proxies) = Cardinality({r \in Requests : at[r] = "done"})
================================================================================
