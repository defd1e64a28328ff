------------------------------- MODULE ClientHook -------------------------------
(***************************************************************************)
(* src/client-hook/client-hook.cpp: getaddrinfo and connect of an          *)
(* application, interposed by calls of the http proxy.  One thread makes   *)
(* one call at a time; a call shares nothing with another one.             *)
(*                                                                         *)
(* The bytes of a response are words and separators: what the parser does  *)
(* depends on the separators only, so a word is one byte.                  *)
(***************************************************************************)
EXTENDS Integers, Sequences

CONSTANTS
    BufSize,        \* sizeof(m_buffer)
    Slots,          \* the length of m_keys and m_values
    Names,          \* the nodes an application asks for
    ProxyPorts,     \* the numbers SSHTUNNEL_PROXY can have after its prefix
    MaxErrors       \* how often a read of one call fails

ASSUME HookAssumption ==
    /\ BufSize \in Nat \ {0, 1}        \* 1024
    /\ Slots \in Nat /\ Slots >= 5     \* 32; the proxy sends no head of more lines
    /\ MaxErrors \in Nat /\ ProxyPorts \subseteq Int

NUL == "NUL"
NULL == -1                  \* a pointer; others are positions in m_buffer
Positions == 0 .. BufSize - 1

VARIABLES
    s_port,                             \* set by the constructor of the library
    call,                               \* the call, and where it is
    arg,                                \* the node, or the kind of address, of the call
    fd,                                 \* the socket: whose it is, and its O_NONBLOCK
    was,                                \* O_NONBLOCK of the application's socket before
    m_old_flags,                        \* O_NONBLOCK in it
    m_buffer, p,
    m_keys, m_values, m_nvalues,
    errors,                             \* how often read has failed
    result,                             \* what the call returns, or passes on
    wire,                               \* the bytes on their way to the hook
    peer                                \* what the other end of the connection does
parser == <<m_buffer, p, m_keys, m_values, m_nvalues>>
socket == <<fd, was, m_old_flags>>
hookVars == <<s_port, call, arg, socket, parser, errors, result, wire, peer>>

\* __init__: s_port is the number in SSHTUNNEL_PROXY if that is a URL of this
\* machine, and 0 otherwise.  htons keeps the lowest 16 bits of it.
InitialPorts == {IF local THEN number ELSE 0 : local \in BOOLEAN, number \in ProxyPorts}
s_active == s_port > 0
sin_port == s_port % 2 ^ 16

NoSocket == [owner |-> "none", nonblock |-> FALSE]
\* HttpClient's constructor, and the memset calls of Request.
Empty ==
    /\ m_buffer' = [q \in Positions |-> NUL] /\ p' = 0
    /\ m_keys' = [i \in 0 .. Slots - 1 |-> NULL]
    /\ m_values' = [i \in 0 .. Slots - 1 |-> NULL] /\ m_nvalues' = 0

HookInit ==
    /\ s_port \in InitialPorts
    /\ call = [op |-> "none", at |-> "idle"] /\ arg = NUL
    /\ fd = NoSocket /\ was = FALSE /\ m_old_flags = FALSE
    /\ m_buffer = [q \in Positions |-> NUL] /\ p = 0
    /\ m_keys = [i \in 0 .. Slots - 1 |-> NULL]
    /\ m_values = [i \in 0 .. Slots - 1 |-> NULL] /\ m_nvalues = 0
    /\ errors = 0 /\ result = <<>> /\ wire = <<>> /\ peer = "none"

Reaches(from, to) == call.at = from /\ call' = [call EXCEPT !.at = to]

\* sys_getaddrinfo and sys_connect: the call of the application goes on as if it
\* was not interposed.
SystemCall(op) == call.at = "idle" /\ call' = [op |-> op, at |-> "return"]
HookedCall(op, at) == call.at = "idle" /\ call' = [op |-> op, at |-> at]

\* my_getaddrinfo.
GetAddrInfo(node) ==
    /\ \/ ~s_active /\ SystemCall("getaddrinfo")
       \/ s_active /\ HookedCall("getaddrinfo", "socket")
    /\ arg' = node /\ result' = <<node>>
    /\ UNCHANGED <<s_port, socket, parser, errors, wire, peer>>
\* my_connect of a socket.  Only IPv4 stream sockets go by the proxy.
ConnectCall(kind, nonblock) ==
    /\ \/ ~(s_active /\ kind = "inet_stream") /\ SystemCall("connect")
       \/ s_active /\ kind = "inet_stream" /\ HookedCall("connect", "blocking")
    /\ arg' = kind
    /\ fd' = [owner |-> "application", nonblock |-> nonblock] /\ was' = nonblock
    /\ UNCHANGED <<s_port, m_old_flags, parser, errors, result, wire, peer>>
SocketMakeBlocking ==
    /\ Reaches("blocking", "connect")
    /\ m_old_flags' = fd.nonblock
    /\ fd' = [fd EXCEPT !.nonblock = FALSE]
    /\ UNCHANGED <<s_port, arg, was, parser, errors, result, wire, peer>>

\* Request leaves with -1: Connect has failed.  my_getaddrinfo does not look at
\* that and asks the system for its node.
NoConnection(from) ==
    /\ Reaches(from, "leave")
    /\ result' = IF call.op = "connect" THEN <<"-1">> ELSE result
    /\ UNCHANGED <<s_port, arg, was, m_old_flags, parser, errors, wire, peer>>
Socket ==
    \/ NoConnection("socket") /\ UNCHANGED fd
    \/ /\ Reaches("socket", "connect")
       /\ fd' = [owner |-> "hook", nonblock |-> FALSE]
       /\ UNCHANGED <<s_port, arg, was, m_old_flags, parser, errors, result, wire, peer>>
\* sys_connect to the port of the proxy, if somebody listens there.
Connect(listener) ==
    \/ NoConnection("connect") /\ UNCHANGED fd
    \/ /\ listener # "none"
       /\ Reaches("connect", "send") /\ peer' = listener
       /\ UNCHANGED <<s_port, arg, socket, parser, errors, result, wire>>
\* The request is written into m_buffer and sent.  Whether it could be sent is
\* not looked at: to a closed connection it is lost.
Send ==
    /\ Reaches("send", "read")
    /\ Empty
    /\ peer' = IF peer = "closed" THEN "closed"
               ELSE IF peer = "http" THEN call.op ELSE "stranger"
    /\ UNCHANGED <<s_port, arg, socket, errors, result, wire>>

(***************************************************************************)
(* The loop of Request that reads the head of the response byte by byte.   *)
(***************************************************************************)
\* The first ':' of a line ends its key.
EndsKey(c) == c = "COLON" /\ m_values[m_nvalues] = NULL
\* The value begins behind the blank that follows it.
\* Fault: the value begins with the blank.
AtBlank(q) == q + 1
ValueAt(q) == q + 2
Dropped(c) == c = "CR"
\* The line that has been read last is empty.
\* Fault: it is the line that begins.
NewLine(buffer, keys, line) == line > 1 /\ buffer[keys[line]] = NUL
Blank(buffer, keys, line) == line > 1 /\ buffer[keys[line - 1]] = NUL
\* The loop ends before the last byte of m_buffer, which stays NUL.
\* Fault: it ends behind it.
Overfull(q) == q >= BufSize
Full(q) == q >= BufSize - 1

\* The body of the loop with c in *p.
Byte(c) ==
    LET line == IF c = "LF" THEN m_nvalues + 1 ELSE m_nvalues
        cell == IF c = "LF" \/ EndsKey(c) THEN NUL ELSE c
        keys == IF c = "LF" THEN [m_keys EXCEPT ![line] = p + 1] ELSE m_keys
        buffer == [m_buffer EXCEPT ![p] = cell]
        blank == Blank(buffer, keys, line)
        next == IF blank \/ Dropped(c) THEN p ELSE p + 1
    IN  /\ m_buffer' = buffer /\ m_nvalues' = line /\ m_keys' = keys /\ p' = next
        /\ m_values' = IF EndsKey(c) THEN [m_values EXCEPT ![line] = ValueAt(p)]
                       ELSE m_values
        /\ call' = [call EXCEPT !.at = IF blank \/ Full(next) THEN "parsed"
                                       ELSE "read"]

Read ==
    /\ call.at = "read" /\ wire # <<>>
    /\ Byte(Head(wire)) /\ wire' = Tail(wire)
    /\ UNCHANGED <<s_port, arg, socket, errors, result, peer>>
\* read returns -1, which is taken for a byte: *p is what it was.
ReadFails ==
    /\ call.at = "read" /\ errors < MaxErrors
    /\ Byte(m_buffer[p]) /\ errors' = errors + 1
    /\ UNCHANGED <<s_port, arg, socket, result, wire, peer>>
\* Fault: the end of the connection is taken for a byte, too.
EndIsByte ==
    /\ call.at = "read" /\ wire = <<>> /\ peer = "closed"
    /\ Byte(m_buffer[p])
    /\ UNCHANGED <<s_port, arg, socket, errors, result, wire, peer>>
ReadEnds ==
    /\ Reaches("read", "parsed") /\ wire = <<>> /\ peer = "closed"
    /\ UNCHANGED <<s_port, arg, socket, parser, errors, result, wire, peer>>

\* The string at a position of m_buffer.
String(q) ==
    LET end == CHOOSE e \in Positions :
                  /\ e >= q /\ m_buffer[e] = NUL
                  /\ \A f \in q .. e - 1 : m_buffer[f] # NUL
    IN  [i \in 1 .. end - q |-> m_buffer[q + i - 1]]
\* The lines after the status line whose end has been read.
Lines == 1 .. m_nvalues - 1
\* GetHeader: the value of the first line with the key, <<>> for NULL.
GetHeader(key) ==
    LET match == {i \in Lines : String(m_keys[i]) = key}
        first == CHOOSE i \in match : \A j \in match : i <= j
    IN  IF match = {} THEN <<>> ELSE String(m_values[first])

\* my_getaddrinfo asks the system for the Host of the response, if there is one;
\* my_connect returns 0, whatever the response is.
Parsed ==
    /\ Reaches("parsed", "leave")
    /\ result' = IF call.op = "connect" THEN <<"0">>
                 ELSE IF GetHeader(<<"Host">>) = <<>> THEN result
                 ELSE GetHeader(<<"Host">>)
    /\ UNCHANGED <<s_port, arg, socket, parser, errors, wire, peer>>

\* HttpClient's destructor restores the flags and closes the socket if it is the
\* hook's own.
\* Fault: it looks at m_dont_close before it restores the flags.
CloseOnly ==
    /\ Reaches("leave", "return")
    /\ fd' = IF fd.owner = "application" THEN fd ELSE NoSocket
    /\ UNCHANGED <<s_port, arg, was, m_old_flags, parser, errors, result, wire, peer>>
Destroy ==
    /\ Reaches("leave", "return")
    /\ fd' = IF fd.owner # "application" THEN NoSocket
             ELSE IF m_old_flags THEN [fd EXCEPT !.nonblock = TRUE] ELSE fd
    /\ UNCHANGED <<s_port, arg, was, m_old_flags, parser, errors, result, wire, peer>>

\* The call returns to the application.  What is left on a connected socket is
\* the application's to read.
Return ==
    /\ Reaches("return", "idle")
    /\ arg' = NUL /\ fd' = NoSocket /\ was' = FALSE /\ m_old_flags' = FALSE
    /\ Empty
    /\ errors' = 0 /\ result' = <<>> /\ wire' = <<>> /\ peer' = "none"
    /\ UNCHANGED s_port
================================================================================
