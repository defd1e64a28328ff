-------------------------------- MODULE Tunnel --------------------------------
(***************************************************************************)
(* One connection through a proxy, from the moment it is accepted until    *)
(* both of its ends are closed: handleConnection and forwardConnection of  *)
(* the transparent proxy (src/proxy/transparentproxy.go), GetOriginalDst   *)
(* (src/originaldest/originaldest_linux.go) and handleTunneling of the     *)
(* http proxy (src/proxy/httpproxy.go).                                    *)
(*                                                                         *)
(* Connections share no state, so one is enough.  A byte stream is         *)
(* represented by the number of chunks that are at each stage of it.       *)
(***************************************************************************)
EXTENDS Naturals

CONSTANTS
    Kinds,      \* the proxies: "transparent", "http" or both
    Chunks,     \* bound: the chunks that each end sends
    Window      \* chunks that can be under way to an end that does not read

ASSUME TunnelAssumption ==
    /\ Kinds \subseteq {"transparent", "http"}
    /\ Chunks \in Nat /\ Window \in Nat \ {0}

Ends == {"client", "server"}
Directions == {"send", "receive"}
From(d) == IF d = "send" THEN "client" ELSE "server"
To(d) == IF d = "send" THEN "server" ELSE "client"
Other(d) == IF d = "send" THEN "receive" ELSE "send"

\* The descriptors of one connection.  "client" and "server" are the
\* connections that are copied; "accepted" and "file" are the ones that
\* GetOriginalDst starts from.
Descriptors == {"accepted", "file"} \cup Ends

VARIABLES
    kind, step,     \* the proxy, and the next step of its handler
    fd,             \* of each descriptor: "none", "open" or "closed"
    peer,           \* of each end: "up", "shut" (sends no more) or "gone"
    sent, taken,    \* of each direction: chunks that the one end has sent, that
    written,        \* the copy has read and that it has written
    received,       \* and that the other end has read
    copier, ended,  \* its goroutine's next step, and how its copy has ended
    counts          \* nSend and nReceived

streams == <<sent, taken, written, received>>
copies == <<copier, ended, counts>>
vars == <<kind, step, fd, peer, streams, copies>>

Zero == [d \in Directions |-> 0]
Init ==
    /\ kind \in Kinds /\ step = "accept"
    /\ fd = [f \in Descriptors |-> "none"]
    /\ peer = [e \in Ends |-> "up"]
    /\ sent = Zero /\ taken = Zero /\ written = Zero /\ received = Zero
    /\ copier = [d \in Directions |-> "none"]
    /\ ended = [d \in Directions |-> "no"] /\ counts = Zero

Open(f) == fd' = [fd EXCEPT ![f] = "open"]
Close(f) == fd' = [fd EXCEPT ![f] = IF @ = "open" THEN "closed" ELSE @]

\* Both goroutines are started.  Fault: one of them closes at once, for want of
\* a defer.
StartClosing(d) == IF d = "send" THEN "close1" ELSE "read"
StartStep(d) == "read"
StartCopies == copier' = [d \in Directions |-> StartStep(d)]

(***************************************************************************)
(* The handlers                                                            *)
(***************************************************************************)
Accept ==
    /\ step = "accept"
    /\ \/ kind = "transparent" /\ Open("accepted") /\ step' = "file"
       \/ kind = "http" /\ step' = "resolve" /\ UNCHANGED fd
    /\ UNCHANGED <<kind, peer, streams, copies>>

\* GetOriginalDst replaces the accepted connection by a duplicate.  Its errors
\* end the handler, whose deferred Close is that of the accepted connection: a
\* descriptor that was opened since stays open.
DuplicateFile ==
    /\ step = "file"
    /\ \/ step' = "sockopt" /\ fd' = [fd EXCEPT !["file"] = "open",
                                                !["accepted"] = "closed"]
       \/ step' = "end" /\ Close("accepted")
    /\ UNCHANGED <<kind, peer, streams, copies>>
GetSockopt ==
    /\ step = "sockopt" /\ step' \in {"fileconn", "end"}
    /\ UNCHANGED <<kind, fd, peer, streams, copies>>
\* Fault: the file is left open.
FileLeftOpen == "open"
FileAfterwards == "closed"
FileConn ==
    /\ step = "fileconn"
    /\ \/ step' = "dial" /\ fd' = [fd EXCEPT !["client"] = "open",
                                             !["file"] = FileAfterwards]
       \/ step' = "end" /\ UNCHANGED fd
    /\ UNCHANGED <<kind, peer, streams, copies>>

\* The http proxy resolves the name of the server first.
ResolveDNS ==
    /\ step = "resolve" /\ step' \in {"dial", "end"}
    /\ UNCHANGED <<kind, fd, peer, streams, copies>>

\* The rules' Dial returns a connection, an error, or neither: the nil
\* connection passes the check of the error, and Close of nil panics.
Dial ==
    /\ step = "dial"
    /\ \/ /\ Open("server")
          /\ \/ kind = "transparent" /\ StartCopies /\ step' = "wait1"
             \/ kind = "http" /\ step' = "hijack" /\ UNCHANGED copier
       \/ step' \in {"end", "panic"} /\ UNCHANGED <<fd, copier>>
    /\ UNCHANGED <<kind, peer, streams, ended, counts>>

\* The client's connection is taken over from the http server.  If it has none
\* to give, the server's connection is left open; after an error the handler
\* goes on with a nil connection.
Hijack ==
    /\ step = "hijack"
    /\ \/ Open("client") /\ StartCopies /\ step' = "end"
       \/ step' \in {"end", "panic"} /\ UNCHANGED <<fd, copier>>
    /\ UNCHANGED <<kind, peer, streams, ended, counts>>

\* forwardConnection waits for both copies.  Fault: for one of them.
ReturnsEarly == "end"
AfterFirst == "wait2"
Received ==
    /\ \/ step = "wait1" /\ step' = AfterFirst
       \/ step = "wait2" /\ step' = "end"
    /\ \E d \in Directions : /\ copier[d] = "done"
                             /\ copier' = [copier EXCEPT ![d] = "close1"]
    /\ UNCHANGED <<kind, fd, peer, streams, ended, counts>>

(***************************************************************************)
(* The copies                                                              *)
(***************************************************************************)
\* io.Copy returns.  forwardConnection reports it before the deferred closes.
Finish(d, how) ==
    /\ ended' = [ended EXCEPT ![d] = how]
    /\ counts' = [counts EXCEPT ![d] = written[d]]
    /\ copier' = [copier EXCEPT ![d] = IF kind = "transparent" THEN "done"
                                       ELSE "close1"]

\* A connection that is closed on this side fails; one whose other end is gone
\* fails sooner or later.
CopyRead(d) ==
    /\ copier[d] = "read"
    /\ \/ /\ fd[From(d)] = "open" /\ taken[d] < sent[d]
          /\ taken' = [taken EXCEPT ![d] = @ + 1]
          /\ copier' = [copier EXCEPT ![d] = "write"]
          /\ UNCHANGED <<ended, counts>>
       \/ /\ fd[From(d)] = "open" /\ taken[d] = sent[d]
          /\ peer[From(d)] # "up" /\ Finish(d, "eof") /\ UNCHANGED taken
       \/ /\ fd[From(d)] = "closed" \/ peer[From(d)] = "gone"
          /\ Finish(d, "error") /\ UNCHANGED taken
    /\ UNCHANGED <<kind, step, fd, peer, sent, written, received>>

\* A write blocks as long as the other end does not read what is under way.
CopyWrite(d) ==
    /\ copier[d] = "write"
    /\ \/ /\ fd[To(d)] = "open"
          /\ written[d] - received[d] < Window \/ peer[To(d)] = "gone"
          /\ written' = [written EXCEPT ![d] = @ + 1]
          /\ copier' = [copier EXCEPT ![d] = "read"]
          /\ UNCHANGED <<ended, counts>>
       \/ /\ fd[To(d)] = "closed" \/ peer[To(d)] = "gone"
          /\ Finish(d, "error") /\ UNCHANGED written
    /\ UNCHANGED <<kind, step, fd, peer, sent, taken, received>>

\* The deferred closes, the last one first.  Fault: only the connection that
\* the copy writes to is closed.
DestinationOnly(d) == <<To(d), To(d)>>
Closings(d) ==
    IF kind = "transparent" THEN <<"server", "client">> ELSE <<From(d), To(d)>>
CopyClose(d) ==
    /\ \/ /\ copier[d] = "close1" /\ Close(Closings(d)[1])
          /\ copier' = [copier EXCEPT ![d] = "close2"]
       \/ /\ copier[d] = "close2" /\ Close(Closings(d)[2])
          /\ copier' = [copier EXCEPT ![d] = "end"]
    /\ UNCHANGED <<kind, step, peer, streams, ended, counts>>

(***************************************************************************)
(* The ends                                                                *)
(***************************************************************************)
Out(e) == IF e = "client" THEN "send" ELSE "receive"
PeerSend(e) ==
    /\ fd[e] = "open" /\ peer[e] = "up" /\ sent[Out(e)] < Chunks
    /\ sent' = [sent EXCEPT ![Out(e)] = @ + 1]
    /\ UNCHANGED <<kind, step, fd, peer, taken, written, received, copies>>
PeerReceive(e) ==
    /\ peer[e] # "gone" /\ received[Other(Out(e))] < written[Other(Out(e))]
    /\ received' = [received EXCEPT ![Other(Out(e))] = @ + 1]
    /\ UNCHANGED <<kind, step, fd, peer, sent, taken, written, copies>>

\* The end shuts down its sending side, or goes away.
PeerLeaves(e) ==
    /\ fd[e] = "open"
    /\ \/ peer[e] = "up" /\ peer' = [peer EXCEPT ![e] = "shut"]
       \/ peer[e] # "gone" /\ peer' = [peer EXCEPT ![e] = "gone"]
    /\ UNCHANGED <<kind, step, fd, streams, copies>>

HandlerNext ==
    Accept \/ DuplicateFile \/ GetSockopt \/ FileConn \/ ResolveDNS \/ Dial
        \/ Hijack \/ Received
CopyNext(d) == CopyRead(d) \/ CopyWrite(d) \/ CopyClose(d)
Next ==
    \/ HandlerNext
    \/ \E d \in Directions : CopyNext(d)
    \/ \E e \in Ends : PeerSend(e) \/ PeerReceive(e) \/ PeerLeaves(e)
Spec == Init /\ [][Next]_vars

\* The goroutines are scheduled and system calls return.  Nothing makes an end
\* send, read or leave.
FairSpec ==
    Spec /\ WF_vars(HandlerNext) /\ \A d \in Directions : WF_vars(CopyNext(d))

(***************************************************************************)
(* Properties                                                              *)
(***************************************************************************)
\* forwardConnection (transparentproxy.go:97-105): the numbers that the handler
\* logs are those of the chunks written, although both goroutines assign them
\* without a lock.
Forwarded == step = "end" /\ kind = "transparent" /\ copier["send"] # "none"
CountsTruthful == Forwarded => counts = written

\* A direction is cut off only because the other one has ended or an end has
\* gone; as long as neither is the case all that was sent is passed on.
LossExplained ==
    \A d \in Directions :
        ended[d] = "error" \/ (ended[d] = "eof" /\ written[d] < sent[d])
            => ended[Other(d)] # "no" \/ \E e \in Ends : peer[e] = "gone"

\* When the copies are over no descriptor of the connection is left open, those
\* that GetOriginalDst has gone through included.
DescriptorsReleased ==
    (\A d \in Directions : copier[d] = "end") =>
        \A f \in Descriptors : fd[f] # "open"

\* When one direction ends the whole tunnel does, even if the other one is
\* blocked in a write to an end that does not read.
TunnelCloses ==
    \A d \in Directions :
        ended[d] # "no" ~> \A x \in Directions : copier[x] = "end"
================================================================================
