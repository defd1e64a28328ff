# Verification of go-sshtunnel

`sshtunnel` is a daemon that forwards TCP connections through SSH. A command
line client talks to it over a unix socket; local programs reach it through
proxies; rules decide which dialer a connection uses; the SSH dialer connects
on demand and asks the user when it has to. This directory holds TLA+ models of
its parts, translated from the Go, C and C++ source, the TLC configurations that check
them on small instances, and TLAPS proofs.

All line numbers refer to the repository (`src/...`). `PROJECT.json` maps every
definition to the lines it models.

## Inventory

| Part | State | Operations | Talks to |
|---|---|---|---|
| SSH connector (`dialer/sshdialer.go`) | status, messages, passphrase, pending host key, waiting list, lock | `connect()` in its own goroutine with the callbacks for host keys, passwords and banners; `SetPassphrase`, `AcceptHostKey`, `Wait` called by sessions | sessions, known_hosts, SSH server |
| SSH dialer (`dialer/sshdialer.go`) | client, current connector, RWMutex | `Dial`, `Connect`, `GetConnector` | proxies, connectors |
| `connect` command, `Server.Connect` | a message index per session | the loop that collects messages and answers prompts | connector |
| Dialer registry (`dialer/dialer.go`) | map of dialers, global `sshDialer`, lists of keys and addresses | `AddSSHKey`, `AddDialer`, `makeSSHDialer`, `Dial` | control API, rules |
| Rule set (`rules/rules.go`) | a slice of rules | `AddRule`, `Dial` | control API, proxies |
| Daemon (`server/start.go`, `server/server.go`) | pid file, socket, process ids, `done` channel | `start`, `stop`, `Run`, additional commands | commands, operating system |
| Tunnelled connection (`proxy/transparentproxy.go`, `proxy/httpproxy.go`, `originaldest`) | descriptors, two copying goroutines | accept, original destination, dial, copy, close | rules, both ends |
| Start of proxies (`server/server.go`, `proxy/*`) | list of proxies, globals `dnsTarget`, `dnsDialer`, the handler of "." | `StartProxy`, the factories, `forwardDNS`, `ResolveDNS` | control API, rules, libraries |
| Control API (`control/*`) | none of its own | HTTP over the unix socket | all of the above |
| Client hook (`client-hook/client-hook.cpp`) | the socket and its flags, `m_buffer`, the tables of header lines; nothing outlives a call | `getaddrinfo` and `connect` of an application | http proxy |
| Headers of pf (`originaldest/darwin/include`) | trees; none else | red-black and splay trees of `tree.h`; comparison, packing and conversion macros of `pfvar.h` | darwin version of `GetOriginalDst` |
| iptables, version, logger | none | | |

What makes it hard: every API request and every connection has its own
goroutine, and most state has no lock. The connector's fields are written under
a lock by the sessions and without it by `connect()`. The dialer's lock is kept
on two return paths. The daemon's files are written by two processes and
survive crashes. The client hook runs inside an application that does not know
of it: it reads a response byte by byte into a fixed buffer, from a daemon that
may end at any byte.

The headers of pf are copies of XNU's. The Go code uses `pfioc_natlook`,
`PF_OUT` and `DIOCNATLOOK` of them; the rest is compiled along with it. They are
modelled because they are in the repository and hold most of its C code.

What correct means, part by part: a prompt never blocks the attempt, its answers
never leak into another one, and the result that a session is told is true; a
`Dial` that waits is woken and finds the client; what was added (rules, keys,
addresses) is what will be used; one daemon serves and `stop` finds it; a tunnel
passes on what was sent and closes completely; all proxies resolve names at the
same DNS server; a hooked call returns, takes the head of a response and nothing
else, and leaves the application's socket as it was; a tree is an ordered set,
whatever was done to it before.
`PROJECT.json` lists the hazards, each at the line where it bites.

## Modules

* `SSHConnector` - one connection attempt: `connect()` with its callbacks, and
  any number of sessions (connect commands, `CliSessions`, or other clients of
  the API). Every write to a shared field is a step of its own where another
  goroutine could see the difference. The connector's lock is held across steps
  only by `SetPassphrase` (`lock`). A channel that a goroutine waits on is its
  membership in `waiting`.
* `ConnectProtocol` - the abstract specification: what the API promises its
  clients of one attempt. `SSHConnector!Protocol` is the refinement mapping
  (`phase` from `status`, `connected` from `client`).
* `SSHConnectorProofs` - the theorems about `SSHConnector`.
* `SSHDialer` - the dialer that all proxies share. A connector is reduced to
  what its callers see: it works, stores its client or fails, and runs its
  deferred function. Several can be at work at a time.
* `SSHDialerProofs`, `TunnelProofs`, `ProxiesProofs`, `DialerRegistryProofs`,
  `RuleSetProofs`, `HookedAppProofs` - the theorems about the module of that name,
  each with its inductive invariant (`RuleSetProofs` is about `RuleSetHistory`;
  `TunnelProofs` is about `PfVar` too).
* `RuleSet`, `RuleSetHistory` - `AddRule` and `Dial` on the unlocked slice: the
  slice header, the arrays it has pointed to, and the single stores of a new
  element; the `add-rule` command. `RuleSetHistory` adds the list as the comment
  of `AddRule` describes it, and what a `Dial` could have answered.
* `DialerRegistry` - the requests that create, fill and register dialers.
* `Daemon`, `DaemonProofs` - `start`, `stop`, and `Run` until its exit, with
  crashes, unrelated processes that get a used process id, and a user who removes
  a socket file.
* `Tunnel` - one connection of the transparent proxy, or one CONNECT of the http
  proxy, with the descriptors it goes through and its two copies.
* `Proxies` - requests that start proxies, each in its goroutine, the
  `forwardDNS` goroutines, and UDP ports that others can take.
* `ClientHook` - the interposed `getaddrinfo` and `connect`: the socket, the
  request and the loop that parses the response. A word between two separators is
  one byte, because the loop only looks at separators, which have names (`COLON`,
  `SP`, `CR`, `LF`).
* `HookedApp` - composes the hook with the daemon: the http proxy that answers,
  the socks5 proxy or nobody behind the port, proxies that are started later, and
  the end of the daemon at any moment.
* `RBTree`, `SplayTree` - the macros of `tree.h` on links, parents and colors, a
  color being the lowest bit of the parent as in the code. `TreeSet` - any
  sequence of their operations on one tree, with elements that come with stale
  links. `OrderedSet` - the abstract specification: a set of elements with
  different keys and the answers a caller may rely on.
  `TreeSet!ImplementsOrderedSet` is the refinement, with the elements reached from
  the root as the set.
* `PfVar` - the macros of `pfvar.h` that compute something, and the request that
  the darwin version of `GetOriginalDst` makes. They are pure operators and have
  proofs (in `TunnelProofs`) but no run of their own.
* `MC...` - values for TLC. A definition called a *fault* stands before the
  definition it distorts; the fault is a mistake the code could have had, and
  shows that a property would notice it.

The SSH protocol, `net`, `gin`, the Go runtime and the two ends of a connection
are external. They are modelled by the outcomes the code distinguishes.

## Runs

| Run | Shows |
|---|---|
| `connector` | Two addresses, one connect command and one other API client, keys and passwords, up to two banners. The waiting list is exact, so no notification blocks under the lock; `AcceptHostKey` has room in its channel; a passphrase stays in its prompt; no authentication without a verified host; results and exit codes are true and final; the attempt implements `ConnectProtocol`. |
| `connector_live` | One address, fair goroutines: the attempt ends or waits for the user, sessions get its result, and a passphrase given to a parked callback is taken. |
| `dialer` | Two proxy goroutines, one of them dialling twice, three connectors: nobody is handed an ended connector or waits for one that was not started, a missing client is explained by a failed attempt or a broken session, waiters are woken, the lock is granted as long as no read lock is kept. |
| `rules` | Four `add-rule` commands in turn, a `Dial` meanwhile: the slice is the documented list, and `Dial` gives the answer of one instant of its call unless it meets a slot that is being written. |
| `registry` | Three requests in turn or two at a time, `known_hosts` there or created at any moment: without overlap keys and addresses are kept and the default dialer is stable; with the file in place nobody meets a nil dialer, overlap or not. |
| `daemon` | Three commands of patient or impatient users, two process ids: one daemon serves, `stop` requests are heard, and for patient users the pid file names the daemon. |
| `tunnel` | Ends that send, read, shut down or vanish at any time: losses are explained, counts are true, descriptors are released, and the end of one direction ends the tunnel. |
| `proxies` | Three `StartProxy` requests at a time: UDP queries and the names of the other proxies go to the same server unless one DNS proxy overtakes another, a DNS proxy that is refused changes nothing, and the list is that of the proxies started unless two appends overlap. |
| `hook` | Calls that meet the http proxy, the socks5 proxy, nobody, or a daemon that ends, with reads that fail: the loop stays within buffer and tables, leaves the first byte of the tunnel to the application, never takes a part of an address for one, restores the socket on every way out, and returns. |
| `trees` | Every tree that any sequence of operations builds: red-black trees stay balanced, loops that remove what they visit reach every element in order, and every answer is that of `OrderedSet`. |
| `rejection` | Refuted: after the user's "no" the command exits without sending it, and `connect()` waits forever. |
| `reconnect` | Refuted: `Connect` and `GetConnector` return with the read lock held, and the next reconnect waits for the write lock forever. |

Behaviours of the models that no run singles out, because the code promises
nothing to hold against them, or because a property leaves exactly them out:

* `Wait` tests `Done()` before it takes the lock; a session that is between the
  two when the attempt ends is never woken. `ResultIsReported` leaves out exactly
  this step.
* The password callback has the same gap: a passphrase stored between its check
  and the list stays there, and the attempt waits (`PassphraseIsTaken` leaves out
  this step). Nor does the callback notify anyone of the status
  `need_passphrase`: a session that is parked by then is not asked until some
  message wakes it.
* `Server.Connect` reads the message count before the status, so a session can
  be asked about a key whose fingerprint message it was not sent.
* `AcceptHostKey` carries no fingerprint: the answer of a late session is applied
  to the key of the next address, if that is unknown too.
* After a failed attempt `Connect` returns neither client nor error, and `Dial`
  calls a method of nil (step `panic` of `SSHDialer`).
* A `Dial` that failed on an old client drops whatever client is there.
* `rules.Dial` can read the new length before the new element (answer `torn`);
  two appends at a time can lose a rule, or both add one CIDR.
* Without a `known_hosts` file a nil dialer is registered, and `connect` fails
  instead of asking.
* `PostJSON` cannot decode an empty response, so `add-rule` stops after the first
  of several CIDRs.
* `dialer.Dial` returns neither connection nor error for a name that is not
  registered.
* After a crash, `stop` kills whoever has the process id; a socket file that a
  killed daemon has left keeps the next one from starting until it is removed; a
  daemon whose additional command is `stop` waits for itself (`peer[p] = p` in
  `StopIsHeard`).
* A failed `Dial` or `getsockopt` leaves a descriptor of the tunnel open until
  the garbage collector finds it.
* Two DNS proxies started together can leave the target of one in `dnsTarget`
  and that of the other in the handler of "." (`overtaken`). Two `StartProxy`
  requests whose appends overlap leave one proxy out of the list (`together`).
* A free UDP port is closed and bound again later: if it was taken meanwhile, the
  panic of `forwardDNS` ends the daemon.
* A socks5 proxy started before the first DNS proxy never resolves by it
  (`ConfigResolver`).
* `ResolveDNS` errors are ignored: a failed lookup is answered with `<nil>`, which
  the hook passes to the system as the node (`Nil` in `HookedApp`).
* `connect` of the hook returns 0 whatever the response says, for a 503 too. A
  response head longer than the buffer stays on the socket in part (`Clean`
  leaves it out). A proxy port of more than 16 bits is cut by `htons`.

Seen in the source, and not in a model: queries of the DNS proxy are exchanged
over a direct connection and not through a dialer; `append` to
`sshDialer.config.Auth` may share an array with other connectors; an address
without a mask gets /32, for IPv6 too; an error of `Hijack` does not end the
handler; signal 0 tells that a process exists and not whose it is; `connect()`
uses the addresses of the global dialer; `known_hosts` is read once.

### Bounds

* `SSHConnector`: `NAddr` 2 is the smallest number with a "next address" for a
  stale answer or passphrase; two sessions are the smallest number that can
  disagree; `BannerLimit` bounds the messages so that the index is finite. The
  proofs need none of these bounds.
* `SSHDialer`: `Calls` bounds the calls of each goroutine; three calls give three
  connectors, one that ends, one that is current and one being created.
  `MaxConnectors` names the connectors; the run has as many as there are calls,
  so that this bound never keeps `GetConnector` from creating one. The proofs are
  for any `MaxConnectors`.
* `RuleSet`: addresses of `Width` 2 bits have networks that contain, equal and
  miss each other; the fourth rule fits into the array of the third
  (capacities 1, 2, 4), so appends with and without a copy both occur. `AtOnce`
  is the number of commands at work.
* `DialerRegistry`: one request that finds no file, one that creates the dialer
  and one that uses it; `AtOnce` 2 lets two create a dialer each. Whether
  requests overlap (`world.clients`) is chosen once.
* `Daemon`: two process ids, one for a daemon that ends and one for its successor
  or rival, each used again; three commands, two at work at a time unless users
  are patient; `MaxStops` bounds pending requests of clients.
* `Tunnel`: a `Window` of 1 and three `Chunks` are enough for a write that
  blocks with one chunk in the copy and one behind it.
* `Proxies`: three requests, so that two DNS proxies are started while a third
  request uses them, and two UDP ports, that both or others can take.
* `HookedApp`: in a buffer of 16 words (`BufSize`) the head with an IPv4 address
  fits and the one with an IPv6 address does not; 5 `Slots` are exactly those that
  the longest head of the proxy needs, so that one line too many would show. The
  code has 1024 bytes and 32 slots, and no check of the latter. `MaxErrors`
  bounds the failing reads of a call. The proofs are for every `BufSize` from 2 on,
  at least 5 `Slots` and every `MaxErrors`.
* `TreeSet`: with eight elements every case of an insertion and of a removal
  occurs; two have one key, so that an insertion is refused.

Deadlock checking is off everywhere: commands are given once and tunnels end, so
each of these systems may stop; a goroutine that hangs is what the liveness
properties are about.

### Fairness

Weak fairness of what runs by itself: the goroutines of the daemon and of a
tunnel, `connect()`, the handlers of sessions, the http proxy's handlers, and the
hook's own steps in a thread of the application. The Go scheduler runs every
goroutine that can run, and system calls of `connect()` have timeouts or end
with the connection. For `SSHDialer` a connector is taken to end, although one
that asks may wait for its user; that is the subject of `SSHConnector`, where it
may. Nothing is assumed of users, proxies' clients, the network or the ends of a
tunnel: they need not answer, call, break or read. Reads of the hook need not
fail, and the daemon need not end.

### Symmetry

Used in `rules`, `registry` and `proxies`, where commands or requests are
interchangeable and only safety is checked. Never with liveness.

## Proofs

`SSHConnectorProofs` (any number of sessions and addresses, from
`ConnectorAssumption`): none of the safety properties of `SSHConnector` is
inductive, because a session acts on a status that `connect()` has left long
ago. `ConnectorInv` ties both sides together: `LockInv` says that only a session
between the two assignments of `SetPassphrase` holds the lock, and that the
password callback has not returned by then; `StatusInv` what the status can be
at every step of `connect()`; `PromptInv` that a question is pending exactly
while `connect()` waits for its decision; `ClientInv` that a client is there
exactly on the way to success; `TrustInv` how a key came to be trusted;
`SessionInv` that what a session was told is still so. From it follow
`TypeCorrect`, `NotifyNeverBlocks`, `DecisionNeverBlocks`, `PassphraseConfined`,
`HostAlwaysVerified`, `ExitCodeAlwaysTruthful`, the action property
`StatusIsFinal`, and `Refinement`: every step is a step of `ConnectProtocol` or
leaves it alone. Every part of the invariant is needed: for instance without the
second half of `LockInv` the late assignment of `SetPassphrase` could overwrite a
final status.

`SSHDialerProofs` (any number of callers and connectors): `DialerInv` adds to
`RegisteredIsLive` and `AwaitedIsStarted` who holds which lock (`LockInv`: a
goroutine that has found a connector in the field keeps its read lock, so nobody
can create another one), that a client is dropped only after a session has broken
(`ClientInv`), and that whoever fetches the client has seen the end of an attempt
(`FetchInv`). From it follows `NilClientAlwaysExplained`.

`RuleSetProofs` (any rules, addresses of any width, any number of commands and
connections, arrays of any size): all three theorems have the hypothesis
`AtOnce = 1`, which is also the value in the run. It is needed, since two appends
at a time do lose rules; that nothing in the daemon enforces it is a limit of the
code. `ListInv` says where the slots of the current array and the table differ
while a rule is stored; `WriterInv` what the command at work has loaded and found,
and that the array it is about to install holds the table and is known to no
reader; `ReaderInv` what a `Dial` can still find. The argument for
`DialAlwaysFirstMatch`: while a `Dial` has the current array, its rules are the
table of this moment, and a replaced rule keeps its CIDR, so that no rule it has
passed starts to match. When `append` leaves the array it is full and holds the
table, and is never written again; the first match in it was the answer of the
table at that instant (`LeftInv`). A `Dial` that runs off the end has had an
instant without a match, or would have met one. The lemmas `ReaderQuiet`,
`ReaderLeft` and `ReaderStored` are these three cases.

`DialerRegistryProofs` (any number of requests and connections): `RegistryInv`
needs no assumption about overlap; its `NilInv` says who has a dialer at hand at
which step once `known_hosts` is there, `CountInv` that there are no more dialers
than requests that may have created one. `SerialInv` is for requests that follow
one another: everybody but the one at work has found its keys in the dialer that
will connect. From it follow `KeyAlwaysKept` and the action property
`DefaultAlwaysSticky`. `AddressInv` adds the addresses: a request to add a dialer
has dealt with the first items of its list, and the valid ones among these are the
last addresses of the dialer that will connect; a list that it has loaded to append
to is still that dialer's list, since nobody else is at work. Lists only grow, so
the row of a finished request stays where it is (`RowStays`). From it follows
`AddressesAlwaysKept`. `AddressesKept` speaks of positions and counts the valid
items before each, so that no list has to be filtered and the proof needs no
induction over lists. The assumptions on the constants are types (a request is a
kind and a list of strings) and that a request to add a key names one.

`DaemonProofs` (any number of processes and commands): `OneDaemonServes` needs
little: a daemon binds only when there is no socket file, and then nobody serves;
nobody removes the file of a daemon that serves. `PidAlwaysNamesServing` needs
`PatientInv`: with patient users one command is at work at a time, and for each
step of `start`, `stop` and the daemon it says who is alive and what the pid file
holds, so that the two writers of the file write the same pid. Process ids and
commands are assumed to be different things (`DaemonAssumption`).

`TunnelProofs` (any number of chunks, any window): `HandlerInv` relates the
handler to its copies, `CopyInv` what was taken, written and counted, `FdInv` who
has closed what. Two facts were missing in the first attempts: that a copy about
to write has taken exactly one chunk more than it wrote, and that the accepted
connection is closed before its original destination is asked for.

`ProxiesProofs` (any number of requests): `TargetInv` says that, unless somebody
was overtaken, one forwarder at most has not installed its handler, and that it
will install the current `dnsTarget`; `ListInv` that an append under way has read
the list as it is.

`HookedAppProofs` (any size of the buffer, any addresses, any number of failed
reads and calls): `TypeOK`, which holds the bounds of the buffer and of the tables,
is not inductive, because what ends the loop in time is the response. The first part
is therefore about the responses of the proxy: `Layout` says where each of their
lines starts, that CR and LF end lines and occur nowhere else, and that only the last
line is empty (`ResolveLayout`, `TunnelLayout`). `HookInv` then says that some number
`k` of bytes has been read: the wire holds those behind `k`, unless it was cut
(`OnWire`), `m_nvalues` is the line that `k` is in (`LineAt`), and without failed
reads the position, the keys, the values and the buffer are those that `k` bytes
without their CRs leave (`ParsedTo`, `HostRead`). A read that fails makes the loop
look again at the byte it finds in the buffer, which is nothing or the last CR
(`BufferInv`); so the number of lines is right even then, and the tables are never
overrun. From it follow `HookTypes`, `TunnelUntouched`, `WholeHost` and
`FlagsRestored`. Assumed are a buffer of at least 2 bytes and tables of at least 5
slots (`HookAssumption`; the code has 1024 and 32, and no check of the latter), and
that an address is a nonempty sequence of words without CR, LF and NUL
(`AddressAssumption`).

`TunnelProofs`, the part about `PfVar` (any addresses and numbers of their width, no
assumptions): facts about operators, without an invariant. In the build for both families `PF_AEQ`
and `PF_ANEQ` look at all four words of an IPv4 address too, so that both can be
true of one pair (`EqualAndNotEqual`); the requests of `GetOriginalDst` are zeroed
first and compare well (`RequestsCompare`). `PF_OSFP_PACK` and the 64-bit counters
survive their round trips. The conversion of a peer applies `ntohs` on the way
back only, so its mss returns with its bytes exchanged (`PeerRoundTrip`). The
remaining theorems are about tables that comments ask to keep in step: search
keys and structures, constants and names, flags and masks. Arithmetic on packed
words is split into steps of one division each, the largest the solver does.

Model-checked only:

* all liveness properties: TLAPS has no rules for fairness here;
* `Balanced`, `WalksInOrder` and `ImplementsOrderedSet` of `TreeSet`: the loops of
  `tree.h` go up or down a tree of any height, so that they are recursive operators,
  and what they compute needs induction over trees. The prover can do neither.

All other safety and action properties of the passing runs are proved.

## Not modelled

* The content of messages, keys and addresses beyond what is told apart; one
  address family (IPv4); `config.User`.
* The abort of the Go runtime when it notices concurrent use of a map: a daemon
  that has stopped violates nothing that is stated.
* A slice header is loaded in two steps by readers and by the search in
  `AddRule`, but in one by `append`.
* All process ids have the same number of digits, so that a pid written over
  another replaces it.
* `known_hosts` is read once per daemon; a model of several attempts would be
  needed to see the effect.
* Requests of the http proxy other than CONNECT and the lookup of a name; the
  socks5 library; the handler of a DNS query, with its truncation to the size of
  the UDP message; trace output of the hook, and the signal of a write to a
  closed connection.
* The darwin version of `GetOriginalDst` beyond its request: it prints the answer,
  returns none, never closes `/dev/pf`, and the proxy that would use it is built
  for Linux only.
* Of `pfvar.h` the structures of ioctl requests and the declarations of kernel
  functions and variables; all of `radix.h`, which declares functions of the
  kernel.
* iptables, version, logger: no state of their own.

## Plan

1. `HostKeys`: several attempts of one daemon with a file that is read once.
2. Composition of rules and registry: which dialer a connection meets when rules
   and dialers are added in any order.
