---------------------------- MODULE DialerRegistry ----------------------------
(***************************************************************************)
(* The registry of dialers (src/dialer/dialer.go) and the SSHDialer behind *)
(* it, which is created when a request first needs it.  Each request of    *)
(* the control API runs in a goroutine of its own, and so does each        *)
(* connection of a proxy; none of them locks the registry, the global      *)
(* sshDialer or the lists of keys and addresses.                           *)
(*                                                                         *)
(* The Go runtime may notice that two goroutines use the map at a time and *)
(* stop the daemon.  A daemon that has stopped takes no step at all, which *)
(* no property below forbids, so the map is read and written in one step.  *)
(***************************************************************************)
EXTENDS Naturals, Sequences, FiniteSets

CONSTANTS
    Requests,   \* requests of the control API, each with its goroutine
    Conns,      \* connections that a rule sends to a dialer
    Calls,      \* what a request can ask for: [kind, items]
    Valid,      \* the keys and addresses that can be parsed
    Names,      \* dialer names that rules use, "default" and "ssh" among them
    FileAtStart,\* whether ~/.ssh/known_hosts may be there or missing at first
    AtOnce      \* bound: the requests at work at a time, if clients overlap

Kinds == {"key", "keys", "connect", "dialer", "socks5"}

ASSUME RegistryAssumption ==
    /\ IsFiniteSet(Requests) /\ Requests \cap Conns = {} /\ AtOnce \in Nat
    /\ Calls \subseteq [kind : Kinds, items : Seq(STRING)]
    /\ \A call \in Calls : call.kind = "key" => call.items # <<>>
    /\ {"default", "ssh"} \subseteq Names /\ FileAtStart \subseteq BOOLEAN

\* Each request creates at most one SSHDialer.  0 is the nil pointer.
SSHDialers == 1 .. Cardinality(Requests)

VARIABLES
    world,          \* [file, clients]: known_hosts exists at first; requests
                    \* that the clients have under way at a time
    knownHosts,     \* ~/.ssh/known_hosts exists
    dialers,        \* the registered dialers: of each name, its type and impl
    sshDialer, made,\* the global variable, and the SSHDialers created so far
    lists,          \* of each SSHDialer: signers, config.Auth and addresses
    pc, call,       \* of each goroutine: the next step; what a request asks for
    dlr, buf,       \* the dialer it works on, and the list it has loaded
    todo            \* the items of its call that it has not dealt with

host == <<world, knownHosts>>
registry == <<dialers, sshDialer, made>>
locals == <<dlr, buf, todo>>
vars == <<host, registry, lists, pc, call, locals>>

NoCall == [kind |-> "none", items |-> <<>>]
NoDialer == [type |-> "none", impl |-> 0]
SSH(d) == [type |-> "ssh", impl |-> d]
Socks5 == [type |-> "socks5", impl |-> 0]

Init ==
    /\ world \in [file : FileAtStart, clients : 1 .. AtOnce]
    /\ knownHosts = world.file
    /\ dialers = [n \in Names |-> NoDialer]
    /\ sshDialer = 0 /\ made = 0
    /\ lists = [d \in SSHDialers |->
                    [signers |-> <<>>, auth |-> <<>>, addresses |-> <<>>]]
    /\ pc = [g \in Requests \cup Conns |-> "idle"]
    /\ call = [r \in Requests |-> NoCall]
    /\ dlr = [g \in Requests \cup Conns |-> 0]
    /\ buf = [r \in Requests |-> <<>>]
    /\ todo = [r \in Requests |-> <<>>]

Goto(g, step) == pc' = [pc EXCEPT ![g] = step]
Use(g, d) == dlr' = [dlr EXCEPT ![g] = d]
AtWork == {r \in Requests : pc[r] \notin {"idle", "end", "panic"}}

\* The user, or the ssh client, creates the file while the daemon runs.
CreateKnownHosts ==
    /\ ~knownHosts /\ knownHosts' = TRUE
    /\ UNCHANGED <<world, registry, lists, pc, call, locals>>

\* A request arrives.  Only a socks5 dialer needs no SSHDialer.
Receive(r) ==
    /\ pc[r] = "idle" /\ Cardinality(AtWork) < world.clients
    /\ \E c \in Calls :
          /\ call' = [call EXCEPT ![r] = c]
          /\ todo' = [todo EXCEPT ![r] = c.items]
          /\ Goto(r, IF c.kind = "socks5" THEN "register" ELSE "make")
    /\ UNCHANGED <<host, registry, lists, dlr, buf>>

(***************************************************************************)
(* makeSSHDialer                                                           *)
(***************************************************************************)
\* Fault: an SSHDialer is created for every request.
AlwaysNeeded == TRUE
DialerNeeded == sshDialer = 0
MakeSSHDialer(r) ==
    /\ pc[r] = "make"
    /\ Goto(r, IF DialerNeeded THEN "new" ELSE "return")
    /\ UNCHANGED <<host, registry, lists, call, locals>>

\* NewSSHDialer fails without the file, and its error is ignored.
\* Fault: it fails with the file.
FileMissing == ~knownHosts
FileLoads == knownHosts
NewSSHDialer(r) ==
    /\ pc[r] = "new"
    /\ made' = IF FileLoads THEN made + 1 ELSE made
    /\ sshDialer' = IF FileLoads THEN made + 1 ELSE 0
    /\ Goto(r, "info")
    /\ UNCHANGED <<host, dialers, lists, call, locals>>

\* The new dialer gets the name "default", unless that is taken.
\* Fault: whether it is or not.
AlwaysFree == TRUE
DefaultFree == dialers["default"] = NoDialer
ChooseName(r) ==
    /\ pc[r] = "info"
    /\ Use(r, sshDialer)
    /\ Goto(r, IF DefaultFree THEN "as_default" ELSE "as_ssh")
    /\ UNCHANGED <<host, registry, lists, call, buf, todo>>
RegisterNew(r) ==
    /\ \/ /\ pc[r] = "as_default"
          /\ dialers' = [dialers EXCEPT !["default"] = SSH(dlr[r])]
       \/ /\ pc[r] = "as_ssh"
          /\ dialers' = [dialers EXCEPT !["ssh"] = SSH(dlr[r])]
    /\ Goto(r, "return")
    /\ UNCHANGED <<host, sshDialer, made, lists, call, locals>>

\* The global is read once more.  A method of a nil dialer panics when it uses
\* its first field; a key that does not parse is refused before.
FirstStep(c) ==
    CASE c.kind = "key" -> IF Head(c.items) \in Valid THEN "signers" ELSE "end"
      [] c.kind = "keys" -> "list_keys"
      [] c.kind = "connect" -> "connect"
      [] c.kind = "dialer" -> "addresses"
ReturnDialer(r) ==
    /\ pc[r] = "return"
    /\ Use(r, sshDialer)
    /\ Goto(r, FirstStep(call[r]))
    /\ UNCHANGED <<host, registry, lists, call, buf, todo>>

(***************************************************************************)
(* AddSSHKey, AddDialer, GetConnector and GetSSHKeys                       *)
(***************************************************************************)
\* append to a list of the dialer: the list is loaded, and stored with its new
\* element later.
Load(r, field, d, store) ==
    /\ pc[r] = field
    /\ IF d = 0 THEN Goto(r, "panic") /\ UNCHANGED <<dlr, buf>>
       ELSE /\ Use(r, d) /\ buf' = [buf EXCEPT ![r] = lists[d][field]]
            /\ Goto(r, store)
    /\ UNCHANGED <<host, registry, lists, call, todo>>
Store(r, store, field, next) ==
    /\ pc[r] = store
    /\ lists' = [lists EXCEPT ![dlr[r]][field] =
                                  Append(buf[r], Head(todo[r]))]
    /\ buf' = [buf EXCEPT ![r] = <<>>]
    /\ Goto(r, next)
    /\ UNCHANGED <<host, registry, call, dlr>>

LoadSigners(r) == Load(r, "signers", dlr[r], "append_signers")
StoreSigners(r) == Store(r, "append_signers", "signers", "auth") /\ UNCHANGED todo
LoadAuth(r) == Load(r, "auth", dlr[r], "append_auth")
StoreAuth(r) == Store(r, "append_auth", "auth", "end") /\ UNCHANGED todo

\* AddDialer adds the addresses of a comma separated list to the global dialer,
\* which it reads each time, and leaves out those it cannot parse.
\* Fault: only the first address of the list is added.
NoMore(addresses) == <<>>
Rest(addresses) == Tail(addresses)
NextAddress(r) == todo' = [todo EXCEPT ![r] = Rest(@)]
LoadAddresses(r) ==
    /\ todo[r] # <<>> /\ Head(todo[r]) \in Valid
    /\ Load(r, "addresses", sshDialer, "append_addresses")
StoreAddress(r) ==
    Store(r, "append_addresses", "addresses", "addresses") /\ NextAddress(r)
SkipAddress(r) ==
    /\ pc[r] = "addresses" /\ todo[r] # <<>>
    /\ Head(todo[r]) \notin Valid /\ NextAddress(r)
    /\ UNCHANGED <<host, registry, lists, pc, call, dlr, buf>>
AllAdded(r) ==
    /\ pc[r] = "addresses" /\ todo[r] = <<>>
    /\ Goto(r, "register")
    /\ UNCHANGED <<host, registry, lists, call, locals>>

\* The server adds every dialer under the name "default".
Register(r) ==
    /\ pc[r] = "register"
    /\ dialers' = [dialers EXCEPT !["default"] =
                       IF call[r].kind = "socks5" THEN Socks5
                       ELSE SSH(sshDialer)]
    /\ Goto(r, "end")
    /\ UNCHANGED <<host, sshDialer, made, lists, call, locals>>

\* GetConnector and GetSSHKeys go on with the dialer they were given.
UseDialer(r) ==
    /\ pc[r] \in {"connect", "list_keys"}
    /\ Goto(r, IF dlr[r] = 0 THEN "panic" ELSE "end")
    /\ UNCHANGED <<host, registry, lists, call, locals>>

(***************************************************************************)
(* Dial                                                                    *)
(***************************************************************************)
\* A rule names the dialer.  Without one Dial returns neither a connection nor
\* an error; a nil SSHDialer panics at its lock.
Dial(g) ==
    /\ pc[g] = "idle"
    /\ \E n \in Names :
          LET info == dialers[n] IN
          /\ Use(g, info.impl)
          /\ Goto(g, IF info = NoDialer THEN "no_connection"
                     ELSE IF info = SSH(0) THEN "panic" ELSE "end")
    /\ UNCHANGED <<host, registry, lists, call, buf, todo>>

RequestNext(r) ==
    \/ Receive(r) \/ MakeSSHDialer(r) \/ NewSSHDialer(r) \/ ChooseName(r)
    \/ RegisterNew(r) \/ ReturnDialer(r) \/ LoadSigners(r) \/ StoreSigners(r)
    \/ LoadAuth(r) \/ StoreAuth(r) \/ LoadAddresses(r) \/ StoreAddress(r)
    \/ SkipAddress(r) \/ AllAdded(r) \/ Register(r) \/ UseDialer(r)
Next ==
    \/ CreateKnownHosts
    \/ \E r \in Requests : RequestNext(r)
    \/ \E g \in Conns : Dial(g)

Spec == Init /\ [][Next]_vars

(***************************************************************************)
(* Properties                                                              *)
(***************************************************************************)
Elements(list) == {list[i] : i \in 1 .. Len(list)}
\* How many of the first n elements of a list can be parsed.
ValidUpTo(list, n) == Cardinality({i \in 1 .. n : list[i] \in Valid})
Done(r, kind) == pc[r] = "end" /\ call[r].kind = kind
OneAtATime == world.clients = 1

\* AddSSHKey (dialer.go:34): if requests follow one another, a key that was
\* added is one that the dialer that will connect can use, and one that it
\* lists, whether it was created for this key, for another request or after
\* known_hosts appeared.  It is not so for requests that overlap.
KeyKept ==
    \A r \in Requests :
        OneAtATime /\ Done(r, "key") /\ Head(call[r].items) \in Valid =>
            /\ sshDialer # 0
            /\ Head(call[r].items) \in Elements(lists[sshDialer].auth)
            /\ Head(call[r].items) \in Elements(lists[sshDialer].signers)

\* AddDialer (dialer.go:80-83) and README.md:73: if requests follow one another,
\* the dialer that will connect tries all addresses that were added, by one list
\* or by several requests, in the order of the lists: those of a list that can
\* be parsed are in a row behind position i.
AddressesKept ==
    \A r \in Requests : OneAtATime /\ Done(r, "dialer") =>
        LET items == call[r].items
            given == ValidUpTo(items, Len(items)) IN
        given > 0 =>
          /\ sshDialer # 0
          /\ LET all == lists[sshDialer].addresses IN
             \E i \in 0 .. Len(all) :
                /\ i + given <= Len(all)
                /\ \A n \in 1 .. Len(items) : items[n] \in Valid =>
                      all[i + ValidUpTo(items, n)] = items[n]

\* makeSSHDialer (dialer.go:53-57): once there is a default dialer, only the
\* request to add one replaces it; a key, a listing or a connect does not, if it
\* overlaps with no other request.
DefaultIsSticky ==
    [][\/ ~OneAtATime
       \/ dialers["default"] \in {NoDialer, dialers'["default"]}
       \/ \E r \in Requests : pc[r] = "register" /\ pc'[r] = "end"]_vars

\* With known_hosts in place from the start nobody meets a nil SSHDialer,
\* although requests that overlap can create one each and the global changes
\* between two reads (dialer.go:46-60, 80-89).
NobodyMeetsNil ==
    world.file => \A g \in Requests \cup Conns : pc[g] # "panic"
================================================================================
