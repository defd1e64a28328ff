------------------------------- MODULE SSHDialer -------------------------------
(***************************************************************************)
(* The SSHDialer that all proxies share (src/dialer/sshdialer.go): Dial,   *)
(* Connect and GetConnector called by many goroutines, the RWMutex they    *)
(* use, the client they share, and the connectors they start, of which     *)
(* several can be at work at a time.                                       *)
(*                                                                         *)
(* The body of connect() is the subject of SSHConnector; here a connector  *)
(* works, stores its client or fails, and then runs its deferred function. *)
(* It writes the dialer's fields client and sshConnector without the lock, *)
(* so a goroutine that reads one of them twice may see two values.         *)
(***************************************************************************)
EXTENDS Naturals

CONSTANTS
    Dialers,    \* goroutines of the proxies, which call Dial
    Sessions,   \* handlers of "connect", which call GetConnector(true)
    NoOne,      \* the writer of a lock nobody writes under
    Calls,      \* bound: the calls each goroutine makes
    MaxConnectors   \* bound: the connectors that are created; each call creates
                    \* one at most

ASSUME DialerAssumption ==
    /\ MaxConnectors \in Nat
    /\ Calls \in [Dialers \cup Sessions -> Nat]
    /\ NoOne \notin Dialers \cup Sessions

Goroutines == Dialers \cup Sessions

\* 0 is the nil pointer.
Connectors == 1..MaxConnectors

VARIABLES
    client,         \* SSHDialer.client: the connector that stored it, or 0
    sshConnector,   \* SSHDialer.sshConnector, or 0
    readers,        \* read locks of SSHDialer.lock that are held
    writer,         \* the goroutine inside Lock, waiting or holding
    created,        \* connectors created so far
    cstep, status,  \* of each connector: the next step, and its result
    lost,           \* connectors whose SSH session has broken
    pc, left,       \* of each goroutine: the next step, calls left
    cl, conn        \* its local variables client and sshConnector, 0 when unset

dialer == <<client, sshConnector>>
rwmutex == <<readers, writer>>
connectors == <<created, cstep, status>>
locals == <<left, cl, conn>>
vars == <<dialer, rwmutex, connectors, lost, pc, locals>>

Init ==
    /\ client = 0 /\ sshConnector = 0 /\ readers = 0 /\ writer = NoOne
    /\ created = 0 /\ lost = {}
    /\ cstep = [c \in Connectors |-> "none"]
    /\ status = [c \in Connectors |-> "none"]
    /\ pc = [g \in Goroutines |-> "idle"] /\ left = Calls
    /\ cl = [g \in Goroutines |-> 0] /\ conn = [g \in Goroutines |-> 0]

(***************************************************************************)
(* sync.RWMutex.  A writer that waits keeps new readers out.               *)
(***************************************************************************)
CanRLock == writer = NoOne

\* Lock is called: g is the next writer.  It has the lock when no reader is
\* left.
Lock(g) == writer = NoOne /\ writer' = g
Locked(g) == writer = g /\ readers = 0

Goto(g, step) == pc' = [pc EXCEPT ![g] = step]

(***************************************************************************)
(* Dial                                                                    *)
(***************************************************************************)
\* A proxy calls Dial, a session GetConnector.
Call(g) ==
    /\ pc[g] = "idle" /\ left[g] > 0
    /\ left' = [left EXCEPT ![g] = @ - 1]
    /\ Goto(g, IF g \in Dialers THEN "read" ELSE "get")
    /\ UNCHANGED <<dialer, rwmutex, connectors, lost, cl, conn>>

\* The client is read between RLock and RUnlock.
ReadClient(g) ==
    /\ pc[g] = "read" /\ CanRLock
    /\ cl' = [cl EXCEPT ![g] = client]
    /\ Goto(g, IF client # 0 THEN "dial" ELSE "connect")
    /\ UNCHANGED <<dialer, rwmutex, connectors, lost, left, conn>>

\* client.Dial.  While the session is up Dial returns, with a connection or an
\* OpenChannelError.
ClientDial(g) ==
    /\ pc[g] = "dial"
    /\ Goto(g, IF cl[g] \in lost THEN "drop" ELSE "idle")
    /\ cl' = [cl EXCEPT ![g] = 0]
    /\ UNCHANGED <<dialer, rwmutex, connectors, lost, left, conn>>

\* The session is lost: forget the client.  Fault: the lock is not released.
StillLocked == writer
Unlocked == NoOne
DropLock(g) ==
    /\ pc[g] = "drop" /\ Lock(g)
    /\ Goto(g, "dropping")
    /\ UNCHANGED <<dialer, readers, connectors, lost, locals>>
DropClient(g) ==
    /\ pc[g] = "dropping" /\ Locked(g)
    /\ client' = 0 /\ writer' = Unlocked
    /\ Goto(g, "connect")
    /\ UNCHANGED <<sshConnector, readers, connectors, lost, locals>>

\* client.Dial after Connect: Dial returns whatever comes of it.
DialAgain(g) ==
    /\ pc[g] = "dial_again"
    /\ cl' = [cl EXCEPT ![g] = 0] /\ conn' = [conn EXCEPT ![g] = 0]
    /\ Goto(g, "idle")
    /\ UNCHANGED <<dialer, rwmutex, connectors, lost, left>>

(***************************************************************************)
(* Connect and GetConnector                                                *)
(***************************************************************************)
\* Connect returns a client it finds with the read lock held, for good.
ConnectClient(g) ==
    /\ pc[g] = "connect" /\ CanRLock
    /\ \/ /\ client # 0
          /\ readers' = readers + 1
          /\ cl' = [cl EXCEPT ![g] = client]
          /\ Goto(g, "dial_again")
       \/ client = 0 /\ Goto(g, "get") /\ UNCHANGED <<readers, cl>>
    /\ UNCHANGED <<dialer, writer, connectors, lost, left, conn>>

\* GetConnector returns a connector it finds with the read lock held, for good.
\* Fault: it looks without the lock.
LooksUnlocked == TRUE
LooksLocked == CanRLock
FindConnector(g) ==
    /\ pc[g] = "get" /\ LooksLocked
    /\ \/ sshConnector # 0 /\ readers' = readers + 1 /\ Goto(g, "found")
       \/ sshConnector = 0 /\ Goto(g, "create") /\ UNCHANGED readers
    /\ UNCHANGED <<dialer, writer, connectors, lost, locals>>

\* The result is sshDialer.sshConnector, read once more: nil if a connector has
\* ended since, and then the caller's first method call panics.
Result(g) ==
    /\ conn' = IF g \in Dialers THEN [conn EXCEPT ![g] = sshConnector] ELSE conn
    /\ Goto(g, IF sshConnector = 0 THEN "panic"
               ELSE IF g \in Dialers THEN "check" ELSE "idle")
ReturnFound(g) ==
    /\ pc[g] = "found" /\ Result(g)
    /\ UNCHANGED <<dialer, rwmutex, connectors, lost, left, cl>>

\* No connector was found, before the lock was released: create one now.
CreateLock(g) ==
    /\ pc[g] = "create" /\ Lock(g)
    /\ Goto(g, "creating")
    /\ UNCHANGED <<dialer, readers, connectors, lost, locals>>
CreateConnector(g) ==
    /\ pc[g] = "creating" /\ Locked(g) /\ created < MaxConnectors
    /\ created' = created + 1
    /\ sshConnector' = created + 1
    /\ Goto(g, "spawn")
    /\ UNCHANGED <<client, rwmutex, cstep, status, lost, locals>>

\* go sshDialer.sshConnector.connect().  When another connector's deferred
\* function has cleared the field, connect() runs on nil and panics: the
\* daemon is gone.
SpawnConnector(g) ==
    /\ pc[g] = "spawn"
    /\ \/ /\ sshConnector # 0
          /\ cstep' = [cstep EXCEPT ![sshConnector] = "connecting"]
          /\ Goto(g, "created")
       \/ /\ sshConnector = 0
          /\ pc' = [h \in Goroutines |-> "panic"]
          /\ UNCHANGED cstep
    /\ UNCHANGED <<dialer, rwmutex, created, status, lost, locals>>
ReturnCreated(g) ==
    /\ pc[g] = "created" /\ Result(g)
    /\ writer' = Unlocked
    /\ UNCHANGED <<dialer, readers, connectors, lost, left, cl>>

\* Connect's loop: Done() of the loop and of Wait, then the waiting list.
CheckDone(g) ==
    /\ pc[g] = "check"
    /\ Goto(g, IF status[conn[g]] # "none" THEN "fetch" ELSE "park")
    /\ UNCHANGED <<dialer, rwmutex, connectors, lost, locals>>
Park(g) ==
    /\ pc[g] = "park"
    /\ Goto(g, "parked")
    /\ UNCHANGED <<dialer, rwmutex, connectors, lost, locals>>

\* The client is tested and then read, both without the lock.  Without one the
\* result is nil and the connector's err, which nothing ever sets: Dial calls
\* a method of the nil client.
TestClient(g) ==
    /\ pc[g] = "fetch"
    /\ Goto(g, IF client = 0 THEN "panic" ELSE "take")
    /\ UNCHANGED <<dialer, rwmutex, connectors, lost, locals>>
TakeClient(g) ==
    /\ pc[g] = "take"
    /\ cl' = [cl EXCEPT ![g] = client]
    /\ Goto(g, IF client = 0 THEN "panic" ELSE "dial_again")
    /\ UNCHANGED <<dialer, rwmutex, connectors, lost, left, conn>>

(***************************************************************************)
(* The connectors                                                          *)
(***************************************************************************)
CGoto(c, step) == cstep' = [cstep EXCEPT ![c] = step]

\* The client that connect() stores is its own.
PublishClient(c) ==
    /\ cstep[c] = "connecting"
    /\ client' = c
    /\ CGoto(c, "succeed")
    /\ UNCHANGED <<sshConnector, rwmutex, created, status, lost, pc, locals>>

\* The result: succeeded after the client is stored, failed by the deferred
\* function.  Fault: succeeded before the client is stored.
EarlySuccess == {"connecting", "succeed"}
SuccessStep == {"succeed"}
SetStatus(c) ==
    /\ \/ cstep[c] \in SuccessStep /\ status' = [status EXCEPT ![c] = "succeeded"]
       \/ cstep[c] = "connecting" /\ status' = [status EXCEPT ![c] = "failed"]
    /\ CGoto(c, "clear")
    /\ UNCHANGED <<dialer, rwmutex, created, lost, pc, locals>>

\* The field is cleared, whatever connector it points to.  Fault: it is not.
ConnectorKept == sshConnector
ConnectorCleared == 0
ClearConnector(c) ==
    /\ cstep[c] = "clear"
    /\ sshConnector' = ConnectorCleared
    /\ CGoto(c, "notify")
    /\ UNCHANGED <<client, rwmutex, created, status, lost, pc, locals>>

\* The last notification; earlier ones only make the waiters check again.
\* Fault: nobody is woken.
NoWaiters(c) == {}
Waiters(c) == {g \in Goroutines : pc[g] = "parked" /\ conn[g] = c}
NotifyWaiting(c) ==
    /\ cstep[c] = "notify"
    /\ pc' = [g \in Goroutines |-> IF g \in Waiters(c) THEN "check" ELSE pc[g]]
    /\ CGoto(c, "end")
    /\ UNCHANGED <<dialer, rwmutex, created, status, lost, locals>>

\* The network: an SSH session breaks.
SessionLost(c) ==
    /\ cstep[c] = "succeed" \/ status[c] = "succeeded"
    /\ lost' = lost \cup {c}
    /\ UNCHANGED <<dialer, rwmutex, connectors, pc, locals>>

DialNext(g) ==
    \/ ReadClient(g) \/ ClientDial(g) \/ DropLock(g) \/ DropClient(g)
    \/ DialAgain(g) \/ ConnectClient(g) \/ FindConnector(g) \/ ReturnFound(g)
    \/ CreateLock(g) \/ CreateConnector(g) \/ SpawnConnector(g)
    \/ ReturnCreated(g) \/ CheckDone(g) \/ Park(g) \/ TestClient(g)
    \/ TakeClient(g)
ConnectorNext(c) ==
    PublishClient(c) \/ SetStatus(c) \/ ClearConnector(c) \/ NotifyWaiting(c)

Next ==
    \/ \E g \in Goroutines : Call(g) \/ DialNext(g)
    \/ \E c \in Connectors : ConnectorNext(c) \/ SessionLost(c)

Spec == Init /\ [][Next]_vars

\* Goroutines are scheduled and attempts to connect end.  Nothing makes a proxy
\* call or a session break.
FairSpec ==
    /\ Spec
    /\ \A g \in Goroutines : WF_vars(DialNext(g))
    /\ \A c \in Connectors : WF_vars(ConnectorNext(c))

(***************************************************************************)
(* Properties                                                              *)
(***************************************************************************)
\* GetConnector never hands out a connector that is past its last look at the
\* field: as long as the field points to one, it is about to be started, or its
\* deferred function is still to clear the field and to notify, even when several
\* connectors overwrite and clear the field of each other.
RegisteredIsLive ==
    sshConnector # 0 =>
        \/ cstep[sshConnector] \in {"connecting", "succeed", "clear"}
        \/ cstep[sshConnector] = "none" /\ \E g \in Goroutines : pc[g] = "spawn"

\* Nobody waits for a connector that is not running: the write lock hides a
\* new connector until its goroutine has been started.
AwaitedIsStarted ==
    \A g \in Goroutines :
        pc[g] \in {"check", "park", "parked", "fetch"} =>
            conn[g] # 0 /\ cstep[conn[g]] # "none"

\* connect() stores the client before it reports success: a Dial that waited
\* finds none only when the attempt failed or some session has broken.
NilClientExplained ==
    \A g \in Goroutines :
        pc[g] = "fetch" /\ client = 0 => status[conn[g]] = "failed" \/ lost # {}

\* A Dial that is parked before the last notification of its connector is woken.
WaiterIsWoken ==
    \A g \in Dialers :
        pc[g] = "parked" /\ cstep[conn[g]] # "end" ~> pc[g] # "parked"

\* The lock is never held for long by its users: as long as no read lock is
\* kept by a return between RLock and RUnlock, everyone who asks for the lock
\* gets it.
LockSteps == {"read", "drop", "dropping", "connect", "get", "create", "creating"}
LockIsGranted ==
    [](readers = 0) =>
        \A g \in Goroutines : pc[g] \in LockSteps ~> pc[g] \notin LockSteps

\* "reconnect if required": a Dial whose session has broken gets as far as
\* connecting again.
ReconnectProceeds ==
    \A g \in Dialers : pc[g] = "drop" ~> pc[g] = "connect"
===============================================================================
