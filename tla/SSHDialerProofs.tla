---------------------------- MODULE SSHDialerProofs ----------------------------
(***************************************************************************)
(* What a caller of the SSHDialer can rely on, for any number of           *)
(* goroutines, calls and connectors: the proofs of the safety properties   *)
(* of SSHDialer.                                                           *)
(***************************************************************************)
EXTENDS SSHDialer, TLAPS

(***************************************************************************)
(* The inductive invariant                                                 *)
(***************************************************************************)
CSteps == {"none", "connecting", "succeed", "clear", "notify", "end"}
Steps == {"idle", "read", "dial", "drop", "dropping", "dial_again", "connect",
          "get", "found", "create", "creating", "spawn", "created", "check",
          "park", "parked", "fetch", "take", "panic"}

\* The fields have their types, and what has not been created has not started.
TypeInv ==
    /\ created \in Nat /\ created <= MaxConnectors
    /\ client \in 0..MaxConnectors /\ sshConnector \in 0..created
    /\ readers \in Nat /\ writer \in Goroutines \cup {NoOne}
    /\ cstep \in [Connectors -> CSteps]
    /\ status \in [Connectors -> {"none", "succeeded", "failed"}]
    /\ pc \in [Goroutines -> Steps]
    /\ conn \in [Goroutines -> 0..MaxConnectors]
    /\ \A c \in Connectors : c > created => cstep[c] = "none"

\* Between Lock and Unlock a goroutine is the writer; once it has created a
\* connector there are no readers, while one that has found a connector in the
\* field keeps its read lock.
LockInv ==
    \A g \in Goroutines :
        /\ pc[g] \in {"dropping", "creating", "spawn", "created"} => writer = g
        /\ pc[g] \in {"spawn", "created"} => readers = 0
        /\ pc[g] = "found" => readers > 0

\* A client is dropped only after a session has broken.  So there is one from the
\* moment a connector has stored its own until then.
ClientInv ==
    /\ \A g \in Goroutines : pc[g] \in {"drop", "dropping"} => lost # {}
    /\ \A c \in Connectors :
          cstep[c] = "succeed" \/ status[c] = "succeeded" => client # 0 \/ lost # {}

\* Who looks for the client has seen the end of an attempt.
FetchInv == \A g \in Goroutines : pc[g] = "fetch" => status[conn[g]] # "none"

DialerInv ==
    TypeInv /\ LockInv /\ RegisteredIsLive /\ AwaitedIsStarted /\ ClientInv /\ FetchInv

(***************************************************************************)
(* Every step preserves it                                                 *)
(***************************************************************************)
USE DialerAssumption DEF Connectors

\* The steps of Dial, Connect and GetConnector.
LEMMA CallerKeepsInv ==
    ASSUME DialerInv, NEW g \in Goroutines, Call(g) \/ DialNext(g)
    PROVE  DialerInv'
<1>. USE DEF DialerInv, TypeInv, LockInv, RegisteredIsLive, AwaitedIsStarted,
             ClientInv, FetchInv, Steps, CSteps, Goto, dialer, rwmutex, connectors, locals
<1>. NoOne \notin Goroutines
  BY DEF Goroutines
<1>1. CASE Call(g)
  BY <1>1 DEF Call
<1>2. CASE ReadClient(g)
  BY <1>2 DEF CanRLock, ReadClient
<1>3. CASE ClientDial(g)
  BY <1>3 DEF ClientDial
<1>4. CASE DropLock(g)
  BY <1>4 DEF Lock, DropLock
<1>5. CASE DropClient(g)
  BY <1>5 DEF Locked, Unlocked, DropClient
<1>6. CASE DialAgain(g)
  BY <1>6 DEF DialAgain
<1>7. CASE ConnectClient(g)
  <2>1. CASE client # 0
    <3>1. /\ pc' = [pc EXCEPT ![g] = "dial_again"] /\ readers' = readers + 1
          /\ writer = NoOne
      BY <1>7, <2>1 DEF CanRLock, ConnectClient
    <3>2. TypeInv'
      BY <1>7, <3>1 DEF ConnectClient
    <3>3. LockInv'
      BY <1>7, <3>1 DEF ConnectClient
    <3>4. RegisteredIsLive' /\ AwaitedIsStarted'
      BY <1>7, <3>1 DEF ConnectClient
    <3>5. ClientInv' /\ FetchInv'
      BY <1>7, <3>1 DEF ConnectClient
    <3>. QED
      BY <3>2, <3>3, <3>4, <3>5
  <2>2. CASE client = 0
    BY <1>7, <2>2 DEF CanRLock, ConnectClient
  <2>. QED
    BY <2>1, <2>2
<1>8. CASE FindConnector(g)
  <2>1. CASE sshConnector # 0
    <3>1. /\ pc' = [pc EXCEPT ![g] = "found"] /\ readers' = readers + 1
          /\ writer = NoOne
      BY <1>8, <2>1 DEF LooksLocked, CanRLock, FindConnector
    <3>2. TypeInv'
      BY <1>8, <3>1 DEF FindConnector
    <3>3. LockInv'
      BY <1>8, <3>1 DEF FindConnector
    <3>4. RegisteredIsLive' /\ AwaitedIsStarted'
      BY <1>8, <3>1 DEF FindConnector
    <3>5. ClientInv' /\ FetchInv'
      BY <1>8, <3>1 DEF FindConnector
    <3>. QED
      BY <3>2, <3>3, <3>4, <3>5
  <2>2. CASE sshConnector = 0
    <3>1. pc' = [pc EXCEPT ![g] = "create"] /\ readers' = readers
      BY <1>8, <2>2 DEF FindConnector
    <3>2. TypeInv'
      BY <1>8, <3>1 DEF FindConnector
    <3>3. LockInv'
      BY <1>8, <3>1 DEF FindConnector
    <3>4. RegisteredIsLive' /\ AwaitedIsStarted'
      BY <1>8, <3>1 DEF FindConnector
    <3>5. ClientInv' /\ FetchInv'
      BY <1>8, <3>1 DEF FindConnector
    <3>. QED
      BY <3>2, <3>3, <3>4, <3>5
  <2>. QED
    BY <2>1, <2>2
<1>9. CASE ReturnFound(g)
  BY <1>9 DEF Result, ReturnFound
<1>10. CASE CreateLock(g)
  BY <1>10 DEF Lock, CreateLock
<1>11. CASE CreateConnector(g)
  BY <1>11 DEF Locked, CreateConnector
<1>12. CASE SpawnConnector(g)
  <2>1. CASE sshConnector # 0
    <3>1. cstep' = [cstep EXCEPT ![sshConnector] = "connecting"] /\ pc' = [pc EXCEPT ![g] = "created"]
      BY <1>12, <2>1 DEF SpawnConnector
    <3>2. \A x \in Goroutines \ {g} : pc[x] # "spawn"
      BY <1>12 DEF SpawnConnector
    <3>3. TypeInv'
      BY <1>12, <2>1, <3>1 DEF SpawnConnector
    <3>4. LockInv'
      BY <1>12, <3>1 DEF SpawnConnector
    <3>5. RegisteredIsLive' /\ AwaitedIsStarted'
      BY <1>12, <2>1, <3>1, <3>2 DEF SpawnConnector
    <3>6. ClientInv' /\ FetchInv'
      BY <1>12, <2>1, <3>1 DEF SpawnConnector
    <3>. QED
      BY <3>3, <3>4, <3>5, <3>6
  <2>2. CASE sshConnector = 0
    BY <1>12, <2>2 DEF SpawnConnector
  <2>. QED
    BY <2>1, <2>2
<1>13. CASE ReturnCreated(g)
  BY <1>13 DEF Result, Unlocked, ReturnCreated
<1>14. CASE CheckDone(g)
  BY <1>14 DEF CheckDone
<1>15. CASE Park(g)
  BY <1>15 DEF Park
<1>16. CASE TestClient(g)
  BY <1>16 DEF TestClient
<1>17. CASE TakeClient(g)
  BY <1>17 DEF TakeClient
<1>. QED
  BY <1>1, <1>2, <1>3, <1>4, <1>5, <1>6, <1>7, <1>8, <1>9, <1>10, <1>11, <1>12, <1>13, <1>14, <1>15, <1>16, <1>17
     DEF DialNext

\* The steps of connect(), and a session that breaks.
LEMMA ConnectorKeepsInv ==
    ASSUME DialerInv, NEW c \in Connectors, ConnectorNext(c) \/ SessionLost(c)
    PROVE  DialerInv'
<1>. USE DEF DialerInv, TypeInv, LockInv, RegisteredIsLive, AwaitedIsStarted,
             ClientInv, FetchInv, Steps, CSteps, CGoto, dialer, rwmutex, connectors, locals
<1>1. CASE PublishClient(c)
  BY <1>1 DEF PublishClient
<1>2. CASE SetStatus(c)
  <2>1. TypeInv'
    BY <1>2 DEF SuccessStep, SetStatus
  <2>2. LockInv' /\ RegisteredIsLive' /\ AwaitedIsStarted'
    BY <1>2 DEF SuccessStep, SetStatus
  <2>3. ClientInv'
    BY <1>2 DEF SuccessStep, SetStatus
  <2>4. FetchInv'
    BY <1>2 DEF SuccessStep, SetStatus
  <2>. QED
    BY <2>1, <2>2, <2>3, <2>4
<1>3. CASE ClearConnector(c)
  BY <1>3 DEF ConnectorCleared, ClearConnector
<1>4. CASE NotifyWaiting(c)
  BY <1>4 DEF Waiters, NotifyWaiting
<1>5. CASE SessionLost(c)
  BY <1>5 DEF SessionLost
<1>. QED
  BY <1>1, <1>2, <1>3, <1>4, <1>5 DEF ConnectorNext

\* DialerInv holds in every state, whatever callers and connectors do.
THEOREM DialerInvariant == Spec => []DialerInv
<1>1. Init => DialerInv
  BY DEF Init, DialerInv, TypeInv, LockInv, RegisteredIsLive, AwaitedIsStarted,
         ClientInv, FetchInv, Steps, CSteps
<1>2. DialerInv /\ [Next]_vars => DialerInv'
  <2>. SUFFICES ASSUME DialerInv, [Next]_vars
                PROVE  DialerInv'
    OBVIOUS
  <2>1. CASE Next
    BY <2>1, CallerKeepsInv, ConnectorKeepsInv DEF Next
  <2>2. CASE UNCHANGED vars
    BY <2>2 DEF DialerInv, TypeInv, LockInv, RegisteredIsLive, AwaitedIsStarted,
                ClientInv, FetchInv, vars, dialer, rwmutex, connectors, locals
  <2>. QED
    BY <2>1, <2>2
<1>. QED
  BY <1>1, <1>2, PTL DEF Spec

(***************************************************************************)
(* The properties                                                          *)
(***************************************************************************)
\* However many connectors overwrite and clear the field of each other, the one
\* GetConnector hands out is still to clear the field and to notify.
THEOREM RegisteredAlwaysLive == Spec => []RegisteredIsLive
<1>. QED
  BY DialerInvariant, PTL DEF DialerInv

\* No Dial ever waits for a connector whose goroutine has not been started.
THEOREM AwaitedAlwaysStarted == Spec => []AwaitedIsStarted
<1>. QED
  BY DialerInvariant, PTL DEF DialerInv

\* A Dial that waited for an attempt misses the client only when the attempt
\* failed or some session has broken.
THEOREM NilClientAlwaysExplained == Spec => []NilClientExplained
<1>1. DialerInv => NilClientExplained
  <2>. SUFFICES ASSUME DialerInv, NEW g \in Goroutines, pc[g] = "fetch", client = 0
                PROVE  status[conn[g]] = "failed" \/ lost # {}
    BY DEF NilClientExplained
  <2>1. conn[g] \in Connectors /\ status[conn[g]] # "none"
    BY DEF DialerInv, TypeInv, AwaitedIsStarted, FetchInv
  <2>. QED
    BY <2>1 DEF DialerInv, TypeInv, ClientInv
<1>. QED
  BY <1>1, DialerInvariant, PTL
================================================================================
