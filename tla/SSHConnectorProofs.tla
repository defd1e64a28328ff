-------------------------- MODULE SSHConnectorProofs --------------------------
(***************************************************************************)
(* Proofs about SSHConnector, for any number of sessions and addresses.    *)
(* All of them rest on one inductive invariant, ConnectorInv, which says   *)
(* at each step of connect() what the unlocked fields can hold.            *)
(***************************************************************************)
EXTENDS SSHConnector, TLAPS

\* The steps of the password callback in which a passphrase may arrive.
PasswordSteps == {"pw_check", "park", "parked"}

\* The steps after the loop over the addresses.
LastSteps == {"exit", "clear", "last_notify", "end"}

\* Only SetPassphrase holds the lock between two steps, and only while the
\* password callback has not returned.
LockInv ==
    /\ \A s \in Sessions : lock = s <=> pc[s] = "set_status"
    /\ lock # NoOne => pc[Connect] \in PasswordSteps \cup {"pw_notify"}

\* What status can be at each step of connect().
StatusInv ==
    /\ pc[Connect] \notin {"decide"} \cup PasswordSteps \cup LastSteps
          => status \in Working
    /\ pc[Connect] = "decide"
          => status = IF pending.decision = "none" THEN "unknown_host_key"
                                                   ELSE "handshake"
    /\ pc[Connect] \in PasswordSteps => status \in {"need_passphrase", "handshake"}
    /\ pc[Connect] = "exit" => status \in Working \cup {"succeeded"}
    /\ pc[Connect] \in LastSteps \ {"exit"} => Done

\* A question is pending exactly while connect() waits for its decision, and a
\* passphrase only while the password callback runs.
PromptInv ==
    /\ pc[Connect] # "decide" => pending = NoHostKey
    /\ pc[Connect] = "decide" => pending.addr = addr /\ addr # 0
    /\ PassphraseStaysInPrompt

\* The client is stored on the way to "succeeded" and nowhere else.
ClientInv ==
    /\ pc[Connect] \notin {"next"} \cup LastSteps => addr # 0
    /\ client # 0 <=> \/ pc[Connect] = "succeed"
                      \/ pc[Connect] \in LastSteps /\ status = "succeeded"

\* The verdict on the key of the current address, up to the decision on it.
TrustInv ==
    /\ HostVerified
    /\ pc[Connect] = "decide" =>
          /\ verdict = "unknown"
          /\ pending.decision = "yes" => addr \in trusted
    /\ pc[Connect] = "persist" => verdict = "unknown" /\ addr \in trusted

\* What a session has been told is still so, and it sends no empty answer.
SessionInv ==
    \A s \in Sessions :
        /\ out[s] \in Final => status = out[s]
        /\ pc[s] = "exit0" => status = "succeeded"
        /\ pc[s] = "accept" => answer[s] # "none"

ConnectorInv ==
    /\ TypeOK /\ WaitersAreParked /\ LockInv /\ StatusInv
    /\ PromptInv /\ ClientInv /\ TrustInv /\ SessionInv

(***************************************************************************)
(* What a step does to the control state                                   *)
(***************************************************************************)
\* g goes on at step; the others stay, or are woken from Wait.
Moves(g, step) ==
    /\ pc' \in [Goroutines -> ConnectSteps \cup SessionSteps]
    /\ pc'[g] = step
    /\ \A h \in Goroutines \ {g} :
          pc'[h] = pc[h] \/ (pc[h] = "parked" /\ pc'[h] = Resumed(h))
    /\ waiting' \subseteq Goroutines /\ WaitersAreParked'

\* A step that notifies nobody keeps the list exact.
LEMMA GotoMoves ==
    ASSUME TypeOK, WaitersAreParked, NEW g \in Goroutines,
           NEW step \in (ConnectSteps \cup SessionSteps) \ {"parked"},
           pc[g] # "parked", Goto(g, step), waiting' = waiting
    PROVE  Moves(g, step)
BY DEF TypeOK, WaitersAreParked, Goto, Moves

\* notifyWaitingLocked wakes every parked goroutine and nobody else.
LEMMA NotifyMoves ==
    ASSUME TypeOK, WaitersAreParked, NEW g \in Goroutines,
           NEW step \in (ConnectSteps \cup SessionSteps) \ {"parked"},
           pc[g] # "parked", NotifyWaitingLocked(g, step)
    PROVE  Moves(g, step)
<1>1. /\ pc' = [h \in Goroutines |-> IF h = g THEN step
                                   ELSE IF h \in waiting THEN Resumed(h)
                                   ELSE pc[h]]
      /\ waiting' = {}
    BY DEF NotifyWaitingLocked, ListNotified
<1>2. \A h \in Goroutines : /\ Resumed(h) \in ConnectSteps \cup SessionSteps
                            /\ Resumed(h) # "parked"
    BY DEF Resumed, ConnectSteps, SessionSteps
<1>3. pc' \in [Goroutines -> ConnectSteps \cup SessionSteps]
    BY <1>1, <1>2 DEF TypeOK
<1>4. \A h \in Goroutines \ {g} :
          pc'[h] = pc[h] \/ (pc[h] = "parked" /\ pc'[h] = Resumed(h))
    BY <1>1 DEF WaitersAreParked
<1>5. WaitersAreParked'
    BY <1>1, <1>2 DEF WaitersAreParked
<1> QED
    BY <1>1, <1>3, <1>4, <1>5 DEF Moves

\* Wait enters the list before it receives.
LEMMA ParkMoves ==
    ASSUME TypeOK, WaitersAreParked, NEW g \in Goroutines, Park(g)
    PROVE  Moves(g, "parked")
BY DEF TypeOK, WaitersAreParked, Park, Goto, Moves, ConnectSteps

(***************************************************************************)
(* The steps of connect()                                                  *)
(***************************************************************************)
\* The part of the invariant that is about connect() and its fields.
AttemptInv == LockInv /\ StatusInv /\ PromptInv /\ ClientInv /\ TrustInv

\* Sessions are only moved on by connect(), and what they were told stays so
\* as long as a final status is not changed.
LEMMA SessionsKept ==
    ASSUME ConnectorInv, NEW step \in ConnectSteps, Moves(Connect, step),
           UNCHANGED session, Done => UNCHANGED status
    PROVE  SessionInv'
BY ConnectorAssumption
DEF ConnectorInv, SessionInv, Moves, Resumed, Goroutines, session, Done, Final

\* The types that a step of connect() cannot disturb.
LEMMA ConnectTypes ==
    ASSUME TypeOK, NEW step \in ConnectSteps, Moves(Connect, step),
           UNCHANGED <<interactive, lock, count, out, fp, answer>>,
           nmsg' \in {nmsg, nmsg + 1},
           status' \in Status, passphrase' \in {"empty", "given"},
           pending' \in PendingHostKey, addr' \in 0..NAddr, client' \in 0..NAddr,
           verdict' \in {"none", "known", "mismatch", "unknown", "error"},
           trusted' \subseteq 1..NAddr, knownHosts' \subseteq 1..NAddr,
           registered' \in BOOLEAN
    PROVE  TypeOK'
<1>1. /\ pc' \in [Goroutines -> ConnectSteps \cup SessionSteps]
      /\ pc'[Connect] \in ConnectSteps
      /\ \A s \in Sessions : pc'[s] \in SessionSteps
    BY ConnectorAssumption
    DEF TypeOK, Moves, Resumed, Goroutines, SessionSteps
<1>2. nmsg' \in Nat /\ nmsg <= nmsg'
    BY DEF TypeOK
<1>3. \A s \in Sessions : count'[s] <= nmsg'
    BY <1>2 DEF TypeOK
<1> QED
    BY <1>1, <1>2, <1>3 DEF TypeOK, Moves

\* Each of them preserves the invariant.
LEMMA ConnectPreserves == ConnectorInv /\ ConnectNext => ConnectorInv'
<1> SUFFICES ASSUME ConnectorInv, ConnectNext PROVE ConnectorInv'
    OBVIOUS
<1>0. TypeOK /\ WaitersAreParked /\ AttemptInv /\ SessionInv /\ Connect \in Goroutines
    BY DEF ConnectorInv, AttemptInv, Goroutines
<1>a. ASSUME NEW step \in ConnectSteps \ {"parked"}, pc[Connect] # "parked",
             Silently(step) \/ Printf(step) \/ NotifyWaitingLocked(Connect, step)
      PROVE  Moves(Connect, step)
    BY <1>0, <1>a, GotoMoves, NotifyMoves DEF Silently, Printf
\* It remains to show what an action does to the fields of the attempt.
<1>b. ASSUME NEW step \in ConnectSteps, Moves(Connect, step), At(pc[Connect]),
             AttemptInv', TypeOK', Done => UNCHANGED status
      PROVE  ConnectorInv'
    BY <1>b, SessionsKept DEF ConnectorInv, AttemptInv, Moves, At
<1> USE ConnectorAssumption, <1>0
    DEF At, prompt, target, tunnel, session, Goroutines, ConnectSteps,
        AttemptInv, LockInv, StatusInv, PromptInv, ClientInv, TrustInv,
        HostVerified, PassphraseStaysInPrompt, PasswordSteps, LastSteps,
        TypeOK, Done, Status, Working, Prompts, Final
<1>1. CASE TryAddress
  <2>1. Moves(Connect, "dial")
    BY <1>1, <1>a DEF TryAddress
  <2>2. AttemptInv' /\ (Done => UNCHANGED status)
    BY <1>1, <2>1 DEF TryAddress, Printf, Moves, Resumed
  <2>3. addr' \in 0..NAddr
    BY <1>1 DEF TryAddress, Printf
  <2>4. TypeOK'
    BY <1>1, <2>1, <2>3, ConnectTypes DEF TryAddress, Printf
  <2> QED
    BY <1>1, <1>b, <2>1, <2>2, <2>4 DEF TryAddress
<1>2. CASE NoMoreAddresses
  <2>1. Moves(Connect, "exit")
    BY <1>2, <1>a DEF NoMoreAddresses
  <2>2. AttemptInv' /\ (Done => UNCHANGED status)
    BY <1>2, <2>1 DEF NoMoreAddresses, Silently, Moves, Resumed
  <2>3. TypeOK'
    BY <1>2, <2>1, ConnectTypes DEF NoMoreAddresses, Silently
  <2> QED
    BY <1>2, <1>b, <2>1, <2>2, <2>3 DEF NoMoreAddresses
<1>3. CASE DialTimeout
  <2>1. \E step \in {"next", "hostkey"} : Moves(Connect, step)
    BY <1>3, <1>a DEF DialTimeout
  <2>2. AttemptInv' /\ (Done => UNCHANGED status)
    BY <1>3, <2>1 DEF DialTimeout, Silently, Printf, Moves, Resumed
  <2>3. TypeOK'
    BY <1>3, <2>1, ConnectTypes DEF DialTimeout, Silently, Printf
  <2> QED
    BY <1>3, <1>b, <2>1, <2>2, <2>3 DEF DialTimeout
<1>4. CASE HostKeyCallback
  <2>1. \E step \in {"auth", "hs_failed", "refused"} : Moves(Connect, step)
                             /\ (step = "auth" => verdict' = "known")
    BY <1>4, <1>a DEF HostKeyCallback
  <2>2. AttemptInv' /\ (Done => UNCHANGED status)
    BY <1>4, <2>1 DEF HostKeyCallback, Silently, Moves, Resumed
  <2>3. TypeOK'
    BY <1>4, <2>1, ConnectTypes DEF HostKeyCallback, Silently
  <2> QED
    BY <1>4, <1>b, <2>1, <2>2, <2>3 DEF HostKeyCallback
<1>5. CASE PrintRefused
  <2>1. Moves(Connect, "hs_failed")
    BY <1>5, <1>a DEF PrintRefused
  <2>2. AttemptInv' /\ (Done => UNCHANGED status)
    BY <1>5, <2>1 DEF PrintRefused, Printf, Moves, Resumed
  <2>3. TypeOK'
    BY <1>5, <2>1, ConnectTypes DEF PrintRefused, Printf
  <2> QED
    BY <1>5, <1>b, <2>1, <2>2, <2>3 DEF PrintRefused
<1>6. CASE HostKeyPrompt
  <2>1. Moves(Connect, "decide")
    BY <1>6, <1>a DEF HostKeyPrompt
  <2>2. AttemptInv' /\ (Done => UNCHANGED status)
    BY <1>6, <2>1 DEF HostKeyPrompt, Printf, Moves, Resumed
  <2>3. pending' \in PendingHostKey
    BY <1>6 DEF HostKeyPrompt, PendingHostKey, Decisions
  <2>4. TypeOK'
    BY <1>6, <2>1, <2>3, ConnectTypes DEF HostKeyPrompt, Printf
  <2> QED
    BY <1>6, <1>b, <2>1, <2>2, <2>4 DEF HostKeyPrompt
<1>7. CASE Decide
  <2>1. \E step \in {"persist", "hs_failed"} : Moves(Connect, step)
                             /\ (step = "persist" => Accepted)
    BY <1>7, <1>a DEF Decide
  <2>2. AttemptInv' /\ (Done => UNCHANGED status)
    BY <1>7, <2>1 DEF Decide, Silently, Accepted, NoHostKey, Moves, Resumed
  <2>3. TypeOK'
    BY <1>7, <2>1, ConnectTypes DEF Decide, Silently, NoHostKey, PendingHostKey, Decisions
  <2> QED
    BY <1>7, <1>b, <2>1, <2>2, <2>3 DEF Decide
<1>8. CASE AppendKnownHost
  <2>1. Moves(Connect, "auth")
    BY <1>8, <1>a DEF AppendKnownHost
  <2>2. AttemptInv' /\ (Done => UNCHANGED status)
    BY <1>8, <2>1 DEF AppendKnownHost, Silently, Printf, Moves, Resumed
  <2>3. knownHosts' \subseteq 1..NAddr
    BY <1>8 DEF AppendKnownHost
  <2>4. TypeOK'
    BY <1>8, <2>1, <2>3, ConnectTypes DEF AppendKnownHost, Silently, Printf
  <2> QED
    BY <1>8, <1>b, <2>1, <2>2, <2>4 DEF AppendKnownHost
<1>9. CASE BannerCallback
  <2>1. \E step \in {"auth", "auth_pw"} : Moves(Connect, step)
    BY <1>9, <1>a DEF BannerCallback
  <2>2. AttemptInv' /\ (Done => UNCHANGED status)
    BY <1>9, <2>1 DEF BannerCallback, Printf, Moves, Resumed
  <2>3. TypeOK'
    BY <1>9, <2>1, ConnectTypes DEF BannerCallback, Printf
  <2> QED
    BY <1>9, <1>b, <2>1, <2>2, <2>3 DEF BannerCallback
<1>10. CASE PasswordCallback
  <2>1. Moves(Connect, "pw_check")
    BY <1>10, <1>a DEF PasswordCallback
  <2>2. AttemptInv' /\ (Done => UNCHANGED status)
    BY <1>10, <2>1 DEF PasswordCallback, Silently, Moves, Resumed
  <2>3. TypeOK'
    BY <1>10, <2>1, ConnectTypes DEF PasswordCallback, Silently
  <2> QED
    BY <1>10, <1>b, <2>1, <2>2, <2>3 DEF PasswordCallback
<1>11. CASE TakePassphrase
  <2>1. Moves(Connect, "pw_notify")
    BY <1>11, <1>a DEF TakePassphrase
  <2>2. AttemptInv' /\ (Done => UNCHANGED status)
    BY <1>11, <2>1 DEF TakePassphrase, Silently, PassphraseCleared, Moves, Resumed
  <2>3. TypeOK'
    BY <1>11, <2>1, ConnectTypes DEF TakePassphrase, Silently, PassphraseCleared
  <2> QED
    BY <1>11, <1>b, <2>1, <2>2, <2>3 DEF TakePassphrase
<1>12. CASE AwaitPassphrase
  <2>1. Moves(Connect, "park")
    BY <1>12, <1>a DEF AwaitPassphrase
  <2>2. AttemptInv' /\ (Done => UNCHANGED status)
    BY <1>12, <2>1 DEF AwaitPassphrase, Silently, Moves, Resumed
  <2>3. TypeOK'
    BY <1>12, <2>1, ConnectTypes DEF AwaitPassphrase, Silently
  <2> QED
    BY <1>12, <1>b, <2>1, <2>2, <2>3 DEF AwaitPassphrase
<1>13. CASE PassphraseTaken
  <2>1. Moves(Connect, "auth_pw")
    BY <1>13, <1>a DEF PassphraseTaken
  <2>2. AttemptInv' /\ (Done => UNCHANGED status)
    BY <1>13, <2>1 DEF PassphraseTaken, Moves, Resumed
  <2>3. TypeOK'
    BY <1>13, <2>1, ConnectTypes DEF PassphraseTaken
  <2> QED
    BY <1>13, <1>b, <2>1, <2>2, <2>3 DEF PassphraseTaken
<1>14. CASE Authenticated
  <2>1. \E step \in {"hs_ok", "hs_failed"} : Moves(Connect, step)
    BY <1>14, <1>a DEF Authenticated
  <2>2. AttemptInv' /\ (Done => UNCHANGED status)
    BY <1>14, <2>1 DEF Authenticated, Silently, Moves, Resumed
  <2>3. TypeOK'
    BY <1>14, <2>1, ConnectTypes DEF Authenticated, Silently
  <2> QED
    BY <1>14, <1>b, <2>1, <2>2, <2>3 DEF Authenticated
<1>15. CASE HandshakeReported
  <2>1. \E step \in {"next", "publish"} : Moves(Connect, step)
                             /\ (step = "publish" => pc[Connect] = "hs_ok")
    BY <1>15, <1>a DEF HandshakeReported
  <2>2. AttemptInv' /\ (Done => UNCHANGED status)
    BY <1>15, <2>1 DEF HandshakeReported, Printf, Moves, Resumed
  <2>3. TypeOK'
    BY <1>15, <2>1, ConnectTypes DEF HandshakeReported, Printf
  <2> QED
    BY <1>15, <1>b, <2>1, <2>2, <2>3 DEF HandshakeReported
<1>16. CASE PublishClient
  <2>1. Moves(Connect, "succeed")
    BY <1>16, <1>a DEF PublishClient
  <2>2. AttemptInv' /\ (Done => UNCHANGED status)
    BY <1>16, <2>1 DEF PublishClient, Silently, NewClient, Moves, Resumed
  <2>3. TypeOK'
    BY <1>16, <2>1, ConnectTypes DEF PublishClient, Silently, NewClient
  <2> QED
    BY <1>16, <1>b, <2>1, <2>2, <2>3 DEF PublishClient
<1>17. CASE SetSucceeded
  <2>1. Moves(Connect, "exit")
    BY <1>17, <1>a DEF SetSucceeded
  <2>2. AttemptInv' /\ (Done => UNCHANGED status)
    BY <1>17, <2>1 DEF SetSucceeded, Silently, Moves, Resumed
  <2>3. TypeOK'
    BY <1>17, <2>1, ConnectTypes DEF SetSucceeded, Silently
  <2> QED
    BY <1>17, <1>b, <2>1, <2>2, <2>3 DEF SetSucceeded
<1>18. CASE SetDeferredStatus
  <2>1. Moves(Connect, "clear")
    BY <1>18, <1>a DEF SetDeferredStatus
  <2>2. AttemptInv' /\ (Done => UNCHANGED status)
    BY <1>18, <2>1 DEF SetDeferredStatus, Silently, DeferredStatus, Moves, Resumed
  <2>3. TypeOK'
    BY <1>18, <2>1, ConnectTypes DEF SetDeferredStatus, Silently, DeferredStatus
  <2> QED
    BY <1>18, <1>b, <2>1, <2>2, <2>3 DEF SetDeferredStatus
<1>19. CASE ClearConnector
  <2>1. Moves(Connect, "last_notify")
    BY <1>19, <1>a DEF ClearConnector
  <2>2. AttemptInv' /\ (Done => UNCHANGED status)
    BY <1>19, <2>1 DEF ClearConnector, Silently, Moves, Resumed
  <2>3. TypeOK'
    BY <1>19, <2>1, ConnectTypes DEF ClearConnector, Silently
  <2> QED
    BY <1>19, <1>b, <2>1, <2>2, <2>3 DEF ClearConnector
<1>20. CASE LastNotify
  <2>1. Moves(Connect, "end")
    BY <1>20, <1>a DEF LastNotify
  <2>2. AttemptInv' /\ (Done => UNCHANGED status)
    BY <1>20, <2>1 DEF LastNotify, Moves, Resumed
  <2>3. TypeOK'
    BY <1>20, <2>1, ConnectTypes DEF LastNotify
  <2> QED
    BY <1>20, <1>b, <2>1, <2>2, <2>3 DEF LastNotify
<1>21. CASE Park(Connect)
  <2>1. Moves(Connect, "parked")
    BY <1>21, ParkMoves
  <2>2. AttemptInv' /\ UNCHANGED status
    BY <1>21, <2>1 DEF Park, Moves, Resumed
  <2>3. TypeOK'
    BY <1>21, <2>1, ConnectTypes DEF Park
  <2> QED
    BY <1>21, <1>b, <2>1, <2>2, <2>3 DEF Park
<1> QED
    BY <1>1, <1>2, <1>3, <1>4, <1>5, <1>6, <1>7, <1>8, <1>9, <1>10, <1>11,
       <1>12, <1>13, <1>14, <1>15, <1>16, <1>17, <1>18, <1>19, <1>20, <1>21
    DEF ConnectNext

(***************************************************************************)
(* The steps of a session                                                  *)
(***************************************************************************)
\* Each of them preserves the invariant.
LEMMA SessionPreserves ==
    ASSUME ConnectorInv, NEW s \in Sessions, HandlerNext(s) \/ UserNext(s)
    PROVE  ConnectorInv'
<1>0. TypeOK /\ WaitersAreParked /\ AttemptInv /\ SessionInv /\ s \in Goroutines
    BY DEF ConnectorInv, AttemptInv, Goroutines
<1>a. ASSUME NEW step \in SessionSteps \ {"parked"}, pc[s] # "parked",
             (Goto(s, step) /\ waiting' = waiting) \/ NotifyWaitingLocked(s, step)
      PROVE  Moves(s, step)
    BY <1>0, <1>a, GotoMoves, NotifyMoves
\* A step that leaves the attempt alone keeps its invariant: the only effect
\* on connect() is to wake it.
<1>b. ASSUME NEW step \in SessionSteps \ {"set_status"}, Moves(s, step),
             pc[s] # "set_status",
             UNCHANGED <<status, lock, trusted, passphrase, pending, addr,
                         verdict, knownHosts, client>>
      PROVE  AttemptInv'
    BY <1>0, <1>b, ConnectorAssumption
    DEF Moves, Resumed, Goroutines, AttemptInv, LockInv, StatusInv, PromptInv,
        ClientInv, TrustInv, HostVerified, PassphraseStaysInPrompt,
        PasswordSteps, LastSteps, Done, Final, Working
\* The types of the control state.
<1>c. ASSUME NEW step \in SessionSteps, Moves(s, step)
      PROVE  /\ pc' \in [Goroutines -> ConnectSteps \cup SessionSteps]
             /\ pc'[Connect] \in ConnectSteps
             /\ \A t \in Sessions : pc'[t] \in SessionSteps
             /\ waiting' \subseteq Goroutines
    BY <1>0, <1>c, ConnectorAssumption
    DEF TypeOK, Moves, Resumed, Goroutines, ConnectSteps, SessionSteps
\* What the sessions know stays so when status, out and answer do.
<1>d. ASSUME NEW step \in SessionSteps, Moves(s, step),
             UNCHANGED <<status, out, answer>>,
             step = "exit0" => status = "succeeded",
             step = "accept" => answer[s] # "none"
      PROVE  SessionInv'
    BY <1>0, <1>d, ConnectorAssumption
    DEF SessionInv, Moves, Resumed, Goroutines
<1>e. ASSUME NEW step, Moves(s, step), TypeOK', AttemptInv', SessionInv'
      PROVE  ConnectorInv'
    BY <1>e DEF Moves, ConnectorInv, AttemptInv
<1> USE <1>0 DEF attempt, prompt, target, tunnel, session, SessionSteps
<1>1. CASE Join(s)
  <2>1. Moves(s, "collect")
    BY <1>1, <1>a DEF Join
  <2>2. AttemptInv' /\ SessionInv'
    BY <1>1, <1>b, <1>d, <2>1 DEF Join
  <2>3. TypeOK'
    BY <1>1, <1>c, <2>1 DEF Join, TypeOK
  <2> QED
    BY <1>e, <2>1, <2>2, <2>3
<1>2. CASE SetPassphrase(s)
  <2>1. CASE ~WantsPassphrase
    <3>1. /\ Moves(s, "collect")
          /\ UNCHANGED <<passphrase, lock>>
      BY <1>2, <2>1, <1>a DEF SetPassphrase
    <3>2. AttemptInv' /\ SessionInv'
      BY <1>2, <1>b, <1>d, <3>1 DEF SetPassphrase
    <3>3. TypeOK'
      BY <1>2, <1>c, <3>1 DEF SetPassphrase, TypeOK
    <3> QED
      BY <1>e, <3>1, <3>2, <3>3
  <2>2. CASE WantsPassphrase
    <3>1. /\ Moves(s, "set_status") /\ status = "need_passphrase"
          /\ passphrase' = "given" /\ lock = NoOne /\ lock' = s
      BY <1>2, <2>2, <1>a DEF SetPassphrase, WantsPassphrase
    <3>2. pc[Connect] \in PasswordSteps
      BY <3>1 DEF AttemptInv, StatusInv, Working, Done, Final, LastSteps
    <3>3. SessionInv'
      BY <1>2, <1>d, <3>1 DEF SetPassphrase
    <3>4. LockInv'
      BY <1>2, <3>1, <3>2, ConnectorAssumption
      DEF SetPassphrase, AttemptInv, LockInv, Moves, Resumed, Goroutines,
          PasswordSteps
    <3>5. StatusInv' /\ PromptInv' /\ ClientInv' /\ TrustInv'
      BY <1>2, <3>1, <3>2, ConnectorAssumption
      DEF SetPassphrase, AttemptInv, StatusInv, PromptInv, ClientInv, TrustInv,
          HostVerified, PassphraseStaysInPrompt, Moves, Resumed, Goroutines,
          PasswordSteps, LastSteps
    <3>6. TypeOK'
      BY <1>2, <1>c, <3>1 DEF SetPassphrase, TypeOK
    <3> QED
      BY <1>e, <3>1, <3>3, <3>4, <3>5, <3>6 DEF AttemptInv
  <2> QED
    BY <2>1, <2>2
<1>3. CASE SetPassphraseStatus(s)
  <2>1. Moves(s, "collect") /\ lock = s /\ status' = "handshake" /\ lock' = NoOne
    BY <1>3, <1>a DEF SetPassphraseStatus, AttemptInv, LockInv
  <2>2. pc[Connect] \in PasswordSteps \cup {"pw_notify"}
    BY <2>1, ConnectorAssumption DEF AttemptInv, LockInv
  <2>3. AttemptInv'
    BY <1>3, <2>1, <2>2, ConnectorAssumption
    DEF SetPassphraseStatus, AttemptInv, LockInv, StatusInv, PromptInv, ClientInv,
        TrustInv, HostVerified, PassphraseStaysInPrompt, Moves, Resumed,
        Goroutines, PasswordSteps, LastSteps, Working
  <2>4. ~Done
    BY <2>2 DEF AttemptInv, StatusInv, PasswordSteps, LastSteps, Done, Final, Working
  <2>5. SessionInv'
    BY <1>3, <2>1, <2>4, ConnectorAssumption
    DEF SetPassphraseStatus, SessionInv, Moves, Resumed, Goroutines, Done, Final
  <2>6. TypeOK'
    BY <1>3, <1>c, <2>1 DEF SetPassphraseStatus, TypeOK, Status, Working
  <2> QED
    BY <1>e, <2>1, <2>3, <2>5, <2>6
<1>4. CASE AcceptHostKey(s)
  <2>1. CASE status # "unknown_host_key"
    <3>1. Moves(s, "error") /\ UNCHANGED <<status, pending, trusted>>
      BY <1>4, <2>1, <1>a DEF AcceptHostKey
    <3>2. AttemptInv' /\ SessionInv'
      BY <1>4, <1>b, <1>d, <3>1 DEF AcceptHostKey
    <3>3. TypeOK'
      BY <1>4, <1>c, <3>1 DEF AcceptHostKey, TypeOK
    <3> QED
      BY <1>e, <3>1, <3>2, <3>3
  <2>2. CASE status = "unknown_host_key"
    <3>1. /\ Moves(s, "collect") /\ status' = "handshake"
          /\ pending' = [pending EXCEPT !.decision = answer[s]]
          /\ trusted' = IF answer[s] = "yes" THEN trusted \cup {pending.addr}
                                             ELSE trusted
      BY <1>4, <2>2, <1>a DEF AcceptHostKey, DecisionStatus
    <3>2. /\ pc[Connect] = "decide" /\ pending.addr = addr /\ addr # 0
          /\ pending \in PendingHostKey /\ answer[s] \in {"yes", "no"}
      BY <1>4, <2>2
      DEF AcceptHostKey, AttemptInv, StatusInv, PromptInv, Working, Done, Final,
          PasswordSteps, LastSteps, TypeOK, SessionInv, Decisions
    <3>3. /\ pending' \in PendingHostKey /\ pending'.addr = pending.addr
          /\ pending'.decision = answer[s]
      BY <3>1, <3>2 DEF PendingHostKey, Decisions
    <3>4. pc'[Connect] = "decide"
      BY <3>1, <3>2, ConnectorAssumption DEF Moves, Goroutines
    <3>5. LockInv' /\ StatusInv' /\ PromptInv' /\ ClientInv'
      BY <1>4, <3>1, <3>2, <3>3, <3>4, ConnectorAssumption
      DEF AcceptHostKey, AttemptInv, LockInv, StatusInv, PromptInv, ClientInv,
          PassphraseStaysInPrompt, Moves, Resumed, Goroutines, PasswordSteps,
          LastSteps
    <3>6. TrustInv'
      BY <1>4, <3>1, <3>2, <3>3, <3>4
      DEF AcceptHostKey, AttemptInv, TrustInv, HostVerified, ClientInv, LastSteps
    <3>7. SessionInv'
      BY <1>4, <2>2, <3>1, ConnectorAssumption
      DEF AcceptHostKey, SessionInv, Moves, Resumed, Goroutines, Final
    <3>8. TypeOK'
      <4>1. trusted' \subseteq 1..NAddr
        BY <3>1, <3>2, ConnectorAssumption DEF TypeOK
      <4> QED
        BY <1>4, <1>c, <3>1, <3>3, <4>1 DEF AcceptHostKey, TypeOK, Status, Working
    <3> QED
      BY <1>e, <3>1, <3>5, <3>6, <3>7, <3>8 DEF AttemptInv
  <2> QED
    BY <2>1, <2>2
<1>5. CASE Collect(s)
  <2>1. \E step \in {"collect", "poll"} : Moves(s, step)
    BY <1>5, <1>a DEF Collect, Goto, Moves, TypeOK
  <2>2. AttemptInv' /\ SessionInv'
    BY <1>5, <1>b, <1>d, <2>1 DEF Collect
  <2>3. count' \in [Sessions -> Nat] /\ \A t \in Sessions : count'[t] <= nmsg
    BY <1>5 DEF Collect, HasMessage, TypeOK
  <2>4. TypeOK'
    BY <1>5, <1>c, <2>1, <2>3 DEF Collect, TypeOK
  <2> QED
    BY <1>e, <2>1, <2>2, <2>4
<1>6. CASE Poll(s) \/ WaitCheck(s)
  <2>1. \E step \in {"reply", "wait", "collect", "park"} : Moves(s, step)
    BY <1>6, <1>a DEF Poll, WaitCheck
  <2>2. AttemptInv' /\ SessionInv'
    BY <1>6, <1>b, <1>d, <2>1 DEF Poll, WaitCheck
  <2>3. TypeOK'
    BY <1>6, <1>c, <2>1 DEF Poll, WaitCheck, TypeOK
  <2> QED
    BY <1>e, <2>1, <2>2, <2>3
<1>7. CASE Park(s)
  <2>1. Moves(s, "parked")
    BY <1>7, ParkMoves
  <2>2. AttemptInv' /\ SessionInv'
    BY <1>7, <1>b, <1>d, <2>1 DEF Park
  <2>3. TypeOK'
    BY <1>7, <1>c, <2>1 DEF Park, TypeOK
  <2> QED
    BY <1>e, <2>1, <2>2, <2>3
<1>8. CASE Reply(s)
  <2>1. \E step \in {"fingerprint", "prompt"} : Moves(s, step)
    BY <1>8, <1>a DEF Reply
  <2>2. AttemptInv'
    BY <1>8, <1>b, <2>1 DEF Reply
  <2>3. SessionInv'
    BY <1>8, <2>1, ConnectorAssumption
    DEF Reply, SessionInv, Moves, Resumed, Goroutines, TypeOK
  <2>4. TypeOK'
    BY <1>8, <1>c, <2>1 DEF Reply, TypeOK, Decisions
  <2> QED
    BY <1>e, <2>1, <2>2, <2>3, <2>4
<1>9. CASE HostKeyFingerprint(s)
  <2>1. Moves(s, "prompt")
    BY <1>9, <1>a DEF HostKeyFingerprint
  <2>2. AttemptInv' /\ SessionInv'
    BY <1>9, <1>b, <1>d, <2>1 DEF HostKeyFingerprint
  <2>3. TypeOK'
    BY <1>9, <1>c, <2>1 DEF HostKeyFingerprint, TypeOK, PendingHostKey
  <2> QED
    BY <1>e, <2>1, <2>2, <2>3
<1>10. CASE HandleStatus(s)
  <2>1. \E step \in {"exit0", "exit1", "collect"} :
            Moves(s, step) /\ (step = "exit0" => out[s] = "succeeded")
    BY <1>10, <1>a DEF HandleStatus
  <2>2. AttemptInv' /\ SessionInv'
    BY <1>10, <1>b, <1>d, <2>1 DEF HandleStatus, SessionInv, Final
  <2>3. TypeOK'
    BY <1>10, <1>c, <2>1 DEF HandleStatus, TypeOK
  <2> QED
    BY <1>e, <2>1, <2>2, <2>3
<1>11. CASE PromptPassphrase(s)
  <2>1. \E step \in {"set_pass", "collect", "error"} : Moves(s, step)
    BY <1>11, <1>a DEF PromptPassphrase
  <2>2. AttemptInv' /\ SessionInv'
    BY <1>11, <1>b, <1>d, <2>1 DEF PromptPassphrase
  <2>3. TypeOK'
    BY <1>11, <1>c, <2>1 DEF PromptPassphrase, TypeOK
  <2> QED
    BY <1>e, <2>1, <2>2, <2>3
<1>12. CASE PromptHostKey(s)
  <2>1. PICK a \in {"yes", "no"} :
            /\ answer' = [answer EXCEPT ![s] = a]
            /\ Goto(s, IF a = "no" /\ s \in CliSessions THEN "exit1" ELSE "accept")
    BY <1>12 DEF PromptHostKey
  <2>2. \E step \in {"exit1", "accept"} : Moves(s, step)
    BY <1>12, <2>1, <1>a DEF PromptHostKey
  <2>3. AttemptInv'
    BY <1>12, <1>b, <2>2 DEF PromptHostKey
  <2>4. SessionInv'
    BY <1>12, <2>1, <2>2, ConnectorAssumption
    DEF PromptHostKey, SessionInv, Moves, Resumed, Goroutines, TypeOK
  <2>5. TypeOK'
    BY <1>12, <1>c, <2>1, <2>2 DEF PromptHostKey, TypeOK, Decisions
  <2> QED
    BY <1>e, <2>2, <2>3, <2>4, <2>5
<1> QED
    BY <1>1, <1>2, <1>3, <1>4, <1>5, <1>6, <1>7, <1>8, <1>9, <1>10, <1>11, <1>12
    DEF HandlerNext, UserNext

(***************************************************************************)
(* The theorems                                                            *)
(***************************************************************************)
\* A new connector, as GetConnector creates it, satisfies the invariant.
LEMMA ConnectorInvInit == Init => ConnectorInv
<1> SUFFICES ASSUME Init PROVE ConnectorInv
    OBVIOUS
<1>1. /\ pc \in [Goroutines -> ConnectSteps \cup SessionSteps]
      /\ pc[Connect] = "next" /\ \A s \in Sessions : pc[s] = "start"
    BY ConnectorAssumption DEF Init, Goroutines, ConnectSteps, SessionSteps
<1>2. TypeOK
    BY <1>1, ConnectorAssumption
    DEF Init, TypeOK, ConnectSteps, SessionSteps, Status, Working, PendingHostKey,
        NoHostKey, Decisions
<1>3. WaitersAreParked
    BY <1>1 DEF Init, WaitersAreParked, Goroutines
<1>4. LockInv /\ StatusInv /\ PromptInv /\ ClientInv /\ TrustInv /\ SessionInv
    BY <1>1, ConnectorAssumption
    DEF Init, LockInv, StatusInv, PromptInv, ClientInv, TrustInv, SessionInv,
        HostVerified, PassphraseStaysInPrompt, PasswordSteps, LastSteps, Working,
        Final
<1> QED
    BY <1>2, <1>3, <1>4 DEF ConnectorInv

\* The invariant does not notice a step of somebody else.
LEMMA ConnectorInvStutter == ConnectorInv /\ UNCHANGED vars => ConnectorInv'
BY DEF vars, prompt, target, tunnel, session, ConnectorInv, TypeOK,
       WaitersAreParked, LockInv, StatusInv, PromptInv, ClientInv, TrustInv,
       SessionInv, HostVerified, PassphraseStaysInPrompt, Done

\* The invariant is inductive.
THEOREM ConnectorInvariant == Spec => []ConnectorInv
<1>1. ConnectorInv /\ [Next]_vars => ConnectorInv'
    BY ConnectPreserves, SessionPreserves, ConnectorInvStutter DEF Next
<1> QED
    BY ConnectorInvInit, <1>1, PTL DEF Spec

\* The fields keep their types and no index into the messages passes their end.
THEOREM TypeCorrect == Spec => []TypeOK
BY ConnectorInvariant, PTL DEF ConnectorInv

\* notifyWaitingLocked never blocks on a goroutine that is not receiving.
THEOREM NotifyNeverBlocks == Spec => []WaitersAreParked
BY ConnectorInvariant, PTL DEF ConnectorInv

\* AcceptHostKey finds a question and room in its decision channel.
THEOREM DecisionNeverBlocks == Spec => []DecisionSlotFree
<1>1. ConnectorInv => DecisionSlotFree
    BY DEF ConnectorInv, StatusInv, PromptInv, DecisionSlotFree, Working, Done,
           Final, PasswordSteps, LastSteps, NoHostKey, TypeOK
<1> QED
    BY ConnectorInvariant, <1>1, PTL

\* A passphrase never outlives the prompt it was typed at.
THEOREM PassphraseConfined == Spec => []PassphraseStaysInPrompt
BY ConnectorInvariant, PTL DEF ConnectorInv, PromptInv

\* No authentication with a host whose key nobody vouched for.
THEOREM HostAlwaysVerified == Spec => []HostVerified
BY ConnectorInvariant, PTL DEF ConnectorInv, TrustInv

\* The exit code of the connect command agrees with the dialer's client.
THEOREM ExitCodeAlwaysTruthful == Spec => []ExitCodeTruthful
<1>1. ConnectorInv => ExitCodeTruthful
    BY DEF ConnectorInv, StatusInv, ClientInv, SessionInv, ExitCodeTruthful,
           Working, Done, Final, PasswordSteps, LastSteps
<1> QED
    BY ConnectorInvariant, <1>1, PTL

(***************************************************************************)
(* Steps: the final status, and the refinement                             *)
(***************************************************************************)
\* What a step may do to the status and the client: the only five changes a
\* client of the attempt can tell, and the changes within Working.
PhaseStep ==
    \/ UNCHANGED <<status, client>>
    \/ status \in Working /\ status' \in Working /\ client = 0 /\ client' = 0
    \/ status \in Working /\ client = 0 /\ status' \in Prompts /\ client' = 0
    \/ status \in Prompts /\ status' \in Working /\ UNCHANGED client
    \/ status \in Working /\ client = 0 /\ client' # 0 /\ UNCHANGED status
    \/ status \in Working /\ client # 0 /\ status' = "succeeded" /\ UNCHANGED client
    \/ status \in Working /\ client = 0 /\ status' = "failed" /\ client' = 0

\* Every step of connect() and of a session is one of these.
LEMMA PhaseSteps == ConnectorInv /\ [Next]_vars => PhaseStep
<1> SUFFICES ASSUME ConnectorInv, [Next]_vars PROVE PhaseStep
    OBVIOUS
<1> USE DEF PhaseStep, ConnectorInv, StatusInv, ClientInv, PasswordSteps,
            LastSteps, Working, Prompts, Done, Final
<1>1. CASE TryAddress \/ DialTimeout \/ SetSucceeded
    BY <1>1 DEF TryAddress, DialTimeout, SetSucceeded, At, tunnel
<1>2. CASE HostKeyPrompt \/ PasswordCallback
    BY <1>2 DEF HostKeyPrompt, PasswordCallback, At, tunnel
<1>3. CASE TakePassphrase
    BY <1>3 DEF TakePassphrase, At, tunnel
<1>4. CASE PublishClient
    BY <1>4 DEF PublishClient, NewClient, At
<1>5. CASE SetDeferredStatus
    BY <1>5 DEF SetDeferredStatus, DeferredStatus, At, tunnel
<1>6. ASSUME NEW s \in Sessions, SetPassphraseStatus(s) PROVE PhaseStep
  <2>1. pc[Connect] \in PasswordSteps \cup {"pw_notify"}
    BY <1>6, ConnectorAssumption DEF SetPassphraseStatus, LockInv
  <2> QED
    BY <1>6, <2>1 DEF SetPassphraseStatus, tunnel
<1>7. ASSUME NEW s \in Sessions, AcceptHostKey(s) PROVE PhaseStep
    BY <1>7 DEF AcceptHostKey, DecisionStatus, tunnel
<1>8. CASE UNCHANGED <<status, client>>
    BY <1>8
\* The other actions write neither field.
<1>9. CASE \/ NoMoreAddresses \/ HostKeyCallback \/ PrintRefused \/ Decide
           \/ AppendKnownHost \/ BannerCallback \/ AwaitPassphrase
           \/ PassphraseTaken \/ Authenticated \/ HandshakeReported
           \/ ClearConnector \/ LastNotify \/ Park(Connect)
    BY <1>8, <1>9
    DEF NoMoreAddresses, HostKeyCallback, PrintRefused, Decide, AppendKnownHost,
        BannerCallback, AwaitPassphrase, PassphraseTaken, Authenticated,
        HandshakeReported, ClearConnector, LastNotify, Park, tunnel
<1>10. ASSUME NEW s \in Sessions,
              \/ SetPassphrase(s) \/ Collect(s) \/ Poll(s) \/ WaitCheck(s)
              \/ Park(s) \/ Reply(s) \/ HostKeyFingerprint(s) \/ HandleStatus(s)
              \/ UserNext(s)
       PROVE  PhaseStep
    BY <1>8, <1>10
    DEF SetPassphrase, Collect, Poll, WaitCheck, Park, Reply, HostKeyFingerprint,
        HandleStatus, UserNext, Join, PromptPassphrase, PromptHostKey, attempt,
        tunnel
<1>11. CASE UNCHANGED vars
    BY <1>8, <1>11 DEF vars, tunnel
<1> QED
    BY <1>1, <1>2, <1>3, <1>4, <1>5, <1>6, <1>7, <1>9, <1>10, <1>11
    DEF Next, ConnectNext, HandlerNext

\* succeeded and failed are never taken back.
THEOREM StatusIsFinal == Spec => FinalStatus
<1>1. ConnectorInv /\ [Next]_vars => [Done => status' = status]_vars
    BY PhaseSteps DEF PhaseStep, Done, Final, Working, Prompts
<1> QED
    BY ConnectorInvariant, <1>1, PTL DEF Spec, FinalStatus

\* The connector implements the protocol its clients are promised.
THEOREM Refinement == Spec => ImplementsProtocol
<1>1. Init => Protocol!Init
    BY DEF Init, Protocol!Init, Working
<1>2. ConnectorInv /\ [Next]_vars =>
          [Protocol!Next]_<<IF status \in Working THEN "working" ELSE status,
                            client # 0>>
    BY PhaseSteps
    DEF PhaseStep, Protocol!Next, Protocol!Ask, Protocol!Answered,
        Protocol!Establish, Protocol!Succeed, Protocol!Fail, Protocol!Questions,
        Working, Prompts, ConnectorInv, TypeOK, Status, Final
<1> QED
    BY ConnectorInvariant, <1>1, <1>2, PTL
    DEF Spec, ImplementsProtocol, Protocol!Spec
===============================================================================
