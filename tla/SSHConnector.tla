----------------------------- MODULE SSHConnector -----------------------------
(***************************************************************************)
(* One connection attempt of the tunnel: the SSHConnector object, the      *)
(* goroutine connect() that drives it (src/dialer/sshdialer.go) and the    *)
(* sessions that follow it, each of them one "sshtunnel connect" process   *)
(* (src/commands/connect.go) together with the HTTP handler                *)
(* Server.Connect it calls (src/server/server.go).                         *)
(*                                                                         *)
(* The fields status, passphrase and interactive are read and written      *)
(* outside the connector's lock, so every access to them is a step of its  *)
(* own.  A critical section whose fields are only touched under the lock   *)
(* is one step, enabled when the lock is free; only SetPassphrase, whose   *)
(* two writes other goroutines see one by one, holds it across steps.      *)
(***************************************************************************)
EXTENDS Naturals

CONSTANTS
    Sessions,      \* the API clients following this attempt
    CliSessions,   \* those of them that are "sshtunnel connect" processes
    Connect,       \* the goroutine running SSHConnector.connect
    NoOne,         \* the owner of a lock nobody holds
    NAddr,         \* len(sshDialer.addresses)
    AuthMethods,   \* what the SSH servers ask for: "publickey", "password"
    BannerLimit    \* bound: a server sends a banner below this many messages

ASSUME ConnectorAssumption ==
    /\ Connect \notin Sessions /\ NoOne \notin Sessions
    /\ CliSessions \subseteq Sessions
    /\ NAddr \in Nat /\ BannerLimit \in Nat
    /\ AuthMethods \subseteq {"publickey", "password"}

VARIABLES
    status, interactive, passphrase,   \* the fields of SSHConnector
    nmsg,         \* len(messages)
    pending,      \* pendingHostKey
    waiting,      \* waiting: the goroutines parked in Wait
    lock,         \* lock: the goroutine that holds it
    addr,         \* connect(): the address being tried, 0 before the first
    verdict,      \* what known_hosts says of the key of that address
    trusted,      \* addresses whose unknown key a session accepted
    knownHosts,   \* addresses appended to ~/.ssh/known_hosts
    client,       \* SSHDialer.client: the address it is connected to, 0 = nil
    registered,   \* SSHDialer.sshConnector still points to this connector
    pc,           \* the next step of every goroutine
    count,        \* ServerConnector.messageCount
    out, fp,      \* ConnectOut.Status, and the address HostKeyFingerprint is of
    answer        \* ConnectIn.AcceptHostKey of the next call

prompt == <<passphrase, pending>>
target == <<addr, verdict>>
tunnel == <<knownHosts, client, registered>>
session == <<count, out, fp, answer>>
vars == <<status, interactive, nmsg, waiting, lock, trusted, pc, prompt,
          target, tunnel, session>>

Goroutines == Sessions \cup {Connect}

\* The statuses of src/control/api.go, with "new" for the zero value "".
Working == {"new", "connecting", "handshake"}
Prompts == {"need_passphrase", "unknown_host_key"}
Final == {"succeeded", "failed"}
Status == Working \cup Prompts \cup Final

\* SSHConnector.Done
Done == status \in Final

\* pendingHostKeyInfo: the address asked about and the content of the decision
\* channel.
Decisions == {"none", "yes", "no"}
PendingHostKey == [addr : Nat, decision : Decisions]
NoHostKey == [addr |-> 0, decision |-> "none"]

ConnectSteps ==
    {"next", "dial", "hostkey", "refused", "decide", "persist", "auth",
     "pw_check", "park", "parked", "pw_notify", "auth_pw", "hs_failed",
     "hs_ok", "publish", "succeed", "exit", "clear", "last_notify", "end"}
SessionSteps ==
    {"start", "collect", "poll", "wait", "park", "parked", "reply",
     "fingerprint", "prompt", "set_pass", "set_status", "accept",
     "exit0", "exit1", "error"}

Init ==
    /\ status = "new" /\ nmsg = 0 /\ passphrase = "empty" /\ pending = NoHostKey
    /\ interactive \in BOOLEAN   \* started by a session or by SSHDialer.Dial
    /\ waiting = {} /\ lock = NoOne
    /\ addr = 0 /\ verdict = "none" /\ trusted = {} /\ knownHosts = {}
    /\ client = 0 /\ registered = TRUE
    /\ pc = [g \in Goroutines |-> IF g = Connect THEN "next" ELSE "start"]
    /\ count = [s \in Sessions |-> 0] /\ fp = [s \in Sessions |-> 0]
    /\ out = [s \in Sessions |-> "new"] /\ answer = [s \in Sessions |-> "none"]

(***************************************************************************)
(* Wait and notify                                                         *)
(***************************************************************************)
Goto(g, step) == pc' = [pc EXCEPT ![g] = step]

\* Where Wait returns to: the loops of Server.Connect and of the password
\* callback.
Resumed(g) == IF g = Connect THEN "pw_check" ELSE "collect"

\* The list after a notification is nil.  Fault: it is kept.
ListKept == waiting
ListNotified == {}

\* notifyWaitingLocked by g, which goes on at step.  The channels are
\* unbuffered: a send to a goroutine that is not receiving would block.
NotifyWaitingLocked(g, step) ==
    /\ \A w \in waiting : pc[w] = "parked"
    /\ pc' = [h \in Goroutines |-> IF h = g THEN step
                                   ELSE IF h \in waiting THEN Resumed(h)
                                   ELSE pc[h]]
    /\ waiting' = ListNotified

\* Print and Printf, called by connect() only.
Printf(step) ==
    /\ lock = NoOne
    /\ nmsg' = nmsg + 1
    /\ NotifyWaitingLocked(Connect, step)

\* Wait after its Done() check: enter the list and receive.  Nothing shared
\* happens between Unlock and the receive.
Park(g) ==
    /\ pc[g] = "park" /\ lock = NoOne
    /\ waiting' = waiting \cup {g}
    /\ Goto(g, "parked")
    /\ UNCHANGED <<status, interactive, nmsg, lock, trusted, prompt, target,
                   tunnel, session>>

(***************************************************************************)
(* The goroutine connect()                                                 *)
(***************************************************************************)
\* A step of connect(), with what none of them changes; and its control when
\* it prints nothing.
At(step) ==
    /\ pc[Connect] = step
    /\ UNCHANGED <<interactive, lock, trusted, session>>
Silently(step) ==
    /\ Goto(Connect, step)
    /\ UNCHANGED <<nmsg, waiting>>

\* The next address of the loop.  The status before the assignment is one of
\* Working, which no reader tells from "connecting".
TryAddress ==
    /\ At("next") /\ addr < NAddr
    /\ addr' = addr + 1 /\ verdict' = "none"
    /\ Printf("dial")
    /\ status' = "connecting"
    /\ UNCHANGED <<prompt, tunnel>>

NoMoreAddresses ==
    /\ At("next") /\ addr = NAddr
    /\ Silently("exit")
    /\ UNCHANGED <<status, prompt, target, tunnel>>

\* net.DialTimeout fails or times out: the next address.  Or it succeeds.
DialTimeout ==
    /\ At("dial")
    /\ \/ Printf("next") /\ UNCHANGED status
       \/ Silently("hostkey") /\ status' = "handshake"
    /\ UNCHANGED <<prompt, target, tunnel>>

\* ssh.NewClientConn calls HostKeyCallback first.  known_hosts has the key, or
\* there is an error other than a KeyError (or none reaches the callback); a
\* changed key is always refused, an unknown one when nobody can be asked.
HostKeyCallback ==
    /\ At("hostkey")
    /\ \/ verdict' = "known" /\ Silently("auth")
       \/ verdict' = "error" /\ Silently("hs_failed")
       \/ verdict' = "mismatch" /\ Silently("refused")
       \/ verdict' = "unknown" /\ ~interactive /\ Silently("refused")
    /\ UNCHANGED <<status, addr, prompt, tunnel>>

\* The message that says why the key was refused.
PrintRefused ==
    /\ At("refused")
    /\ Printf("hs_failed")
    /\ UNCHANGED <<status, prompt, target, tunnel>>

\* Interactive: publish the question and wait for the decision.
HostKeyPrompt ==
    /\ At("hostkey") /\ interactive
    /\ verdict' = "unknown"
    /\ status' = "unknown_host_key"
    /\ pending' = [addr |-> addr, decision |-> "none"]
    /\ Printf("decide")
    /\ UNCHANGED <<passphrase, addr, tunnel>>

\* accepted.  Fault: the decision is received and not looked at.
AnyDecision == TRUE
Accepted == pending.decision = "yes"

\* The decision is received and the question withdrawn.
Decide ==
    /\ At("decide") /\ pending.decision # "none" /\ lock = NoOne
    /\ pending' = NoHostKey
    /\ Silently(IF Accepted THEN "persist" ELSE "hs_failed")
    /\ UNCHANGED <<status, passphrase, target, tunnel>>

\* appendKnownHost: a line is added, or the write fails and is only logged.
AppendKnownHost ==
    /\ At("persist")
    /\ \/ knownHosts' = knownHosts \cup {addr} /\ Printf("auth")
       \/ UNCHANGED knownHosts /\ Silently("auth")
    /\ UNCHANGED <<status, client, registered, prompt, target>>

BannerCallback ==
    /\ \E step \in {"auth", "auth_pw"} : At(step) /\ Printf(step)
    /\ nmsg < BannerLimit
    /\ UNCHANGED <<status, prompt, target, tunnel>>

\* PasswordCallback, called at most once for an address.  Nobody is notified of
\* the new status.
PasswordCallback ==
    /\ At("auth") /\ "password" \in AuthMethods
    /\ status' = "need_passphrase"
    /\ Silently("pw_check")
    /\ UNCHANGED <<prompt, target, tunnel>>

\* What the callback leaves in the field.  Fault: the passphrase.
PassphraseKept == passphrase
PassphraseCleared == "empty"

\* The loop of the callback reads and clears the passphrase without the lock.
TakePassphrase ==
    /\ At("pw_check") /\ passphrase # "empty"
    /\ passphrase' = PassphraseCleared
    /\ status' = "handshake"
    /\ Silently("pw_notify")
    /\ UNCHANGED <<pending, target, tunnel>>

\* No passphrase yet: Wait().  Done() is false, only connect() ends connect().
AwaitPassphrase ==
    /\ At("pw_check") /\ passphrase = "empty"
    /\ Silently("park")
    /\ UNCHANGED <<status, prompt, target, tunnel>>

\* notifyWaiting of the callback, which then returns the passphrase.
PassphraseTaken ==
    /\ At("pw_notify") /\ lock = NoOne
    /\ NotifyWaitingLocked(Connect, "auth_pw")
    /\ UNCHANGED <<status, nmsg, prompt, target, tunnel>>

\* The server's verdict on the keys or on the passphrase.
Authenticated ==
    /\ \/ At("auth") /\ "publickey" \in AuthMethods /\ Silently("hs_ok")
       \/ At("auth_pw") /\ Silently("hs_ok")
       \/ \E step \in {"auth", "auth_pw"} : At(step) /\ Silently("hs_failed")
    /\ UNCHANGED <<status, prompt, target, tunnel>>

HandshakeReported ==
    /\ \/ At("hs_failed") /\ Printf("next")
       \/ At("hs_ok") /\ Printf("publish")
    /\ UNCHANGED <<status, prompt, target, tunnel>>

\* The value stored in sshDialer.client.  Fault: it is left as it was.
ClientKept == client
NewClient == addr

\* sshDialer.client = ssh.NewClient(...), without the dialer's lock; then the
\* status.
PublishClient ==
    /\ At("publish")
    /\ client' = NewClient
    /\ Silently("succeed")
    /\ UNCHANGED <<status, knownHosts, registered, prompt, target>>
SetSucceeded ==
    /\ At("succeed")
    /\ status' = "succeeded"
    /\ Silently("exit")
    /\ UNCHANGED <<prompt, target, tunnel>>

\* The status set by the deferred function.  Fault: it looks at nothing.
AlwaysFailed == "failed"
DeferredStatus == IF status = "succeeded" THEN status ELSE "failed"

\* The deferred function: status, registration and waiters, one by one.
SetDeferredStatus ==
    /\ At("exit")
    /\ status' = DeferredStatus
    /\ Silently("clear")
    /\ UNCHANGED <<prompt, target, tunnel>>
ClearConnector ==
    /\ At("clear")
    /\ registered' = FALSE
    /\ Silently("last_notify")
    /\ UNCHANGED <<status, knownHosts, client, prompt, target>>

\* Fault: the deferred function forgets the waiters.
EndSilently ==
    /\ At("last_notify")
    /\ Silently("end")
    /\ UNCHANGED <<status, prompt, target, tunnel>>
LastNotify ==
    /\ At("last_notify") /\ lock = NoOne
    /\ NotifyWaitingLocked(Connect, "end")
    /\ UNCHANGED <<status, nmsg, prompt, target, tunnel>>

ConnectNext ==
    \/ TryAddress \/ NoMoreAddresses \/ DialTimeout
    \/ HostKeyCallback \/ PrintRefused \/ HostKeyPrompt \/ Decide
    \/ AppendKnownHost \/ BannerCallback
    \/ PasswordCallback \/ TakePassphrase \/ AwaitPassphrase \/ PassphraseTaken
    \/ Authenticated \/ HandshakeReported \/ PublishClient \/ SetSucceeded
    \/ SetDeferredStatus \/ ClearConnector \/ LastNotify \/ Park(Connect)

(***************************************************************************)
(* A session: Server.Connect and the loop of the connect command around it *)
(***************************************************************************)
attempt == <<status, nmsg, waiting, lock, trusted, prompt, target, tunnel>>

\* The first call of a session: GetConnector(true) finds this connector.
Join(s) ==
    /\ pc[s] = "start" /\ registered
    /\ interactive' = TRUE
    /\ Goto(s, "collect")
    /\ UNCHANGED <<attempt, session>>

\* The status SetPassphrase expects.  Fault: any status will do.
AnyStatus == TRUE
WantsPassphrase == status = "need_passphrase"

\* SetPassphrase up to its first assignment.  Server.Connect ignores the error
\* it returns in any other status.
SetPassphrase(s) ==
    /\ pc[s] = "set_pass" /\ lock = NoOne
    /\ \/ /\ WantsPassphrase
          /\ passphrase' = "given" /\ lock' = s
          /\ Goto(s, "set_status")
       \/ /\ ~WantsPassphrase
          /\ UNCHANGED <<passphrase, lock>>
          /\ Goto(s, "collect")
    /\ UNCHANGED <<status, interactive, nmsg, pending, waiting, trusted,
                   target, tunnel, session>>

\* The rest of SetPassphrase: status, notify, unlock.
\* Fault: nobody is notified.
SetStatusOnly(s) ==
    /\ pc[s] = "set_status"
    /\ status' = "handshake" /\ Goto(s, "collect")
    /\ lock' = NoOne
    /\ UNCHANGED <<interactive, nmsg, waiting, trusted, prompt, target, tunnel, session>>
SetPassphraseStatus(s) ==
    /\ pc[s] = "set_status"
    /\ status' = "handshake"
    /\ NotifyWaitingLocked(s, "collect")
    /\ lock' = NoOne
    /\ UNCHANGED <<interactive, nmsg, trusted, prompt, target, tunnel, session>>

\* The status after a decision.  Fault: it still asks for one.
StillUnknown == status
DecisionStatus == "handshake"

\* AcceptHostKey: the decision goes into a channel of capacity 1.  In any other
\* status Server.Connect returns the error, the handler answers without a body
\* and the client fails to decode it.
AcceptHostKey(s) ==
    /\ pc[s] = "accept" /\ lock = NoOne
    /\ \/ /\ status = "unknown_host_key"
          /\ status' = DecisionStatus
          /\ pending.decision = "none"
          /\ pending' = [pending EXCEPT !.decision = answer[s]]
          /\ trusted' = IF answer[s] = "yes" THEN trusted \cup {pending.addr}
                                             ELSE trusted
          /\ NotifyWaitingLocked(s, "collect")
       \/ /\ status # "unknown_host_key"
          /\ UNCHANGED <<status, pending, trusted, waiting>>
          /\ Goto(s, "error")
    /\ UNCHANGED <<interactive, nmsg, passphrase, lock, target, tunnel, session>>

\* The condition of the loop of Server.Connect.  Fault: <= instead of <.
HasMessageOrEnd(s) == count[s] <= nmsg
HasMessage(s) == count[s] < nmsg

\* One round of that loop: another message, or none left.
Collect(s) ==
    /\ pc[s] = "collect" /\ lock = NoOne
    /\ \/ HasMessage(s) /\ count' = [count EXCEPT ![s] = @ + 1] /\ UNCHANGED pc
       \/ ~HasMessage(s) /\ Goto(s, "poll") /\ UNCHANGED count
    /\ UNCHANGED <<attempt, interactive, out, fp, answer>>

\* Status() and Done(), read without the lock after the message count.
Poll(s) ==
    /\ pc[s] = "poll"
    /\ Goto(s, IF Done \/ status \in Prompts THEN "reply" ELSE "wait")
    /\ UNCHANGED <<attempt, interactive, session>>

\* The Done() check of Wait.
WaitCheck(s) ==
    /\ pc[s] = "wait"
    /\ Goto(s, IF Done THEN "collect" ELSE "park")
    /\ UNCHANGED <<attempt, interactive, session>>

\* The status is read again for the answer, a new ConnectOut; the command then
\* resets the fields of its ConnectIn.
Reply(s) ==
    /\ pc[s] = "reply"
    /\ out' = [out EXCEPT ![s] = status]
    /\ fp' = [fp EXCEPT ![s] = 0]
    /\ answer' = [answer EXCEPT ![s] = "none"]
    /\ Goto(s, IF status = "unknown_host_key" THEN "fingerprint" ELSE "prompt")
    /\ UNCHANGED <<attempt, interactive, count>>

\* HostKeyFingerprint: empty when no question is pending any more.
HostKeyFingerprint(s) ==
    /\ pc[s] = "fingerprint" /\ lock = NoOne
    /\ fp' = [fp EXCEPT ![s] = pending.addr]
    /\ Goto(s, "prompt")
    /\ UNCHANGED <<attempt, interactive, count, out, answer>>

\* The switch of the connect command on the answer: it ends, or calls again
\* after a status it has no case for.
HandleStatus(s) ==
    /\ pc[s] = "prompt" /\ out[s] \notin Prompts
    /\ Goto(s, CASE out[s] = "succeeded" -> "exit0"
                 [] out[s] = "failed" -> "exit1"
                 [] OTHER -> "collect")
    /\ UNCHANGED <<attempt, interactive, session>>

\* The user types a passphrase, an empty one, or interrupts the prompt.
PromptPassphrase(s) ==
    /\ pc[s] = "prompt" /\ out[s] = "need_passphrase"
    /\ \E step \in {"set_pass", "collect", "error"} : Goto(s, step)
    /\ UNCHANGED <<attempt, interactive, session>>

\* The user (or --accept-host-keys) accepts the key, or rejects it: the command
\* then exits at once, any other client of the API sends the rejection.
PromptHostKey(s) ==
    /\ pc[s] = "prompt" /\ out[s] = "unknown_host_key"
    /\ \E a \in {"yes", "no"} :
          /\ answer' = [answer EXCEPT ![s] = a]
          /\ Goto(s, IF a = "no" /\ s \in CliSessions THEN "exit1" ELSE "accept")
    /\ UNCHANGED <<attempt, interactive, count, out, fp>>

\* The daemon's part of a session, and the part that waits for the user.
HandlerNext(s) ==
    \/ SetPassphrase(s) \/ SetPassphraseStatus(s) \/ AcceptHostKey(s)
    \/ Collect(s) \/ Poll(s) \/ WaitCheck(s) \/ Park(s) \/ Reply(s)
    \/ HostKeyFingerprint(s) \/ HandleStatus(s)
UserNext(s) == Join(s) \/ PromptPassphrase(s) \/ PromptHostKey(s)

Next == ConnectNext \/ \E s \in Sessions : HandlerNext(s) \/ UserNext(s)

Spec == Init /\ [][Next]_vars

\* Every runnable goroutine is scheduled and every network call of connect()
\* returns.  Nothing makes a user start a session or answer.
FairSpec ==
    /\ Spec
    /\ WF_vars(ConnectNext)
    /\ \A s \in Sessions : WF_vars(HandlerNext(s))

(***************************************************************************)
(* Properties                                                              *)
(***************************************************************************)
\* Every field has its type; in particular a session's index into the messages
\* (Message(i) panics beyond the end) never passes their number.
TypeOK ==
    /\ status \in Status /\ interactive \in BOOLEAN
    /\ nmsg \in Nat /\ passphrase \in {"empty", "given"}
    /\ pending \in PendingHostKey
    /\ waiting \subseteq Goroutines /\ lock \in Sessions \cup {NoOne}
    /\ addr \in 0..NAddr /\ client \in 0..NAddr /\ registered \in BOOLEAN
    /\ verdict \in {"none", "known", "mismatch", "unknown", "error"}
    /\ trusted \subseteq 1..NAddr /\ knownHosts \subseteq 1..NAddr
    /\ pc \in [Goroutines -> ConnectSteps \cup SessionSteps]
    /\ pc[Connect] \in ConnectSteps
    /\ \A s \in Sessions : pc[s] \in SessionSteps
    /\ count \in [Sessions -> Nat] /\ \A s \in Sessions : count[s] <= nmsg
    /\ out \in [Sessions -> Status] /\ fp \in [Sessions -> Nat]
    /\ answer \in [Sessions -> Decisions]

\* notifyWaitingLocked never blocks while it holds the lock: the list names
\* exactly the goroutines that are receiving in Wait.
WaitersAreParked == waiting = {g \in Goroutines : pc[g] = "parked"}

\* AcceptHostKey never blocks on the decision channel while it holds the lock,
\* and never dereferences a nil pendingHostKey: as long as the status asks for
\* a decision there is a question, and no decision has been sent for it.
DecisionSlotFree ==
    status = "unknown_host_key" =>
        pending # NoHostKey /\ pending.decision = "none"

\* A passphrase typed at a prompt is only ever there while the callback of that
\* prompt is running, so that a later address never finds an old one.
PassphraseStaysInPrompt ==
    passphrase # "empty" => pc[Connect] \in {"pw_check", "park", "parked"}

\* Whatever the interleaving of sessions, authentication with a host starts
\* only if known_hosts has its key or a session accepted the unknown key, and
\* only accepted keys are added to known_hosts.
HostVerified ==
    /\ knownHosts \subseteq trusted
    /\ (\/ pc[Connect] \in {"auth", "auth_pw", "pw_check", "park", "parked",
                            "pw_notify", "hs_ok", "publish", "succeed"}
        \/ client # 0)
       => verdict = "known" \/ (verdict = "unknown" /\ addr \in trusted)

\* The exit code of the connect command is the truth: 0 only with a client in
\* place, and no session is told "succeeded" of one attempt and "failed" of it.
ExitCodeTruthful ==
    \A s \in Sessions :
        /\ pc[s] = "exit0" \/ out[s] = "succeeded" => client # 0
        /\ out[s] = "failed" => client = 0

\* succeeded and failed are final: an answer of a session that comes too late
\* never reopens the attempt.
FinalStatus == [][Done => status' = status]_vars

\* The attempt implements the protocol that its clients see.
Protocol == INSTANCE ConnectProtocol WITH
    phase <- IF status \in Working THEN "working" ELSE status,
    connected <- client # 0
ImplementsProtocol == Protocol!Spec

\* connect() is never stuck on the lock or on a waiter: it ends, or waits for
\* the user's decision or passphrase.
ConnectorSettles ==
    pc[Connect] = "dial" ~> pc[Connect] \in {"decide", "parked", "end"}

\* When the attempt is over, every session in the loop of Server.Connect gets
\* its answer, the ones parked by the time of the last notification included;
\* only one that is between the Done() check of Wait and the list may not.
ResultIsReported ==
    \A s \in Sessions :
        /\ Done
        /\ \/ pc[s] \in {"collect", "poll", "wait", "reply"}
           \/ pc[s] = "parked" /\ pc[Connect] # "end"
        ~> pc[s] = "prompt"

\* sshdialer.go:416: a passphrase that arrives while the password callback is
\* parked is taken by it.  One that arrives between its check and the list may
\* stay in the field.
PassphraseIsTaken ==
    (\E s \in Sessions : pc[s] = "set_status") /\ pc[Connect] = "parked"
        ~> passphrase = "empty"

\* The README's "On rejection, the connection is aborted": after the user's no
\* the attempt ends.
RejectionAborts ==
    \A s \in Sessions : pc[s] = "exit1" /\ answer[s] = "no" ~> Done
===============================================================================
