----------------------------- MODULE DaemonProofs -----------------------------
(***************************************************************************)
(* The daemon for any number of process ids and commands: however many are *)
(* started at most one serves, and patient users find its pid in the file. *)
(***************************************************************************)
EXTENDS Daemon, TLAPS

\* OneServes needs only that api is a function to be inductive: a daemon binds
\* when there is no socket file, and then nobody serves.
ServingInv ==
    /\ api \in [Pids -> {"none", "bind", "serving"}]
    /\ OneServes

\* A process that ends serves no longer, and leaves the socket file where it is.
LEMMA EndKeepsServing ==
    ASSUME ServingInv, NEW p \in Pids, NEW how, End(p, how), UNCHANGED socket
    PROVE  ServingInv'
BY DEF ServingInv, OneServes, Serving, End

\* Only savePID touches the pid file, and it leaves the socket alone.
LEMMA SavePidKeepsSocket ==
    ASSUME NEW x, NEW pid, CreatePidFile(x) \/ WritePid(x, pid)
    PROVE  UNCHANGED socket
BY DEF CreatePidFile, WritePid

\* Of the commands, only "stop" changes an api: it ends the daemon.
LEMMA CommandKeepsServing ==
    ASSUME ServingInv, NEW c \in Commands, CommandNext(c)
    PROVE  ServingInv'
<1>1. CASE Kill(c)
  <2>1. CASE Alive(target[c]) /\ target[c] \in Pids
    BY <1>1, <2>1, EndKeepsServing DEF Kill, files
  <2>2. CASE Alive(target[c]) /\ target[c] \notin Pids
    <3>1. End(target[c], "dead") /\ UNCHANGED socket
      BY <1>1, <2>2 DEF Kill, files
    <3>2. api' = api
      BY <3>1, <2>2 DEF End, ServingInv
    <3> QED
      BY <3>1, <3>2 DEF ServingInv, OneServes, Serving
  <2>3. CASE ~Alive(target[c])
    BY <1>1, <2>3 DEF Kill, files, daemon, ServingInv, OneServes, Serving
  <2> QED
    BY <2>1, <2>2, <2>3
<1>2. CASE Call(c) \/ ReadPid(c) \/ SignalPid(c) \/ Spawn(c) \/ RemovePidFile(c)
  BY <1>2 DEF Call, ReadPid, SignalPid, Spawn, RemovePidFile, files, daemon,
              ServingInv, OneServes, Serving
<1>3. CASE StartCreates(c) \/ StartWrites(c)
  BY <1>3, SavePidKeepsSocket
     DEF StartCreates, StartWrites, daemon, ServingInv, OneServes, Serving
<1> QED
  BY <1>1, <1>2, <1>3 DEF CommandNext

\* Of the steps of a daemon, Bind is the one that makes it serve.
LEMMA DaemonKeepsServing ==
    ASSUME ServingInv, NEW p \in Pids, DaemonNext(p)
    PROVE  ServingInv'
<1>1. CASE RunCreates(p) \/ CommandsDone(p) \/ Response(p)
  BY <1>1, SavePidKeepsSocket
     DEF RunCreates, CommandsDone, Response, files, ServingInv, OneServes, Serving
<1>2. CASE RunWrites(p)
  BY <1>2, SavePidKeepsSocket DEF RunWrites, ServingInv, OneServes, Serving
<1>3. CASE Bind(p)
  <2>1. CASE SocketFree
    <3>1. \A q \in Pids : api[q] # "serving"
      BY <2>1, DaemonAssumption DEF SocketFree, ServingInv, OneServes, Serving
    <3>2. socket' = p /\ api' = [api EXCEPT ![p] = "serving"]
      BY <1>3, <2>1 DEF Bind
    <3> QED
      BY <3>1, <3>2 DEF ServingInv, OneServes, Serving
  <2>2. CASE ~SocketFree
    BY <1>3, <2>2, EndKeepsServing DEF Bind
  <2> QED
    BY <2>1, <2>2
<1>4. CASE RunCommand(p)
  <2>1. UNCHANGED socket /\ (UNCHANGED api \/ End(p, "dead"))
    BY <1>4 DEF RunCommand, files
  <2> QED
    BY <2>1, EndKeepsServing DEF ServingInv, OneServes, Serving
<1>5. CASE Exit(p)
  BY <1>5, EndKeepsServing DEF Exit, files
<1> QED
  BY <1>1, <1>2, <1>3, <1>4, <1>5 DEF DaemonNext

\* The user removes the socket file only when nobody serves.
LEMMA EnvironmentKeepsServing ==
    ASSUME ServingInv, Environment
    PROVE  ServingInv'
<1>1. CASE CleanUp
  BY <1>1 DEF CleanUp, daemon, ServingInv, OneServes, Serving
<1>2. ASSUME NEW p \in Pids, StopRequest(p) \/ UnrelatedStarts(p)
      PROVE  ServingInv'
  BY <1>2 DEF StopRequest, UnrelatedStarts, files, ServingInv, OneServes, Serving
<1>3. ASSUME NEW p \in Pids, Crash(p)
      PROVE  ServingInv'
  BY <1>3, EndKeepsServing DEF Crash, files
<1> QED
  BY <1>1, <1>2, <1>3 DEF Environment

\* However many daemons and commands there are, and whatever files earlier
\* daemons have left, at most one daemon serves, and it is the one behind the
\* socket (control.Start, src/control/server.go:161-169).
THEOREM OneDaemonServes == Spec => []OneServes
<1>1. Init => ServingInv
  BY DEF Init, ServingInv, OneServes, Serving
<1>2. ServingInv /\ [Next]_vars => ServingInv'
  <2> SUFFICES ASSUME ServingInv, [Next]_vars
               PROVE  ServingInv'
    OBVIOUS
  <2>1. CASE Next
    BY <2>1, CommandKeepsServing, DaemonKeepsServing, EnvironmentKeepsServing
       DEF Next
  <2>2. CASE UNCHANGED vars
    BY <2>2 DEF vars, files, daemon, ServingInv, OneServes, Serving
  <2> QED
    BY <2>1, <2>2
<1>3. ServingInv => OneServes
  BY DEF ServingInv
<1> QED
  BY <1>1, <1>2, <1>3, PTL DEF Spec

(***************************************************************************)
(* The types                                                               *)
(***************************************************************************)
Saving == {"create", "write"}
Saved == {"commands", "response", "wait"}
Steps == {"idle", "start_read", "start_signal", "spawn", "create", "write",
          "stop_read", "stop_signal", "remove", "kill", "end"}

\* TypeOK with the types of the other variables, and with what a daemon and a
\* command know at each of their steps.
TypeInv ==
    /\ pidFile \in Pids \cup {NoFile, Empty} /\ socket \in Pids \cup {NoFile}
    /\ inode \in Nat /\ handle \in [Pids \cup Commands -> Nat]
    /\ main \in [Pids -> Gone \cup {"unrelated"} \cup Saving \cup Saved]
    /\ api \in [Pids -> {"none", "bind", "serving"}]
    /\ stops \in [Pids -> Nat] /\ peer \in [Pids -> Pids \cup {NoFile}]
    /\ pc \in [Commands -> Steps] /\ target \in [Commands -> Pids \cup {NoFile}]
    /\ \A p \in Pids :
          /\ main[p] \notin Saved => api[p] = "none"
          /\ api[p] # "serving" => stops[p] = 0
          /\ main[p] = "response" => peer[p] \in Pids
    /\ \A c \in Commands :
          pc[c] \in {"create", "write", "remove", "kill"} => target[c] \in Pids

(***************************************************************************)
(* Patient users                                                           *)
(***************************************************************************)
\* There is one command at work and one daemon at most, and while a command is at
\* work the daemon is the one it has found or started.
\*  - A daemon that has not saved its pid is there only after "start" has started
\*    it.
\*  - Who is between the two halves of savePID has the file open that the name
\*    stands for.
\*  - Who has saved the pid of the daemon last has left it in the file, except
\*    that "start" may still be about to write it again, and that "stop" has
\*    removed the file of a daemon it is about to kill.
PatientInv ==
    patient =>
        /\ \A c, d \in AtWork : c = d
        /\ \A p, q \in Daemons : p = q
        /\ \A c \in AtWork :
              /\ pc[c] = "spawn" => Daemons = {}
              /\ pc[c] \notin {"start_read", "stop_read"} => Daemons \subseteq {target[c]}
              /\ pc[c] \notin Saving => \A p \in Daemons : main[p] \in Saved
              /\ pc[c] = "write" => handle[c] = inode /\ pidFile # NoFile
        /\ \A p \in Daemons :
              /\ main[p] = "write" => handle[p] = inode /\ pidFile # NoFile
              /\ main[p] \in Saved /\ (\A c \in Commands : pc[c] \notin {"write", "kill"})
                     => pidFile = p

DaemonInv == TypeInv /\ PatientInv

USE DaemonAssumption DEF Gone, Saving, Saved, Steps

\* The commands.  Among patient users the one that takes a step is the only one at
\* work, so that all there is to show is about this one and the daemon.
LEMMA CommandKeepsInv ==
    ASSUME DaemonInv, NEW c \in Commands, CommandNext(c)
    PROVE  DaemonInv'
<1>. USE DEF DaemonInv, Goto, GotoMain, files, daemon
<1>0. patient /\ pc[c] \notin {"idle", "end"} => \A d \in Commands \ {c} : pc[d] \in {"idle", "end"}
  BY DEF PatientInv, AtWork, TypeInv
<1>1. CASE Call(c)
  <2>1. TypeInv'
    BY <1>1 DEF Call, TypeInv
  <2>2. Daemons' = Daemons /\ (patient => AtWork' = {c} /\ AtWork = {})
    BY <1>1 DEF Call, Daemons, Alive, AtWork, TypeInv
  <2>3. PatientInv'
    <3>. SUFFICES ASSUME patient
                  PROVE  PatientInv'
      BY <1>1 DEF Call, PatientInv
    <3>1. pc' = [pc EXCEPT ![c] = "start_read"] \/ pc' = [pc EXCEPT ![c] = "stop_read"]
      BY <1>1 DEF Call
    <3>2. \A p \in Daemons : main[p] = "wait"
      BY <1>1 DEF Call, Settled
    <3>. QED
      BY <1>1, <2>2, <3>1, <3>2 DEF Call, PatientInv, TypeInv, AtWork
  <2>. QED
    BY <2>1, <2>3
<1>2. CASE ReadPid(c)
  <2>1. TypeInv'
    BY <1>2 DEF ReadPid, TypeInv
  <2>2. PatientInv'
    <3>. SUFFICES ASSUME patient
                  PROVE  PatientInv'
      BY <1>2 DEF ReadPid, PatientInv
    <3>1. \A d \in Commands \ {c} : pc[d] \in {"idle", "end"}
      BY <1>2, <1>0 DEF ReadPid
    <3>2. AtWork' \subseteq {c} /\ AtWork = {c}
      BY <1>2, <3>1 DEF ReadPid, AtWork, TypeInv
    <3>3. Daemons' = Daemons /\ Daemons \subseteq Pids
      BY <1>2, <3>2 DEF ReadPid, Daemons, Alive, TypeInv, PatientInv
    <3>4. \A p \in Daemons : pidFile = p
      BY <1>2, <3>1, <3>2, <3>3 DEF ReadPid, PatientInv
    <3>5. Daemons \subseteq {target'[c]} /\ pc'[c] \in {"start_signal", "stop_signal"}
      BY <1>2, <3>3, <3>4 DEF ReadPid, TypeInv
    <3>. QED
      BY <1>2, <3>1, <3>2, <3>3, <3>4, <3>5 DEF ReadPid, PatientInv, TypeInv
  <2>. QED
    BY <2>1, <2>2
<1>3. CASE SignalPid(c)
  <2>1. TypeInv'
    BY <1>3 DEF SignalPid, Found, TypeInv
  <2>2. PatientInv'
    <3>. SUFFICES ASSUME patient
                  PROVE  PatientInv'
      BY <1>3 DEF SignalPid, PatientInv
    <3>1. \A d \in Commands \ {c} : pc[d] \in {"idle", "end"}
      BY <1>3, <1>0 DEF SignalPid
    <3>2. AtWork' \subseteq {c} /\ AtWork = {c}
      BY <1>3, <3>1 DEF SignalPid, AtWork, TypeInv
    <3>3. Daemons' = Daemons /\ Daemons \subseteq Pids
      BY <1>3, <3>2 DEF SignalPid, Found, Daemons, Alive, TypeInv, PatientInv
    <3>4. ~Found(c) => Daemons = {}
      BY <1>3, <3>2 DEF SignalPid, Found, Daemons, Alive, PatientInv
    <3>5. /\ Daemons \subseteq {target'[c]}
          /\ \A p \in Daemons : main[p] \in Saved /\ pidFile = p
      BY <1>3, <3>1, <3>2, <3>3 DEF SignalPid, PatientInv
    <3>6. pc'[c] \in {"spawn", "remove", "end"} /\ (pc'[c] = "spawn" => ~Found(c))
      BY <1>3 DEF SignalPid, TypeInv
    <3>. QED
      BY <1>3, <3>2, <3>3, <3>4, <3>5, <3>6 DEF SignalPid, PatientInv
  <2>. QED
    BY <2>1, <2>2
<1>4. CASE Spawn(c)
  <2>1. TypeInv'
    BY <1>4 DEF Spawn, Alive, TypeInv
  <2>2. PatientInv'
    <3>. SUFFICES ASSUME patient
                  PROVE  PatientInv'
      BY <1>4 DEF Spawn, PatientInv
    <3>1. \A d \in Commands \ {c} : pc[d] \in {"idle", "end"}
      BY <1>4, <1>0 DEF Spawn
    <3>2. AtWork' \subseteq {c} /\ AtWork = {c}
      BY <1>4, <3>1 DEF Spawn, AtWork, TypeInv
    <3>3. Daemons = {} /\ Daemons' = {target'[c]} /\ main'[target'[c]] = "create"
      BY <1>4, <3>2 DEF Spawn, Daemons, Alive, TypeInv, PatientInv
    <3>. QED
      BY <1>4, <3>1, <3>2, <3>3 DEF Spawn, PatientInv, TypeInv
  <2>. QED
    BY <2>1, <2>2
<1>5. CASE StartCreates(c)
  <2>1. TypeInv'
    BY <1>5 DEF StartCreates, CreatePidFile, TypeInv
  <2>2. PatientInv'
    <3>. SUFFICES ASSUME patient
                  PROVE  PatientInv'
      BY <1>5 DEF StartCreates, PatientInv
    <3>1. \A d \in Commands \ {c} : pc[d] \in {"idle", "end"}
      BY <1>5, <1>0 DEF StartCreates
    <3>2. AtWork' \subseteq {c} /\ AtWork = {c}
      BY <1>5, <3>1 DEF StartCreates, AtWork, TypeInv
    <3>3. Daemons' = Daemons /\ Daemons \subseteq Pids
      BY <1>5, <3>2 DEF StartCreates, CreatePidFile, Daemons, Alive, TypeInv, PatientInv
    <3>. QED
      BY <1>5, <3>1, <3>2, <3>3 DEF StartCreates, CreatePidFile, PatientInv, TypeInv
  <2>. QED
    BY <2>1, <2>2
<1>6. CASE StartWrites(c)
  <2>1. TypeInv'
    BY <1>6 DEF StartWrites, WritePid, TypeInv
  <2>2. PatientInv'
    <3>. SUFFICES ASSUME patient
                  PROVE  PatientInv'
      BY <1>6 DEF StartWrites, PatientInv
    <3>1. \A d \in Commands \ {c} : pc[d] \in {"idle", "end"}
      BY <1>6, <1>0 DEF StartWrites
    <3>2. AtWork' \subseteq {c} /\ AtWork = {c}
      BY <1>6, <3>1 DEF StartWrites, AtWork, TypeInv
    <3>3. Daemons' = Daemons /\ Daemons \subseteq Pids
      BY <1>6, <3>2 DEF StartWrites, WritePid, Daemons, Alive, TypeInv, PatientInv
    <3>4. pidFile' = target[c] /\ pc'[c] = "end" /\ AtWork' = {}
      BY <1>6, <3>1, <3>2 DEF StartWrites, WritePid, PatientInv, TypeInv, AtWork
    <3>5. \A p \in Daemons : p = target[c] /\ handle'[p] = handle[p]
      BY <1>6, <3>2, <3>3 DEF StartWrites, WritePid, PatientInv, TypeInv
    <3>. QED
      BY <1>6, <2>1, <3>2, <3>3, <3>4, <3>5 DEF StartWrites, WritePid, PatientInv, TypeInv
  <2>. QED
    BY <2>1, <2>2
<1>7. CASE RemovePidFile(c)
  <2>1. TypeInv'
    BY <1>7 DEF RemovePidFile, TypeInv
  <2>2. PatientInv'
    <3>. SUFFICES ASSUME patient
                  PROVE  PatientInv'
      BY <1>7 DEF RemovePidFile, PatientInv
    <3>1. \A d \in Commands \ {c} : pc[d] \in {"idle", "end"}
      BY <1>7, <1>0 DEF RemovePidFile
    <3>2. AtWork' \subseteq {c} /\ AtWork = {c}
      BY <1>7, <3>1 DEF RemovePidFile, AtWork, TypeInv
    <3>3. Daemons' = Daemons /\ Daemons \subseteq Pids
      BY <1>7, <3>2 DEF RemovePidFile, Daemons, Alive, TypeInv, PatientInv
    <3>. QED
      BY <1>7, <3>1, <3>2, <3>3 DEF RemovePidFile, PatientInv, TypeInv
  <2>. QED
    BY <2>1, <2>2
<1>8. CASE Kill(c)
  <2>1. target[c] \in Pids /\ pc' = [pc EXCEPT ![c] = "end"]
    BY <1>8 DEF Kill, TypeInv
  <2>2. \/ End(target[c], "dead")
        \/ ~Alive(target[c]) /\ UNCHANGED daemon
    BY <1>8 DEF Kill
  <2>3. TypeInv'
    <3>1. CASE End(target[c], "dead")
      BY <1>8, <2>1, <3>1 DEF Kill, End, TypeInv
    <3>2. CASE UNCHANGED daemon
      BY <1>8, <2>1, <3>2 DEF Kill, TypeInv
    <3>. QED
      BY <2>2, <3>1, <3>2
  <2>4. PatientInv'
    <3>. SUFFICES ASSUME patient
                  PROVE  PatientInv'
      BY <1>8 DEF Kill, PatientInv
    <3>1. AtWork' = {} /\ AtWork = {c}
      BY <1>8, <1>0 DEF Kill, AtWork, TypeInv
    <3>2. Daemons \subseteq {target[c]}
      BY <1>8, <3>1 DEF Kill, PatientInv
    <3>3. Daemons' = {}
      BY <2>1, <2>2, <3>2 DEF End, Daemons, Alive, TypeInv
    <3>. QED
      BY <3>1, <3>3 DEF PatientInv
  <2>. QED
    BY <2>3, <2>4
<1>. QED
  BY <1>1, <1>2, <1>3, <1>4, <1>5, <1>6, <1>7, <1>8 DEF CommandNext

\* A process that ends is no daemon any more, and leaves the pid file as it is.
LEMMA EndKeepsInv ==
    ASSUME DaemonInv, NEW p \in Pids, NEW how \in Gone, End(p, how),
           UNCHANGED <<pidFile, inode, socket, handle, commands>>
    PROVE  DaemonInv'
<1>. USE DEF End, GotoMain, commands
<1>1. TypeInv'
  BY DEF DaemonInv, TypeInv
<1>2. PatientInv'
  BY DEF DaemonInv, TypeInv, PatientInv, AtWork, Alive, Daemons
<1>. QED
  BY <1>1, <1>2 DEF DaemonInv

\* The daemons.
LEMMA DaemonKeepsInv ==
    ASSUME DaemonInv, NEW p \in Pids, DaemonNext(p)
    PROVE  DaemonInv'
<1>. USE DEF DaemonInv, GotoMain, files, commands, AtWork, Alive, Daemons
<1>1. CASE RunCreates(p)
  <2>1. TypeInv'
    BY <1>1 DEF RunCreates, CreatePidFile, TypeInv
  <2>2. PatientInv'
    BY <1>1 DEF RunCreates, CreatePidFile, TypeInv, PatientInv
  <2>. QED
    BY <2>1, <2>2
<1>2. CASE RunWrites(p)
  <2>1. TypeInv'
    BY <1>2 DEF RunWrites, WritePid, TypeInv
  <2>2. PatientInv'
    BY <1>2 DEF RunWrites, WritePid, TypeInv, PatientInv
  <2>. QED
    BY <2>1, <2>2
<1>3. CASE Bind(p)
  <2>1. CASE SocketFree
    <3>1. TypeInv'
      BY <1>3, <2>1 DEF Bind, TypeInv
    <3>2. PatientInv'
      BY <1>3, <2>1 DEF Bind, TypeInv, PatientInv
    <3>. QED
      BY <3>1, <3>2
  <2>2. CASE ~SocketFree
    BY <1>3, <2>2, EndKeepsInv DEF Bind
  <2>. QED
    BY <2>1, <2>2
<1>4. CASE RunCommand(p)
  <2>1. CASE End(p, "dead")
    BY <1>4, <2>1, EndKeepsInv DEF RunCommand
  <2>2. CASE UNCHANGED <<main, api, stops, peer>>
    BY <1>4, <2>2 DEF RunCommand, TypeInv, PatientInv
  <2>3. CASE /\ main[p] = "commands" /\ main' = [main EXCEPT ![p] = "response"]
             /\ UNCHANGED api
             /\ \E q \in Reached : /\ stops' = [stops EXCEPT ![q] = @ + 1]
                                   /\ peer' = [peer EXCEPT ![p] = q]
    <3>1. TypeInv'
      BY <1>4, <2>3 DEF RunCommand, Reached, Serving, TypeInv
    <3>2. PatientInv'
      BY <1>4, <2>3 DEF RunCommand, TypeInv, PatientInv
    <3>. QED
      BY <3>1, <3>2
  <2>. QED
    BY <1>4, <2>1, <2>2, <2>3 DEF RunCommand, Calls
<1>5. CASE Response(p)
  <2>1. TypeInv'
    BY <1>5 DEF Response, TypeInv
  <2>2. PatientInv'
    BY <1>5 DEF Response, TypeInv, PatientInv
  <2>. QED
    BY <2>1, <2>2
<1>6. CASE CommandsDone(p)
  <2>1. TypeInv'
    BY <1>6 DEF CommandsDone, TypeInv
  <2>2. PatientInv'
    BY <1>6 DEF CommandsDone, TypeInv, PatientInv
  <2>. QED
    BY <2>1, <2>2
<1>7. CASE Exit(p)
  BY <1>7, EndKeepsInv DEF Exit
<1>. QED
  BY <1>1, <1>2, <1>3, <1>4, <1>5, <1>6, <1>7 DEF DaemonNext

\* Clients of the API, crashes, other programs and the user.
LEMMA EnvironmentKeepsInv ==
    ASSUME DaemonInv, Environment
    PROVE  DaemonInv'
<1>. USE DEF DaemonInv, GotoMain, files, daemon, commands, AtWork, Alive, Daemons
<1>1. CASE CleanUp
  BY <1>1 DEF CleanUp, TypeInv, PatientInv
<1>2. ASSUME NEW p \in Pids, StopRequest(p)
      PROVE  DaemonInv'
  BY <1>2 DEF StopRequest, Serving, TypeInv, PatientInv
<1>3. ASSUME NEW p \in Pids, Crash(p)
      PROVE  DaemonInv'
  BY <1>3, EndKeepsInv DEF Crash
<1>4. ASSUME NEW p \in Pids, UnrelatedStarts(p)
      PROVE  DaemonInv'
  <2>1. TypeInv'
    BY <1>4 DEF UnrelatedStarts, TypeInv
  <2>2. PatientInv'
    BY <1>4 DEF UnrelatedStarts, TypeInv, PatientInv
  <2>. QED
    BY <2>1, <2>2
<1>. QED
  BY <1>1, <1>2, <1>3, <1>4 DEF Environment

\* DaemonInv holds in every state.
THEOREM DaemonInvariant == Spec => []DaemonInv
<1>1. Init => DaemonInv
  BY DEF Init, DaemonInv, TypeInv, PatientInv, AtWork, Daemons, Alive
<1>2. DaemonInv /\ [Next]_vars => DaemonInv'
  <2>1. DaemonInv /\ Next => DaemonInv'
    BY CommandKeepsInv, DaemonKeepsInv, EnvironmentKeepsInv DEF Next
  <2>2. DaemonInv /\ UNCHANGED vars => DaemonInv'
    BY DEF vars, files, daemon, commands, DaemonInv, TypeInv, PatientInv, AtWork, Daemons, Alive
  <2>. QED
    BY <2>1, <2>2
<1>. QED
  BY <1>1, <1>2, PTL DEF Spec

\* Only daemons have an API, and requests to stop are pending only at one that
\* serves, whatever process ids are used again.
THEOREM DaemonTypeCorrect == Spec => []TypeOK
<1>1. DaemonInv => TypeOK
  BY DEF DaemonInv, TypeInv, TypeOK, Daemons, Alive, Serving
<1>. QED
  BY <1>1, DaemonInvariant, PTL

\* The two processes that save the pid of a daemon at the same time leave it in the
\* file, so that "stop" finds the daemon, as long as users are patient.
THEOREM PidAlwaysNamesServing == Spec => []PidNamesServing
<1>1. DaemonInv => PidNamesServing
  BY DEF DaemonInv, TypeInv, PatientInv, PidNamesServing, Daemons, Alive, Serving, AtWork, Settled
<1>. QED
  BY <1>1, DaemonInvariant, PTL
================================================================================
