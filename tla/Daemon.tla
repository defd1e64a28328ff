-------------------------------- MODULE Daemon --------------------------------
(***************************************************************************)
(* The life of the daemon: the commands "start" and "stop"                 *)
(* (src/server/start.go), and the daemon itself from its first step to its *)
(* exit (Run in src/server/server.go).  They meet in two files: the pid    *)
(* file /tmp/sshtunnel.pid and the socket /tmp/sshtunnel.sock.             *)
(*                                                                         *)
(* A process id is used again once its process is gone, by a new daemon or *)
(* by a process that has nothing to do with this program.  All process ids *)
(* are taken to have the same number of digits, so that one that is        *)
(* written over another replaces it.                                       *)
(***************************************************************************)
EXTENDS Naturals, Sequences, FiniteSets

CONSTANTS
    Pids,           \* process ids
    NoFile, Empty,  \* a file that does not exist; one with nothing in it
    Commands,       \* "start" and "stop" commands, each called once
    CommandLists,   \* the commands that "start" can pass to the daemon
    AtOnce,         \* bound: commands at work at a time, of impatient users
    Patience,       \* whether users may be patient, impatient or either
    MaxStops        \* bound: requests to stop that clients have pending

ASSUME DaemonAssumption ==
    /\ IsFiniteSet(Commands) /\ NoFile \notin Pids /\ Empty \notin Pids
    /\ NoFile # Empty /\ Pids \cap Commands = {} /\ AtOnce \in Nat /\ MaxStops \in Nat
    /\ Patience \subseteq BOOLEAN
    /\ CommandLists \subseteq Seq({"stop", "unknown", "other"})

VARIABLES
    patient,        \* users give a command when the last one and the daemon
                    \* have settled
    pidFile, inode, \* content of the pid file, and how often it was created
    socket,         \* the process that has created the socket file, or NoFile
    main,           \* of each process id: the next step of its main goroutine
    api,            \* of each daemon: "none", "bind" or "serving"
    stops,          \* of each daemon: handlers that send to server.done
    todo,           \* of each daemon: the additional commands left
    peer,           \* of each daemon: the daemon its command "stop" talks to
    handle,         \* of each of both: the file it has opened for its pid
    pc, target      \* of each command: the next step, and the process it found

files == <<pidFile, inode, socket>>
daemon == <<main, api, stops, todo, peer>>
commands == <<patient, pc, target>>
vars == <<files, daemon, handle, commands>>

Init ==
    /\ patient \in Patience
    /\ pidFile = NoFile /\ inode = 0 /\ socket = NoFile
    /\ main = [p \in Pids |-> "free"] /\ api = [p \in Pids |-> "none"]
    /\ stops = [p \in Pids |-> 0] /\ todo = [p \in Pids |-> <<>>]
    /\ peer = [p \in Pids |-> NoFile]
    /\ handle = [x \in Pids \cup Commands |-> 0]
    /\ pc = [c \in Commands |-> "idle"] /\ target = [c \in Commands |-> NoFile]

Gone == {"free", "dead", "panic"}
Alive(p) == main[p] \notin Gone
Daemons == {p \in Pids : Alive(p) /\ main[p] # "unrelated"}
Serving == {p \in Pids : api[p] = "serving"}

GotoMain(p, step) == main' = [main EXCEPT ![p] = step]
Goto(c, step) == pc' = [pc EXCEPT ![c] = step]

\* The process ends.  os.Exit and a panic skip the deferred functions: both
\* files stay.
End(p, how) ==
    /\ GotoMain(p, how)
    /\ api' = [api EXCEPT ![p] = "none"] /\ stops' = [stops EXCEPT ![p] = 0]
    /\ todo' = [todo EXCEPT ![p] = <<>>] /\ peer' = [peer EXCEPT ![p] = NoFile]

(***************************************************************************)
(* savePID: os.Create makes the file or empties it, then the pid is        *)
(* written to the file that was opened, which may be unlinked by now.      *)
(***************************************************************************)
CreatePidFile(x) ==
    /\ pidFile' = Empty
    /\ inode' = IF pidFile = NoFile THEN inode + 1 ELSE inode
    /\ handle' = [handle EXCEPT ![x] = inode']
    /\ UNCHANGED socket
WritePid(x, pid) ==
    /\ pidFile' = IF pidFile # NoFile /\ handle[x] = inode THEN pid ELSE pidFile
    /\ handle' = [handle EXCEPT ![x] = 0]
    /\ UNCHANGED <<inode, socket>>

(***************************************************************************)
(* start and stop                                                          *)
(***************************************************************************)
AtWork == {c \in Commands : pc[c] \notin {"idle", "end"}}
Settled == \A p \in Daemons : main[p] = "wait" /\ api[p] # "bind"

Call(c) ==
    /\ pc[c] = "idle" /\ Cardinality(AtWork) < AtOnce
    /\ patient => AtWork = {} /\ Settled
    /\ \E kind \in {"start_read", "stop_read"} : Goto(c, kind)
    /\ UNCHANGED <<files, daemon, handle, patient, target>>

\* getPIDFromFile: without a file, or with one that holds no number, there is no
\* process to look for.
ReadPid(c) ==
    /\ \/ pc[c] = "start_read" /\ Goto(c, "start_signal")
       \/ pc[c] = "stop_read" /\ Goto(c, "stop_signal")
    /\ target' = [target EXCEPT ![c] = IF pidFile \in Pids THEN pidFile
                                       ELSE NoFile]
    /\ UNCHANGED <<files, daemon, handle, patient>>

\* getProcessFromPIDFile sends signal 0, which any process answers.
\* Fault: the pid file is never believed.
NeverFound(c) == FALSE
Found(c) == target[c] \in Pids /\ Alive(target[c])
SignalPid(c) ==
    /\ \/ pc[c] = "start_signal" /\ Goto(c, IF Found(c) THEN "end" ELSE "spawn")
       \/ pc[c] = "stop_signal" /\ Goto(c, IF Found(c) THEN "remove" ELSE "end")
    /\ UNCHANGED <<files, daemon, handle, patient, target>>

\* The new process gets some process id that is free.
Spawn(c) ==
    /\ pc[c] = "spawn"
    /\ \E p \in Pids, l \in CommandLists :
          /\ ~Alive(p)
          /\ GotoMain(p, "create") /\ todo' = [todo EXCEPT ![p] = l]
          /\ target' = [target EXCEPT ![c] = p]
    /\ Goto(c, "create")
    /\ UNCHANGED <<files, api, stops, peer, handle, patient>>
StartCreates(c) ==
    /\ pc[c] = "create" /\ CreatePidFile(c)
    /\ Goto(c, "write")
    /\ UNCHANGED <<daemon, patient, target>>
StartWrites(c) ==
    /\ pc[c] = "write" /\ WritePid(c, target[c])
    /\ Goto(c, "end")
    /\ UNCHANGED <<daemon, patient, target>>

RemovePidFile(c) ==
    /\ pc[c] = "remove"
    /\ pidFile' = NoFile
    /\ Goto(c, "kill")
    /\ UNCHANGED <<inode, socket, daemon, handle, patient, target>>
Kill(c) ==
    /\ pc[c] = "kill"
    /\ IF Alive(target[c]) THEN End(target[c], "dead") ELSE UNCHANGED daemon
    /\ Goto(c, "end")
    /\ UNCHANGED <<files, handle, patient, target>>

(***************************************************************************)
(* Run                                                                     *)
(***************************************************************************)
RunCreates(p) ==
    /\ main[p] = "create" /\ CreatePidFile(p)
    /\ GotoMain(p, "write")
    /\ UNCHANGED <<api, stops, todo, peer, commands>>

\* savePID ends, and control.Start runs in its own goroutine from now on.
RunWrites(p) ==
    /\ main[p] = "write" /\ WritePid(p, p)
    /\ GotoMain(p, "commands") /\ api' = [api EXCEPT ![p] = "bind"]
    /\ UNCHANGED <<stops, todo, peer, commands>>

\* RunUnix fails when the socket file exists, whoever has left it there, and
\* control.Start panics.
\* Fault: the file is removed first.
SocketRemoved == TRUE
SocketFree == socket = NoFile
Bind(p) ==
    /\ api[p] = "bind"
    /\ \/ /\ SocketFree
          /\ socket' = p /\ api' = [api EXCEPT ![p] = "serving"]
          /\ UNCHANGED <<main, stops, todo, peer>>
       \/ ~SocketFree /\ End(p, "panic") /\ UNCHANGED socket
    /\ UNCHANGED <<pidFile, inode, handle, commands>>

\* The additional commands.  "stop" asks whoever listens at the socket to stop
\* and waits for the response; an unknown command exits.
\* Fault: the last command is executed again and again.
SameAgain(list) == list
CommandsLeft(list) == Tail(list)
\* Fault: a daemon is reached before it listens.
ReachedEarly == Daemons
Reached == {q \in Serving : socket = q}
Calls(p, name) == main[p] = "commands" /\ todo[p] # <<>> /\ Head(todo[p]) = name
RunCommand(p) ==
    /\ \/ Calls(p, "unknown") /\ End(p, "dead")
       \/ /\ Calls(p, "other") \/ (Calls(p, "stop") /\ Reached = {})
          /\ todo' = [todo EXCEPT ![p] = CommandsLeft(@)]
          /\ UNCHANGED <<main, api, stops, peer>>
       \/ /\ Calls(p, "stop")
          /\ \E q \in Reached : /\ stops' = [stops EXCEPT ![q] = @ + 1]
                                /\ peer' = [peer EXCEPT ![p] = q]
          /\ GotoMain(p, "response") /\ UNCHANGED <<api, todo>>
    /\ UNCHANGED <<files, handle, commands>>

\* The only response to "stop" is that the connection breaks.
Response(p) ==
    /\ main[p] = "response" /\ api[peer[p]] # "serving"
    /\ GotoMain(p, "commands") /\ todo' = [todo EXCEPT ![p] = CommandsLeft(@)]
    /\ peer' = [peer EXCEPT ![p] = NoFile]
    /\ UNCHANGED <<files, api, stops, handle, commands>>
CommandsDone(p) ==
    /\ main[p] = "commands" /\ todo[p] = <<>>
    /\ GotoMain(p, "wait")
    /\ UNCHANGED <<files, api, stops, todo, peer, handle, commands>>

\* A client of the API asks to stop; POST /api/targets does the same.
StopRequest(p) ==
    /\ p \in Serving /\ socket = p /\ stops[p] < MaxStops
    /\ stops' = [stops EXCEPT ![p] = @ + 1]
    /\ UNCHANGED <<files, main, api, todo, peer, handle, commands>>

\* The main goroutine receives from server.done and exits.
Exit(p) ==
    /\ main[p] = "wait" /\ stops[p] > 0 /\ End(p, "dead")
    /\ UNCHANGED <<files, handle, commands>>

(***************************************************************************)
(* The rest of the system                                                  *)
(***************************************************************************)
Crash(p) ==
    /\ p \in Daemons /\ End(p, "dead")
    /\ UNCHANGED <<files, handle, commands>>

\* A process id that is free is given to another program of the same user.
UnrelatedStarts(p) ==
    /\ ~Alive(p) /\ GotoMain(p, "unrelated")
    /\ UNCHANGED <<files, api, stops, todo, peer, handle, commands>>

\* The user removes a socket that nobody listens at.
CleanUp ==
    /\ socket # NoFile /\ Serving = {} /\ socket' = NoFile
    /\ UNCHANGED <<pidFile, inode, daemon, handle, commands>>

CommandNext(c) ==
    \/ Call(c) \/ ReadPid(c) \/ SignalPid(c) \/ Spawn(c) \/ StartCreates(c)
    \/ StartWrites(c) \/ RemovePidFile(c) \/ Kill(c)
DaemonNext(p) ==
    \/ RunCreates(p) \/ RunWrites(p) \/ Bind(p) \/ RunCommand(p) \/ Response(p)
    \/ CommandsDone(p) \/ Exit(p)
Environment ==
    CleanUp \/ \E p \in Pids : StopRequest(p) \/ Crash(p) \/ UnrelatedStarts(p)

Next ==
    \/ \E c \in Commands : CommandNext(c)
    \/ \E p \in Pids : DaemonNext(p)
    \/ Environment
Spec == Init /\ [][Next]_vars

\* The goroutines of a daemon are scheduled.
FairSpec == Spec /\ \A p \in Pids : WF_vars(DaemonNext(p))

(***************************************************************************)
(* Properties                                                              *)
(***************************************************************************)
\* The pid file holds a process id, nothing, or is not there; only a daemon has
\* an API, and requests to stop are pending only at one that serves.
TypeOK ==
    /\ pidFile \in Pids \cup {NoFile, Empty} /\ socket \in Pids \cup {NoFile}
    /\ \A p \in Pids :
          /\ stops[p] \in Nat
          /\ p \notin Daemons => api[p] = "none"
          /\ p \notin Serving => stops[p] = 0
          /\ main[p] = "response" => peer[p] \in Pids

\* control.Start (src/control/server.go:161-169): however many daemons are
\* started at a time, and whatever files earlier ones have left, one of them
\* serves, and it is the one behind the socket.
OneServes == \A p \in Serving : socket = p

\* savePID (start.go:62) is called by "start" and by the daemon.  When both are
\* done, the pid file names the daemon that serves, so that "stop" finds it.
\* This is so if the user waits for the daemon before the next command, and not
\* otherwise: a daemon that fails has overwritten the file.
PidNamesServing ==
    patient /\ AtWork = {} /\ Settled => \A p \in Serving : pidFile = p

\* Server.Stop (server.go:52) sends to a channel that the main goroutine reads
\* when its additional commands are done: a daemon that has a request to stop
\* ends, unless one of these commands asks it to stop itself and so waits for a
\* response that only its end can bring.
StopIsHeard == \A p \in Pids : stops[p] > 0 ~> stops[p] = 0 \/ peer[p] = p
================================================================================
