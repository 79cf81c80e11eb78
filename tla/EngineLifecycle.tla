--------------------------- MODULE EngineLifecycle ---------------------------
(***************************************************************************)
(* How the engine daemon comes and goes: "bunkervm engine start" (cli.py), *)
(* EngineDaemon.start, stop, _signal_handler and _cleanup (daemon.py), the *)
(* PID file (engine/config.py), discovery, "engine stop" and the WSL       *)
(* bridge, which all find the daemon by its PID file or its port.          *)
(*                                                                         *)
(* Every engine process has a main thread, which boots, binds the port,    *)
(* accepts requests and runs signal handlers, and a thread per POST        *)
(* /engine/stop.  Clients are the short-lived commands of users.  The      *)
(* sandboxes the daemon destroys on its way down are module Engine's.      *)
(***************************************************************************)
EXTENDS FiniteSets

CONSTANTS
  Procs,     \* bound: engine processes that can be launched
  Clients,   \* commands; a command's id also names the stop thread it causes
  None,
  Torn,      \* the PID file between its truncation and the write
  Ops,       \* what the commands do: stop, start, discover, bridge
  Signals,   \* SIGTERM and SIGINT are sent
  Kills      \* engine processes are killed

ASSUME LifecycleAssumption ==
  /\ IsFiniteSet(Procs) /\ IsFiniteSet(Clients)
  /\ None \notin Procs /\ Torn \notin Procs \cup {None}
  /\ Ops \subseteq {"stop", "start", "discover", "bridge"}
  /\ Signals \in BOOLEAN /\ Kills \in BOOLEAN

VARIABLES
  pidFile,   \* the process named in the PID file, None or Torn
  port,      \* the process that listens on the engine's port, or None
  main,      \* where the main thread of each process is
  seen,      \* what the process read from the PID file
  running,   \* _running of each daemon
  stopper,   \* the stop thread each POST started: [of, pc]
  signalled, \* the processes a signal handler has run in
  client     \* the command each client executes: [op, pc, seen, peer]

vars == <<pidFile, port, main, seen, running, stopper, signalled, client>>

NoThread == [of |-> None, pc |-> "none"]
NoClient == [op |-> "none", pc |-> "idle", seen |-> None, peer |-> None]

Init ==
  /\ pidFile = None /\ port = None
  /\ main = [p \in Procs |-> "off"]
  /\ seen = [p \in Procs |-> None]
  /\ running = [p \in Procs |-> FALSE]
  /\ stopper = [c \in Clients |-> NoThread]
  /\ signalled = {}
  /\ client = [c \in Clients |-> NoClient]

Alive(p) == main[p] \notin {"off", "refused", "gone"}

Moves(p, from, to) == main[p] = from /\ main' = [main EXCEPT ![p] = to]

(* The process ends: the socket is closed and its other threads die.       *)
Exits(p) ==
  /\ main' = [main EXCEPT ![p] = "gone"]
  /\ port' = IF port = p THEN None ELSE port
  /\ stopper' = [c \in Clients |-> IF stopper[c].of = p THEN NoThread ELSE stopper[c]]

-----------------------------------------------------------------------------
(* read_pid: one step reads the file, the next checks that the process     *)
(* lives and removes the file if it does not.                              *)

PidAlive(pid) == pid \in Procs /\ Alive(pid)

Judged(pid) ==
  pidFile' = IF pid \in Procs /\ ~Alive(pid) THEN None ELSE pidFile

(* Mutant: a PID file is believed whether its process lives or not.        *)
FileNames(p) == seen[p] \in Procs

(* A start that finds a live PID reports "already running".                *)
Refused(p) == PidAlive(seen[p])

-----------------------------------------------------------------------------
(* The main thread                                                         *)

Launch(p) ==
  /\ Moves(p, "off", "read")
  /\ UNCHANGED <<pidFile, port, seen, running, stopper, client, signalled>>

ReadPid(p) ==
  /\ Moves(p, "read", "judge")
  /\ seen' = [seen EXCEPT ![p] = pidFile]
  /\ UNCHANGED <<pidFile, port, running, stopper, client, signalled>>

(* EngineDaemon.start then sets _running, before anything can stop it.     *)
JudgePid(p) ==
  /\ IF Refused(p)
     THEN Moves(p, "judge", "refused") /\ UNCHANGED running
     ELSE Moves(p, "judge", "write") /\ running' = [running EXCEPT ![p] = TRUE]
  /\ Judged(seen[p])
  /\ UNCHANGED <<port, seen, stopper, client, signalled>>

(* write_pid: open truncates the file, then the PID is written.            *)
Truncate(p) ==
  /\ Moves(p, "write", "torn")
  /\ pidFile' = Torn
  /\ UNCHANGED <<port, seen, running, stopper, client, signalled>>

WritePid(p) ==
  /\ Moves(p, "torn", "named")
  /\ pidFile' = p
  /\ UNCHANGED <<port, seen, running, stopper, client, signalled>>

InstallHandlers(p) ==
  /\ Moves(p, "named", "pool")
  /\ UNCHANGED <<pidFile, port, seen, running, stopper, client, signalled>>

(* _init_vm_pool loads the configuration and downloads the bundle.         *)
InitPool(p) ==
  /\ Moves(p, "pool", "bind")
  /\ UNCHANGED <<pidFile, port, seen, running, stopper, client, signalled>>

(* It raises; or the port is taken and the HTTP server's constructor does. *)
(* The exception ends the process, which leaves its PID file behind.       *)
BootFails(p) ==
  /\ \/ main[p] = "pool"
     \/ main[p] = "bind" /\ port # None
  /\ Exits(p)
  /\ UNCHANGED <<pidFile, seen, running, client, signalled>>

Bind(p) ==
  /\ port = None
  /\ Moves(p, "bind", "bound")
  /\ port' = p
  /\ UNCHANGED <<pidFile, seen, running, stopper, client, signalled>>

Serve(p) ==
  /\ Moves(p, "bound", "serving")
  /\ UNCHANGED <<pidFile, port, seen, running, stopper, client, signalled>>

(* serve_forever has returned: _cleanup destroys what is left, then clears *)
(* the PID file, whoever's it is; the socket stays open to the end.        *)
DestroyRest(p) ==
  /\ Moves(p, "closing", "clear")
  /\ UNCHANGED <<pidFile, port, seen, running, stopper, client, signalled>>

ClearPid(p) ==
  /\ Moves(p, "clear", "exit")
  /\ pidFile' = None
  /\ UNCHANGED <<port, seen, running, stopper, client, signalled>>

(* Mutant: the exit leaves the port taken.                                 *)
ExitHoldsPort(p) ==
  /\ main[p] = "exit"
  /\ main' = [main EXCEPT ![p] = "gone"]
  /\ UNCHANGED <<pidFile, port, seen, running, stopper, client, signalled>>

Exit(p) ==
  /\ main[p] = "exit"
  /\ Exits(p)
  /\ UNCHANGED <<pidFile, seen, running, client, signalled>>

-----------------------------------------------------------------------------
(* stop, from a POST                                                       *)

Thread(c, from, to) ==
  /\ stopper[c].pc = from
  /\ stopper' = [stopper EXCEPT ![c].pc = to]

Accepting(p) == port = p /\ main[p] = "serving"

StopBegin(c) ==
  /\ stopper[c].pc = "begin"
  /\ stopper' = [stopper EXCEPT ![c] =
       IF running[@.of] THEN [@ EXCEPT !.pc = "flag"] ELSE NoThread]
  /\ UNCHANGED <<pidFile, port, main, seen, running, client, signalled>>

StopFlag(c) ==
  /\ Thread(c, "flag", "destroy")
  /\ running' = [running EXCEPT ![stopper[c].of] = FALSE]
  /\ UNCHANGED <<pidFile, port, main, seen, client, signalled>>

StopDestroy(c) ==
  /\ Thread(c, "destroy", "shutdown")
  /\ UNCHANGED <<pidFile, port, main, seen, running, client, signalled>>

(* Mutant: stop() leaves the flag cleared but the server running.          *)
StopNoShutdown(c) ==
  /\ stopper[c].pc = "shutdown"
  /\ stopper' = [stopper EXCEPT ![c] = NoThread]
  /\ UNCHANGED <<pidFile, port, main, seen, running, client, signalled>>

(* server.shutdown() waits until serve_forever has returned.               *)
StopShutdown(c) ==
  /\ stopper[c].pc = "shutdown"
  /\ \/ Moves(stopper[c].of, "serving", "closing")
     \/ main[stopper[c].of] \in {"closing", "clear", "exit"} /\ UNCHANGED main
  /\ stopper' = [stopper EXCEPT ![c] = NoThread]
  /\ UNCHANGED <<pidFile, port, seen, running, client, signalled>>

-----------------------------------------------------------------------------
(* Signals and crashes                                                     *)

(* Before the handlers are installed a signal ends the process.            *)
Handled(p) == main[p] \in {"pool", "bind", "bound", "serving"}

Unhandled(p) == main[p] \in {"read", "judge", "write", "torn", "named"}

SignalKills(p) ==
  /\ Signals /\ Unhandled(p)
  /\ Exits(p)
  /\ UNCHANGED <<pidFile, seen, running, client, signalled>>

(* The handler runs stop() in the main thread.  Without a server it        *)
(* returns and the boot goes on; with one, shutdown() waits for the        *)
(* serve_forever the handler has interrupted.                              *)
SignalStops(p) ==
  /\ Signals /\ Handled(p) /\ running[p]
  /\ running' = [running EXCEPT ![p] = FALSE]
  /\ main' = [main EXCEPT ![p] = IF @ \in {"bound", "serving"} THEN "handler" ELSE @]
  /\ signalled' = signalled \cup {p}
  /\ UNCHANGED <<pidFile, port, seen, stopper, client>>

Killed(p) ==
  /\ Kills /\ Alive(p)
  /\ Exits(p)
  /\ UNCHANGED <<pidFile, seen, running, client, signalled>>

-----------------------------------------------------------------------------
(* Commands                                                                *)

Client(c, frame) == client' = [client EXCEPT ![c] = frame]
Answer(c, result) == Client(c, [NoClient EXCEPT !.op = client[c].op, !.pc = result])

First(op) == CASE op \in {"start", "discover"} -> "read" [] op = "stop" -> "post" [] OTHER -> "probe"

Begin(c) ==
  /\ client[c].pc = "idle"
  /\ \E op \in Ops : Client(c, [NoClient EXCEPT !.op = op, !.pc = First(op)])
  /\ UNCHANGED <<pidFile, port, main, seen, running, stopper, signalled>>

(* engine stop: POST /engine/stop.                                         *)
Post(c) ==
  /\ client[c].pc = "post"
  /\ Client(c, IF port = None THEN [client[c] EXCEPT !.pc = "forget"]
               ELSE [client[c] EXCEPT !.pc = "sent", !.peer = port])
  /\ UNCHANGED <<pidFile, port, main, seen, running, stopper, signalled>>

(* The handler thread answers, then starts the stop thread.                *)
Accepted(c) ==
  /\ client[c].pc = "sent" /\ Accepting(client[c].peer)
  /\ stopper' = [stopper EXCEPT ![c] = [of |-> client[c].peer, pc |-> "begin"]]
  /\ Answer(c, "stopping")
  /\ UNCHANGED <<pidFile, port, main, seen, running, signalled>>

(* Nobody accepts the connection: it times out, or is reset at the exit.   *)
Unanswered(c) ==
  /\ client[c].pc = "sent" /\ ~Accepting(client[c].peer)
  /\ IF Alive(client[c].peer) THEN Answer(c, "failed")
     ELSE Client(c, [client[c] EXCEPT !.pc = "forget"])
  /\ UNCHANGED <<pidFile, port, main, seen, running, stopper, signalled>>

(* "Engine is not running": the PID file is taken for stale and removed.   *)
Forget(c) ==
  /\ client[c].pc = "forget"
  /\ pidFile' = None
  /\ Answer(c, "not_running")
  /\ UNCHANGED <<port, main, seen, running, stopper, signalled>>

(* start --background and discover_engine look at the PID file first.      *)
ClientReads(c) ==
  /\ client[c].pc = "read"
  /\ Client(c, [client[c] EXCEPT !.pc = "judge", !.seen = pidFile])
  /\ UNCHANGED <<pidFile, port, main, seen, running, stopper, signalled>>

ClientJudges(c) ==
  /\ client[c].pc = "judge"
  /\ Judged(client[c].seen)
  /\ CASE client[c].op = "discover" -> Client(c, [client[c] EXCEPT !.pc = "probe"])
       [] PidAlive(client[c].seen)  -> Answer(c, "running")
       [] OTHER                     -> Client(c, [client[c] EXCEPT !.pc = "launch"])
  /\ UNCHANGED <<port, main, seen, running, stopper, signalled>>

(* GET /engine/status, whose answer is always "running".                   *)
Probe(c) ==
  /\ client[c].pc = "probe"
  /\ IF port # None /\ Accepting(port) THEN Answer(c, "running")
     ELSE IF client[c].op = "bridge" THEN Client(c, [client[c] EXCEPT !.pc = "launch"])
     ELSE Answer(c, "not_running")
  /\ UNCHANGED <<pidFile, port, main, seen, running, stopper, signalled>>

ClientLaunches(c) ==
  /\ client[c].pc = "launch"
  /\ \E p \in Procs :
       /\ Moves(p, "off", "read")
       /\ Client(c, [client[c] EXCEPT !.pc = "poll", !.peer = p])
  /\ UNCHANGED <<pidFile, port, seen, running, stopper, signalled>>

(* start looks once whether its child is alive, the bridge looks ten times *)
(* whether anybody answers on the port.                                    *)
Poll(c) ==
  /\ client[c].pc = "poll"
  /\ IF client[c].op = "start"
     THEN Answer(c, IF Alive(client[c].peer) THEN "running" ELSE "failed")
     ELSE \/ port # None /\ Accepting(port) /\ Answer(c, "running")
          \/ Answer(c, "failed")
  /\ UNCHANGED <<pidFile, port, main, seen, running, stopper, signalled>>

-----------------------------------------------------------------------------

Main(p) ==
  \/ ReadPid(p) \/ JudgePid(p) \/ Truncate(p) \/ WritePid(p) \/ InstallHandlers(p)
  \/ InitPool(p) \/ BootFails(p) \/ Bind(p) \/ Serve(p)
  \/ DestroyRest(p) \/ ClearPid(p) \/ Exit(p)

StopThread(c) == StopBegin(c) \/ StopFlag(c) \/ StopDestroy(c) \/ StopShutdown(c)

Command(c) ==
  \/ Post(c) \/ Accepted(c) \/ Unanswered(c) \/ Forget(c)
  \/ ClientReads(c) \/ ClientJudges(c) \/ Probe(c) \/ ClientLaunches(c) \/ Poll(c)

Next ==
  \/ \E p \in Procs : Launch(p) \/ Main(p) \/ SignalKills(p) \/ SignalStops(p) \/ Killed(p)
  \/ \E c \in Clients : StopThread(c) \/ Begin(c) \/ Command(c)

Spec == Init /\ [][Next]_vars

(* The operating system runs every thread and every command to its end.    *)
FairSpec ==
  /\ Spec
  /\ \A p \in Procs : WF_vars(Main(p))
  /\ \A c \in Clients : WF_vars(StopThread(c)) /\ WF_vars(Command(c))

-----------------------------------------------------------------------------
(* Properties                                                              *)

MainPCs == {"off", "read", "judge", "write", "torn", "named", "pool", "bind", "bound",
            "serving", "handler", "closing", "clear", "exit", "refused", "gone"}
ClientPCs == {"idle", "post", "sent", "forget", "read", "judge", "probe", "launch", "poll",
              "stopping", "failed", "not_running", "running"}

(* Type invariant; only a live process past its bind listens.              *)
TypeOK ==
  /\ pidFile \in Procs \cup {None, Torn}
  /\ port \in Procs \cup {None}
  /\ port # None => main[port] \in {"bound", "serving", "handler", "closing", "clear", "exit"}
  /\ main \in [Procs -> MainPCs]
  /\ seen \in [Procs -> Procs \cup {None, Torn}]
  /\ running \in [Procs -> BOOLEAN] /\ signalled \subseteq Procs
  /\ stopper \in [Clients -> [of : Procs \cup {None},
                              pc : {"none", "begin", "flag", "destroy", "shutdown"}]]
  /\ client \in [Clients -> [op : Ops \cup {"none"}, pc : ClientPCs,
                             seen : Procs \cup {None, Torn}, peer : Procs \cup {None}]]

(* An engine that still accepts requests although it is no longer running  *)
(* has a stop thread that is about to end it: it is never deaf to a stop,  *)
(* unless a signal came before there was a server (daemon.py:214-226).     *)
NeverDeaf ==
  \A p \in Procs : main[p] = "serving" /\ ~running[p] /\ p \notin signalled =>
    \E c \in Clients : stopper[c].of = p /\ stopper[c].pc \in {"destroy", "shutdown"}

(* A PID file left by a dead engine never keeps a new one from starting:   *)
(* a start is refused only while another engine process is there           *)
(* (config.py:83-88, cli.py:742-747).                                      *)
StaleFileIgnored ==
  [][\A p \in Procs : main[p] # "refused" /\ main'[p] = "refused"
       => \E q \in Procs \ {p} : Alive(q)]_vars

(* daemon.py:229: "Handle SIGTERM/SIGINT for graceful shutdown.": a        *)
(* signal that reaches a serving daemon makes it exit.                     *)
SignalEnds ==
  \A p \in Procs : (main[p] = "handler") ~> (main[p] = "gone")

=============================================================================
