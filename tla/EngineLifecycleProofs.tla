----------------------- MODULE EngineLifecycleProofs -----------------------
(***************************************************************************)
(* Theorems about EngineLifecycle for any number of engine processes and   *)
(* commands, with signals and kills or without: no engine is deaf to a     *)
(* stop, and no engine is kept from starting by a dead one's PID file.     *)
(***************************************************************************)
EXTENDS EngineLifecycle, TLAPS

(* A stop thread lives in a process that serves, or is past serving, and   *)
(* was started by a command that has had its answer.                       *)
ThreadsOK ==
  \A c \in Clients : stopper[c].pc # "none" =>
    /\ stopper[c].of \in Procs
    /\ main[stopper[c].of] \in {"serving", "handler", "closing", "clear", "exit"}
    /\ client[c].pc = "stopping"

(* _running is set before there is a server, and until there is one only a *)
(* signal clears it.                                                       *)
FlagOK ==
  \A p \in Procs : main[p] \in {"write", "torn", "named", "pool", "bind", "bound"} =>
    running[p] \/ p \in signalled

(* A process names itself in the PID file only after it has judged it.     *)
PidOK ==
  \A p \in Procs : /\ main[p] \in {"off", "read", "judge"} => pidFile # p
                   /\ main[p] = "judge" => seen[p] # p

SentOK == \A c \in Clients : client[c].pc = "sent" => client[c].peer \in Procs

Inv == TypeOK /\ ThreadsOK /\ FlagOK /\ NeverDeaf /\ PidOK /\ SentOK

LEMMA InitInv == Init => Inv
BY LifecycleAssumption DEF Init, Inv, TypeOK, ThreadsOK, FlagOK, NeverDeaf, PidOK, SentOK, NoThread,
   NoClient, MainPCs, ClientPCs, LifecycleAssumption

ClientFrame == [op : Ops \cup {"none"}, pc : ClientPCs,
                seen : Procs \cup {None, Torn}, peer : Procs \cup {None}]

LEMMA Types ==
  ASSUME Inv
  PROVE  /\ pidFile \in Procs \cup {None, Torn} /\ port \in Procs \cup {None}
         /\ main \in [Procs -> MainPCs] /\ seen \in [Procs -> Procs \cup {None, Torn}]
         /\ running \in [Procs -> BOOLEAN]
         /\ stopper \in [Clients -> [of : Procs \cup {None},
                                     pc : {"none", "begin", "flag", "destroy", "shutdown"}]]
         /\ client \in [Clients -> ClientFrame]
BY DEF Inv, TypeOK, ClientFrame

(* The names in the PID file are processes or neither.                     *)
LEMMA Names == None \notin Procs /\ Torn \notin Procs
BY LifecycleAssumption DEF LifecycleAssumption

-----------------------------------------------------------------------------
(* The main thread                                                         *)

(* A process goes on from one of these points to the next, and names       *)
(* nothing but itself in the PID file.                                     *)
Onward == {<<"off", "read">>, <<"write", "torn">>, <<"torn", "named">>, <<"named", "pool">>,
           <<"pool", "bind">>, <<"bound", "serving">>, <<"closing", "clear">>, <<"clear", "exit">>}

LEMMA MovesKeep ==
  ASSUME Inv, NEW p \in Procs, NEW from, NEW to, <<from, to>> \in Onward, Moves(p, from, to),
         pidFile' \in {pidFile, None, Torn} \/ (from = "torn" /\ pidFile' = p),
         UNCHANGED <<port, seen, running, stopper, client, signalled>>
  PROVE  /\ TypeOK' /\ ThreadsOK' /\ FlagOK' /\ NeverDeaf' /\ PidOK' /\ SentOK'
<1>1. /\ main[p] = from /\ main' = [main EXCEPT ![p] = to] /\ main'[p] = to
      /\ \A q \in Procs \ {p} : main'[q] = main[q]
  BY Types DEF Moves
<1>2. TypeOK'
  <2>1. to \in MainPCs
    BY DEF Onward, MainPCs
  <2>2. main' \in [Procs -> MainPCs]
    BY <1>1, <2>1, Types
  <2>3. port # None => main'[port] \in {"bound", "serving", "handler", "closing", "clear", "exit"}
    BY <1>1, Types DEF Inv, TypeOK, Onward
  <2> QED BY <2>2, <2>3 DEF Inv, TypeOK
<1>3. ThreadsOK'
  BY <1>1 DEF Inv, ThreadsOK, Onward
<1>4. FlagOK'
  BY <1>1 DEF Inv, FlagOK, Onward
<1>5. NeverDeaf'
  BY <1>1 DEF Inv, FlagOK, NeverDeaf, Onward
<1>6. PidOK'
  BY <1>1, Names DEF Inv, PidOK, Onward
<1>7. SentOK'
  BY DEF Inv, SentOK
<1> QED BY <1>2, <1>3, <1>4, <1>5, <1>6, <1>7

(* The process ends, at any point after its launch.                        *)
LEMMA ExitKeeps ==
  ASSUME Inv, NEW p \in Procs, Alive(p), Exits(p),
         UNCHANGED <<pidFile, seen, running, client, signalled>>
  PROVE  Inv'
<1>1. /\ main' = [main EXCEPT ![p] = "gone"] /\ main'[p] = "gone"
      /\ \A q \in Procs \ {p} : main'[q] = main[q]
  BY Types DEF Exits
<1>2. port' = IF port = p THEN None ELSE port
  BY DEF Exits
<1>3. /\ stopper' \in [Clients -> [of : Procs \cup {None},
                                   pc : {"none", "begin", "flag", "destroy", "shutdown"}]]
      /\ \A c \in Clients : stopper'[c] = IF stopper[c].of = p THEN NoThread ELSE stopper[c]
  BY Types DEF Exits, NoThread
<1>4. TypeOK'
  <2>1. main' \in [Procs -> MainPCs]
    BY <1>1, Types DEF MainPCs
  <2>2. port' \in Procs \cup {None} /\ port' # p
    BY <1>2, Names, Types
  <2>3. port' # None => main'[port'] \in {"bound", "serving", "handler", "closing", "clear", "exit"}
    BY <1>1, <1>2, <2>2, Types DEF Inv, TypeOK
  <2> QED BY <1>3, <2>1, <2>2, <2>3 DEF Inv, TypeOK
<1>5. ThreadsOK'
  BY <1>1, <1>3 DEF Inv, ThreadsOK, NoThread
<1>6. FlagOK' /\ PidOK'
  BY <1>1 DEF Inv, FlagOK, PidOK
<1>7. NeverDeaf'
  BY <1>1, <1>3 DEF Inv, NeverDeaf
<1>8. SentOK'
  BY DEF Inv, SentOK
<1> QED BY <1>4, <1>5, <1>6, <1>7, <1>8 DEF Inv

LEMMA ReadPidKeeps == ASSUME Inv, NEW p \in Procs, ReadPid(p) PROVE Inv'
<1>1. /\ main[p] = "read" /\ main' = [main EXCEPT ![p] = "judge"] /\ main'[p] = "judge"
      /\ \A q \in Procs \ {p} : main'[q] = main[q]
  BY Types DEF ReadPid, Moves
<1>2. seen' = [seen EXCEPT ![p] = pidFile] /\ seen'[p] = pidFile
      /\ \A q \in Procs \ {p} : seen'[q] = seen[q]
  BY Types DEF ReadPid
<1>3. UNCHANGED <<pidFile, port, running, stopper, client, signalled>>
  BY DEF ReadPid
<1>4. TypeOK'
  <2>1. main' \in [Procs -> MainPCs] /\ seen' \in [Procs -> Procs \cup {None, Torn}]
    BY <1>1, <1>2, Types DEF MainPCs
  <2>2. port # None => main'[port] \in {"bound", "serving", "handler", "closing", "clear", "exit"}
    BY <1>1, Types DEF Inv, TypeOK
  <2> QED BY <1>3, <2>1, <2>2 DEF Inv, TypeOK
<1>5. ThreadsOK' /\ FlagOK' /\ NeverDeaf' /\ SentOK'
  BY <1>1, <1>3 DEF Inv, ThreadsOK, FlagOK, NeverDeaf, SentOK
<1>6. PidOK'
  BY <1>1, <1>2, <1>3 DEF Inv, PidOK
<1> QED BY <1>4, <1>5, <1>6 DEF Inv

LEMMA JudgePidKeeps == ASSUME Inv, NEW p \in Procs, JudgePid(p) PROVE Inv'
<1>1. /\ main[p] = "judge" /\ main'[p] \in {"refused", "write"}
      /\ main' = [main EXCEPT ![p] = main'[p]]
      /\ \A q \in Procs \ {p} : main'[q] = main[q]
  BY Types DEF JudgePid, Moves
<1>2. /\ running' \in [Procs -> BOOLEAN] /\ (main'[p] = "write" => running'[p])
      /\ \A q \in Procs \ {p} : running'[q] = running[q]
  BY <1>1, Types DEF JudgePid, Moves
<1>3. UNCHANGED <<port, seen, stopper, client, signalled>> /\ pidFile' \in {None, pidFile}
  BY DEF JudgePid, Judged
<1>4. TypeOK'
  <2>1. main' \in [Procs -> MainPCs]
    BY <1>1, Types DEF MainPCs
  <2>2. port # None => main'[port] \in {"bound", "serving", "handler", "closing", "clear", "exit"}
    BY <1>1, Types DEF Inv, TypeOK
  <2> QED BY <1>2, <1>3, <2>1, <2>2 DEF Inv, TypeOK
<1>5. ThreadsOK' /\ SentOK'
  BY <1>1, <1>3 DEF Inv, ThreadsOK, SentOK
<1>6. FlagOK' /\ NeverDeaf'
  BY <1>1, <1>2, <1>3 DEF Inv, FlagOK, NeverDeaf
<1>7. PidOK'
  BY <1>1, <1>3, Names DEF Inv, PidOK
<1> QED BY <1>4, <1>5, <1>6, <1>7 DEF Inv

LEMMA BindKeeps == ASSUME Inv, NEW p \in Procs, Bind(p) PROVE Inv'
<1>1. /\ main[p] = "bind" /\ main' = [main EXCEPT ![p] = "bound"] /\ main'[p] = "bound"
      /\ \A q \in Procs \ {p} : main'[q] = main[q]
  BY Types DEF Bind, Moves
<1>2. port' = p /\ UNCHANGED <<pidFile, seen, running, stopper, client, signalled>>
  BY DEF Bind
<1>3. TypeOK'
  <2>1. main' \in [Procs -> MainPCs]
    BY <1>1, Types DEF MainPCs
  <2> QED BY <1>1, <1>2, <2>1 DEF Inv, TypeOK
<1>4. ThreadsOK' /\ FlagOK' /\ NeverDeaf' /\ PidOK' /\ SentOK'
  BY <1>1, <1>2 DEF Inv, ThreadsOK, FlagOK, NeverDeaf, PidOK, SentOK
<1> QED BY <1>3, <1>4 DEF Inv

LEMMA SignalKeeps == ASSUME Inv, NEW p \in Procs, SignalStops(p) PROVE Inv'
<1>1. /\ main[p] \in {"pool", "bind", "bound", "serving"} /\ main'[p] \in {main[p], "handler"}
      /\ main[p] \in {"bound", "serving"} => main'[p] = "handler"
      /\ main' = [main EXCEPT ![p] = main'[p]]
      /\ \A q \in Procs \ {p} : main'[q] = main[q]
  BY Types DEF SignalStops, Handled
<1>2. /\ running' = [running EXCEPT ![p] = FALSE] /\ signalled' = signalled \cup {p}
      /\ UNCHANGED <<pidFile, port, seen, stopper, client>>
  BY DEF SignalStops
<1>3. TypeOK'
  <2>1. main' \in [Procs -> MainPCs] /\ running' \in [Procs -> BOOLEAN]
    BY <1>1, <1>2, Types DEF MainPCs
  <2>2. port # None => main'[port] \in {"bound", "serving", "handler", "closing", "clear", "exit"}
    BY <1>1, Types DEF Inv, TypeOK
  <2> QED BY <1>2, <2>1, <2>2 DEF Inv, TypeOK
<1>4. ThreadsOK'
  BY <1>1, <1>2 DEF Inv, ThreadsOK
<1>5. FlagOK' /\ NeverDeaf'
  BY <1>1, <1>2, Types DEF Inv, FlagOK, NeverDeaf
<1>6. PidOK' /\ SentOK'
  BY <1>1, <1>2 DEF Inv, PidOK, SentOK
<1> QED BY <1>3, <1>4, <1>5, <1>6 DEF Inv

LEMMA MainKeeps ==
  ASSUME Inv, NEW p \in Procs,
         Launch(p) \/ Main(p) \/ SignalKills(p) \/ SignalStops(p) \/ Killed(p)
  PROVE  Inv'
<1>1. CASE Launch(p) \/ Truncate(p) \/ WritePid(p) \/ InstallHandlers(p) \/ InitPool(p)
  <2>1. CASE Launch(p)
    BY <2>1, MovesKeep DEF Launch, Onward, Inv
  <2>2. CASE Truncate(p)
    BY <2>2, MovesKeep DEF Truncate, Onward, Inv
  <2>3. CASE WritePid(p)
    BY <2>3, MovesKeep DEF WritePid, Onward, Inv
  <2>4. CASE InstallHandlers(p)
    BY <2>4, MovesKeep DEF InstallHandlers, Onward, Inv
  <2>5. CASE InitPool(p)
    BY <2>5, MovesKeep DEF InitPool, Onward, Inv
  <2> QED BY <1>1, <2>1, <2>2, <2>3, <2>4, <2>5
<1>2. CASE Serve(p)
  BY <1>2, MovesKeep DEF Serve, Onward, Inv
<1>3. CASE DestroyRest(p)
  BY <1>3, MovesKeep DEF DestroyRest, Onward, Inv
<1>4. CASE ClearPid(p)
  BY <1>4, MovesKeep DEF ClearPid, Onward, Inv
<1>5. CASE BootFails(p) \/ Exit(p) \/ SignalKills(p) \/ Killed(p)
  BY <1>5, ExitKeeps DEF BootFails, Exit, SignalKills, Killed, Alive, Unhandled
<1> QED BY <1>1, <1>2, <1>3, <1>4, <1>5, ReadPidKeeps, JudgePidKeeps, BindKeeps, SignalKeeps DEF Main

-----------------------------------------------------------------------------
(* The stop threads                                                        *)

LEMMA StopThreadKeeps == ASSUME Inv, NEW c \in Clients, StopThread(c) PROVE Inv'
<1> DEFINE p == stopper[c].of
<1>1. /\ p \in Procs /\ main[p] \in {"serving", "handler", "closing", "clear", "exit"}
      /\ client[c].pc = "stopping"
  BY Types DEF StopThread, StopBegin, StopFlag, StopDestroy, StopShutdown, Thread, Inv, ThreadsOK
<1>2. /\ UNCHANGED <<pidFile, port, seen, client, signalled>>
      /\ \A d \in Clients \ {c} : stopper'[d] = stopper[d]
      /\ stopper'[c] = NoThread \/ stopper'[c].of = p
      /\ stopper' \in [Clients -> [of : Procs \cup {None},
                                   pc : {"none", "begin", "flag", "destroy", "shutdown"}]]
  BY Types DEF StopThread, StopBegin, StopFlag, StopDestroy, StopShutdown, Thread, NoThread
<1>3. SentOK'
  BY <1>2 DEF Inv, SentOK
<1>4. CASE StopShutdown(c)
  <2>1. /\ stopper[c].pc = "shutdown" /\ stopper' = [stopper EXCEPT ![c] = NoThread] /\ running' = running
        /\ \/ main[p] = "serving" /\ main' = [main EXCEPT ![p] = "closing"]
           \/ main[p] \in {"closing", "clear", "exit"} /\ main' = main
    BY <1>4 DEF StopShutdown, Moves
  <2>2. /\ main' \in [Procs -> MainPCs] /\ main'[p] \in {"closing", "clear", "exit"}
        /\ \A q \in Procs \ {p} : main'[q] = main[q]
    BY <1>1, <2>1, Types DEF MainPCs
  <2>3. TypeOK'
    <3>1. port # None => main'[port] \in {"bound", "serving", "handler", "closing", "clear", "exit"}
      BY <2>2, Types DEF Inv, TypeOK
    <3> QED BY <1>2, <2>1, <2>2, <3>1 DEF Inv, TypeOK
  <2>4. ThreadsOK'
    BY <1>2, <2>1, <2>2, Types DEF Inv, ThreadsOK, NoThread
  <2>5. FlagOK' /\ PidOK'
    BY <1>1, <1>2, <2>1, <2>2 DEF Inv, FlagOK, PidOK
  <2>6. NeverDeaf'
    BY <1>1, <1>2, <2>1, <2>2 DEF Inv, NeverDeaf
  <2> QED BY <1>3, <2>3, <2>4, <2>5, <2>6 DEF Inv
<1>5. CASE StopFlag(c)
  <2>1. /\ stopper'[c].pc = "destroy" /\ stopper'[c].of = p /\ main' = main
        /\ running' = [running EXCEPT ![p] = FALSE]
    BY <1>5, Types DEF StopFlag, Thread
  <2>2. /\ running' \in [Procs -> BOOLEAN]
        /\ \A q \in Procs \ {p} : running'[q] = running[q]
    BY <2>1, Types
  <2>3. TypeOK' /\ PidOK'
    BY <1>2, <2>1, <2>2 DEF Inv, TypeOK, PidOK
  <2>4. ThreadsOK'
    BY <1>1, <1>2, <2>1 DEF Inv, ThreadsOK
  <2>5. FlagOK' /\ NeverDeaf'
    BY <1>1, <1>2, <1>5, <2>1, <2>2 DEF Inv, FlagOK, NeverDeaf, StopFlag, Thread
  <2> QED BY <1>3, <2>3, <2>4, <2>5 DEF Inv
<1>6. CASE StopBegin(c) \/ StopDestroy(c)
  <2>1. /\ UNCHANGED <<main, running>>
        /\ stopper[c].pc \in {"begin", "destroy"}
        /\ stopper[c].pc = "destroy" => stopper'[c].pc = "shutdown" /\ stopper'[c].of = p
    BY <1>6, Types DEF StopBegin, StopDestroy, Thread
  <2>2. TypeOK' /\ PidOK' /\ FlagOK'
    BY <1>2, <2>1 DEF Inv, TypeOK, PidOK, FlagOK
  <2>3. ThreadsOK'
    BY <1>1, <1>2, <2>1 DEF Inv, ThreadsOK, NoThread
  <2>4. NeverDeaf'
    BY <1>2, <2>1 DEF Inv, NeverDeaf
  <2> QED BY <1>3, <2>2, <2>3, <2>4 DEF Inv
<1> QED BY <1>4, <1>5, <1>6 DEF StopThread

-----------------------------------------------------------------------------
(* The commands                                                            *)

(* A command goes on, and the PID file is at most removed.                 *)
LEMMA ClientKeeps ==
  ASSUME Inv, NEW c \in Clients, NEW f \in ClientFrame, Client(c, f),
         client[c].pc # "stopping", f.pc # "stopping",
         f.pc = "sent" => f.peer \in Procs,
         pidFile' \in {pidFile, None},
         UNCHANGED <<port, main, seen, running, stopper, signalled>>
  PROVE  Inv'
<1>1. /\ client' \in [Clients -> ClientFrame] /\ client'[c] = f
      /\ \A d \in Clients \ {c} : client'[d] = client[d]
  BY Types DEF Client
<1>2. TypeOK'
  BY <1>1 DEF Inv, TypeOK, ClientFrame
<1>3. ThreadsOK' /\ SentOK'
  BY <1>1 DEF Inv, ThreadsOK, SentOK
<1>4. FlagOK' /\ NeverDeaf'
  BY DEF Inv, FlagOK, NeverDeaf
<1>5. PidOK'
  BY Names DEF Inv, PidOK
<1> QED BY <1>2, <1>3, <1>4, <1>5 DEF Inv

LEMMA AnswerKeeps ==
  ASSUME Inv, NEW c \in Clients, NEW r \in {"failed", "not_running", "running"}, Answer(c, r),
         client[c].pc # "stopping", pidFile' \in {pidFile, None},
         UNCHANGED <<port, main, seen, running, stopper, signalled>>
  PROVE  Inv'
<1> DEFINE f == [NoClient EXCEPT !.op = client[c].op, !.pc = r]
<1>1. f \in ClientFrame /\ f.pc = r
  BY Types DEF NoClient, ClientFrame, ClientPCs
<1> QED BY <1>1, ClientKeeps DEF Answer

(* A command that goes on to another step.                                 *)
LEMMA GoesOn ==
  ASSUME Inv, NEW c \in Clients, NEW pc \in {"forget", "probe", "launch"},
         Client(c, [client[c] EXCEPT !.pc = pc]),
         client[c].pc # "stopping", pidFile' \in {pidFile, None},
         UNCHANGED <<port, main, seen, running, stopper, signalled>>
  PROVE  Inv'
<1> DEFINE f == [client[c] EXCEPT !.pc = pc]
<1>1. f \in ClientFrame /\ f.pc = pc
  BY Types DEF ClientFrame, ClientPCs
<1> QED BY <1>1, ClientKeeps

LEMMA AcceptedKeeps == ASSUME Inv, NEW c \in Clients, Accepted(c) PROVE Inv'
<1> DEFINE p == client[c].peer
<1>1. p \in Procs /\ main[p] = "serving" /\ client[c].pc = "sent"
  BY DEF Accepted, Accepting, Inv, SentOK
<1>2. /\ stopper'[c].of = p /\ stopper'[c].pc = "begin"
      /\ \A d \in Clients \ {c} : stopper'[d] = stopper[d]
      /\ stopper' \in [Clients -> [of : Procs \cup {None},
                                   pc : {"none", "begin", "flag", "destroy", "shutdown"}]]
  BY <1>1, Types DEF Accepted
<1>3. /\ client'[c].pc = "stopping" /\ \A d \in Clients \ {c} : client'[d] = client[d]
      /\ client' \in [Clients -> ClientFrame]
  <2>1. [NoClient EXCEPT !.op = client[c].op, !.pc = "stopping"] \in ClientFrame
    BY Types DEF NoClient, ClientFrame, ClientPCs
  <2> QED BY <2>1, Types DEF Accepted, Answer, Client, NoClient
<1>4. UNCHANGED <<pidFile, port, main, seen, running, signalled>>
  BY DEF Accepted
<1>5. TypeOK'
  BY <1>2, <1>3, <1>4 DEF Inv, TypeOK, ClientFrame
<1>6. ThreadsOK' /\ SentOK'
  BY <1>1, <1>2, <1>3, <1>4 DEF Inv, ThreadsOK, SentOK
<1>7. NeverDeaf'
  <2>1. stopper[c].pc = "none"
    BY <1>1 DEF Inv, ThreadsOK
  <2> QED BY <1>2, <1>4, <2>1 DEF Inv, NeverDeaf
<1>8. FlagOK' /\ PidOK'
  BY <1>4 DEF Inv, FlagOK, PidOK
<1> QED BY <1>5, <1>6, <1>7, <1>8 DEF Inv

LEMMA LaunchesKeep == ASSUME Inv, NEW c \in Clients, ClientLaunches(c) PROVE Inv'
<1>1. PICK p \in Procs : /\ Moves(p, "off", "read")
                         /\ Client(c, [client[c] EXCEPT !.pc = "poll", !.peer = p])
  BY DEF ClientLaunches
<1>2. /\ main[p] = "off" /\ main'[p] = "read" /\ main' \in [Procs -> MainPCs]
      /\ \A q \in Procs \ {p} : main'[q] = main[q]
  BY <1>1, Types DEF Moves, MainPCs
<1>3. /\ client[c].pc = "launch" /\ client'[c].pc = "poll"
      /\ \A d \in Clients \ {c} : client'[d] = client[d]
      /\ client' \in [Clients -> ClientFrame]
  <2>1. [client[c] EXCEPT !.pc = "poll", !.peer = p] \in ClientFrame
    <3>1. client[c] \in ClientFrame /\ "poll" \in ClientPCs
      BY Types DEF ClientPCs
    <3> QED BY <3>1 DEF ClientFrame
  <2>2. [client[c] EXCEPT !.pc = "poll", !.peer = p].pc = "poll"
    BY Types DEF ClientFrame
  <2> QED BY <1>1, <2>1, <2>2, Types DEF ClientLaunches, Client
<1>4. UNCHANGED <<pidFile, port, seen, running, stopper, signalled>>
  BY DEF ClientLaunches
<1>5. TypeOK'
  <2>1. port # None => main'[port] \in {"bound", "serving", "handler", "closing", "clear", "exit"}
    BY <1>2, Types DEF Inv, TypeOK
  <2> QED BY <1>2, <1>3, <1>4, <2>1 DEF Inv, TypeOK, ClientFrame
<1>6. ThreadsOK' /\ SentOK'
  BY <1>2, <1>3, <1>4 DEF Inv, ThreadsOK, SentOK
<1>7. FlagOK' /\ NeverDeaf' /\ PidOK'
  BY <1>2, <1>4 DEF Inv, FlagOK, NeverDeaf, PidOK
<1> QED BY <1>5, <1>6, <1>7 DEF Inv

LEMMA BeginKeeps == ASSUME Inv, NEW c \in Clients, Begin(c) PROVE Inv'
<1>1. PICK op \in Ops : Client(c, [NoClient EXCEPT !.op = op, !.pc = First(op)])
  BY DEF Begin
<1> DEFINE f == [NoClient EXCEPT !.op = op, !.pc = First(op)]
<1>2. First(op) \in {"read", "post", "probe"}
  BY DEF First
<1>3. f \in ClientFrame /\ f.pc \in {"read", "post", "probe"}
  BY <1>2 DEF NoClient, ClientFrame, ClientPCs
<1> QED BY <1>1, <1>3, ClientKeeps DEF Begin

LEMMA PostKeeps == ASSUME Inv, NEW c \in Clients, Post(c) PROVE Inv'
<1>1. client[c].pc = "post" /\ UNCHANGED <<pidFile, port, main, seen, running, stopper, signalled>>
  BY DEF Post
<1>2. CASE port = None
  BY <1>1, <1>2, GoesOn DEF Post
<1>3. CASE port # None
  <2> DEFINE f == [client[c] EXCEPT !.pc = "sent", !.peer = port]
  <2>1. f \in ClientFrame /\ f.peer = port /\ f.pc = "sent" /\ port \in Procs
    BY <1>3, Types DEF ClientFrame, ClientPCs
  <2>2. Client(c, f)
    BY <1>3 DEF Post
  <2> QED BY <1>1, <2>1, <2>2, ClientKeeps
<1> QED BY <1>2, <1>3

LEMMA ReadsKeep == ASSUME Inv, NEW c \in Clients, ClientReads(c) PROVE Inv'
<1> DEFINE f == [client[c] EXCEPT !.pc = "judge", !.seen = pidFile]
<1>1. f \in ClientFrame /\ f.pc = "judge"
  BY Types DEF ClientFrame, ClientPCs
<1> QED BY <1>1, ClientKeeps DEF ClientReads

LEMMA JudgesKeep == ASSUME Inv, NEW c \in Clients, ClientJudges(c) PROVE Inv'
<1>1. /\ client[c].pc = "judge" /\ pidFile' \in {pidFile, None}
      /\ UNCHANGED <<port, main, seen, running, stopper, signalled>>
  BY DEF ClientJudges, Judged
<1>2. \/ Client(c, [client[c] EXCEPT !.pc = "probe"])
      \/ Answer(c, "running")
      \/ Client(c, [client[c] EXCEPT !.pc = "launch"])
  BY DEF ClientJudges
<1> QED BY <1>1, <1>2, GoesOn, AnswerKeeps

LEMMA CommandKeeps == ASSUME Inv, NEW c \in Clients, Command(c) PROVE Inv'
<1>1. CASE Unanswered(c)
  BY <1>1, GoesOn, AnswerKeeps DEF Unanswered
<1>2. CASE Forget(c)
  BY <1>2, AnswerKeeps DEF Forget
<1>3. CASE Probe(c)
  BY <1>3, GoesOn, AnswerKeeps DEF Probe
<1>4. CASE Poll(c)
  BY <1>4, AnswerKeeps DEF Poll
<1> QED BY <1>1, <1>2, <1>3, <1>4, PostKeeps, AcceptedKeeps, ReadsKeep, JudgesKeep, LaunchesKeep DEF Command

LEMMA NextInv == Inv /\ [Next]_vars => Inv'
<1> SUFFICES ASSUME Inv, [Next]_vars PROVE Inv'
  OBVIOUS
<1>1. CASE UNCHANGED vars
  BY <1>1 DEF vars, Inv, TypeOK, ThreadsOK, FlagOK, NeverDeaf, PidOK, SentOK
<1> QED BY <1>1, MainKeeps, StopThreadKeeps, BeginKeeps, CommandKeeps DEF Next

LEMMA InvAlways == Spec => []Inv
BY InitInv, NextInv, PTL DEF Spec

-----------------------------------------------------------------------------
(* The theorems                                                            *)

(* The state keeps its types, and whoever listens on the engine's port is  *)
(* a live process that is past its bind: the port is given up with the     *)
(* process, however it ends (daemon.py:118-170, 214-262).                  *)
THEOREM LifecycleTypeCorrect == Spec => []TypeOK
<1>1. Inv => TypeOK
  BY DEF Inv
<1> QED BY <1>1, InvAlways, PTL

(* A daemon that accepts requests with _running already cleared is being   *)
(* stopped by one of its stop threads: the early return of stop() never    *)
(* leaves a served daemon that ignores every later stop, unless a signal   *)
(* cleared the flag (daemon.py:214-226).                                   *)
THEOREM StoppedDaemonEnds == Spec => []NeverDeaf
<1>1. Inv => NeverDeaf
  BY DEF Inv
<1> QED BY <1>1, InvAlways, PTL

(* A start is refused only because of another process that is alive then:  *)
(* neither a dead engine's PID file, nor a torn one, nor its own can do it *)
(* (config.py:83-88, cli.py:742-747).                                      *)
THEOREM RefusedOnlyByLive == Spec => StaleFileIgnored
<1>1. Inv /\ [Next]_vars =>
        [\A p \in Procs : main[p] # "refused" /\ main'[p] = "refused"
           => \E q \in Procs \ {p} : Alive(q)]_vars
  <2> SUFFICES ASSUME Inv, Next, NEW p \in Procs, main[p] # "refused", main'[p] = "refused"
               PROVE  \E q \in Procs \ {p} : Alive(q)
    OBVIOUS
  <2>1. JudgePid(p)
    <3>1. \A q \in Procs : \A from, to : Moves(q, from, to) /\ to # "refused" => main'[p] # "refused"
      BY Types DEF Moves
    <3>2. \A q \in Procs : ~Exits(q)
      BY Types DEF Exits
    <3>3. ASSUME NEW q \in Procs, Launch(q) \/ Main(q) \/ SignalKills(q) \/ SignalStops(q) \/ Killed(q)
          PROVE  JudgePid(p)
      <4>1. ~SignalKills(q) /\ ~Killed(q) /\ ~BootFails(q) /\ ~Exit(q)
        BY <3>2 DEF SignalKills, Killed, BootFails, Exit
      <4>2. ~SignalStops(q)
        BY Types DEF SignalStops
      <4>3. JudgePid(q)
        BY <3>1, <3>3, <4>1, <4>2 DEF Launch, Main, ReadPid, Truncate, WritePid, InstallHandlers,
           InitPool, Bind, Serve, DestroyRest, ClearPid
      <4> QED BY <4>3, Types DEF JudgePid, Moves
    <3>4. \A c \in Clients : ~StopThread(c)
      BY <3>1, Types DEF StopThread, StopBegin, StopFlag, StopDestroy, StopShutdown, Thread, Inv, ThreadsOK
    <3>5. \A c \in Clients : ~Begin(c) /\ ~Command(c)
      BY <3>1 DEF Begin, Command, Post, Accepted, Unanswered, Forget, ClientReads, ClientJudges, Probe,
         ClientLaunches, Poll
    <3> QED BY <3>3, <3>4, <3>5 DEF Next
  <2>2. PidAlive(seen[p]) /\ main[p] = "judge"
    BY <2>1, Types DEF JudgePid, Refused, Moves
  <2> QED BY <2>2 DEF Inv, PidOK, PidAlive
<1> QED BY <1>1, InvAlways, PTL DEF Spec, StaleFileIgnored
=============================================================================
