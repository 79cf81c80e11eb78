------------------------------- MODULE Engine -------------------------------
(***************************************************************************)
(* bunkervm/engine/daemon.py and the handlers of bunkervm/engine/api.py:   *)
(* the daemon that owns every sandbox VM, with one thread per HTTP request,*)
(* one per POST /engine/stop, and the main thread that accepts requests.   *)
(*                                                                         *)
(* The daemon keeps a table of sandboxes of its own beside the pool's      *)
(* registry and updates the two under two different locks.  A request is a *)
(* sequence of steps: each lock region of the daemon is one step and each  *)
(* step of a pool call is a step of module VMPool, whose name for sandbox  *)
(* id is "engine-<id>", here the id itself.                                *)
(*                                                                         *)
(* The daemon is serving from the initial state on; how it gets there, and *)
(* signals, are the subject of EngineLifecycle.                            *)
(***************************************************************************)
EXTENDS Integers, FiniteSets

CONSTANTS
  Requests,     \* HTTP handler threads
  Stoppers,     \* threads started by POST /engine/stop
  Main,         \* the thread in serve_forever
  Ids,          \* bound: the sandbox ids that can be generated
  UserNames,    \* names clients choose
  None,         \* no sandbox, no name
  MaxSandboxes, \* max_sandboxes, the pool's max_vms
  Network       \* default_network

Threads  == Requests \cup Stoppers \cup {Main}
AllNames == UserNames \cup Ids   \* the default name "sandbox-<id>" is the id

ASSUME EngineAssumption ==
  /\ IsFiniteSet(Threads) /\ IsFiniteSet(Ids)
  /\ Main \notin Requests \cup Stoppers /\ Requests \cap Stoppers = {}
  /\ UserNames \cap Ids = {}
  /\ None \notin AllNames
  /\ MaxSandboxes \in Nat \ {0}
  /\ Network \in BOOLEAN

VARIABLES
  instances, nextIndex, procs, files, call,   \* of the pool
  sandboxes,  \* _sandboxes: id -> name of the listed sandbox, or None
  used,       \* ids generated so far
  running,    \* _running
  server,     \* the HTTP server and the process: serving, closing, closed, exited
  req         \* the request each thread is executing

Pool == INSTANCE VMPool WITH
  Names <- Ids, Paths <- Ids, SafeName <- [id \in Ids |-> id],
  NamesOf <- [t \in Threads |-> Ids], Ops <- {"start", "stop", "stop_all", "status"},
  MaxVMs <- MaxSandboxes, MaxIndex <- Cardinality(Ids)

engineVars == <<sandboxes, used, running, server, req>>
vars == <<instances, nextIndex, procs, files, call, engineVars>>
poolVars == <<instances, nextIndex, procs, files, call>>

Listed == {id \in Ids : sandboxes[id] # None}

Blank == [op |-> "none", pc |-> "idle", arg |-> None, id |-> None,
          name |-> None, todo |-> {}]

At(t, pc) == req[t].pc = pc /\ server # "exited"
Goto(t, frame) == req' = [req EXCEPT ![t] = frame]

(* The request is answered; with which status code is not kept.  A stop    *)
(* thread ends for good.                                                   *)
Finish(t) == Goto(t, [Blank EXCEPT !.pc = IF t \in Requests THEN "idle" ELSE "done"])

(* A connection is accepted and gets a thread as long as the server runs.  *)
Accepts(t) == t \in Requests /\ req[t].pc = "idle" /\ server = "serving"

(* Bound: a request that will need an id starts only while one is left.    *)
Resetting == {t \in Requests : req[t].op = "reset"
                                /\ req[t].pc \in {"find", "pop", "stop", "stopped", "recreate"}}
IdLeft == Cardinality(Ids \ used) > Cardinality(Resetting)

(* Mutant: an id is reused once its sandbox is no longer listed.            *)
UnlistedIds == Ids \ Listed

(* _new_id is random: never an id that was generated before.               *)
FreshIds == Ids \ used

Init ==
  /\ Pool!PoolInit
  /\ sandboxes = [id \in Ids |-> None]
  /\ used = {}
  /\ running = TRUE
  /\ server = "serving"
  /\ req = [t \in Threads |-> Blank]

-----------------------------------------------------------------------------
(* create_sandbox                                                          *)

NameInUse(n) == \E id \in Listed : sandboxes[id] = n

(* The lock region that looks for a name collision, under a fresh id.      *)
CheckName(t, op, id, n) ==
  /\ IF NameInUse(n)
     THEN Finish(t) /\ UNCHANGED used
     ELSE /\ used' = used \cup {id}
          /\ Goto(t, [Blank EXCEPT !.op = op, !.pc = "reserve", !.id = id, !.name = n])
  /\ UNCHANGED <<poolVars, sandboxes, running, server>>

Create(t) ==
  /\ Accepts(t) /\ IdLeft
  /\ \E id \in FreshIds : \E n \in UserNames \cup {id} : CheckName(t, "create", id, n)

(* pool.start begins, outside the daemon's lock.                           *)
PoolStart(t) ==
  /\ At(t, "reserve")
  /\ Pool!StartReserve(t, req[t].id)
  /\ Goto(t, [req[t] EXCEPT !.pc = "booting"])
  /\ UNCHANGED <<sandboxes, used, running, server>>

(* pool.start raised ValueError (the pool is full) or VMError.             *)
PoolStartFailed(t) ==
  /\ At(t, "booting") /\ Pool!Idle(t)
  /\ call[t].result # "ok"
  /\ Finish(t)
  /\ UNCHANGED <<poolVars, sandboxes, used, running, server>>

(* pool.start returned; pool.status raises KeyError if the VM is gone.     *)
PoolStatus(t) ==
  /\ At(t, "booting") /\ Pool!Idle(t)
  /\ call[t].result = "ok"
  /\ Pool!Lookup(t, req[t].id)
  /\ IF instances[req[t].id] = Pool!NoVM
     THEN Finish(t)
     ELSE Goto(t, [req[t] EXCEPT !.pc = "insert"])
  /\ UNCHANGED <<sandboxes, used, running, server>>

(* Mutant: the entry is listed only while the daemon is running.            *)
InsertIfRunning(t) ==
  /\ At(t, "insert")
  /\ sandboxes' = [sandboxes EXCEPT ![req[t].id] = IF running THEN req[t].name ELSE None]
  /\ Finish(t)
  /\ UNCHANGED <<poolVars, used, running, server>>

Insert(t) ==
  /\ At(t, "insert")
  /\ sandboxes' = [sandboxes EXCEPT ![req[t].id] = req[t].name]
  /\ Finish(t)
  /\ UNCHANGED <<poolVars, used, running, server>>

-----------------------------------------------------------------------------
(* destroy_sandbox, also as a part of reset_sandbox and of the shutdown    *)

(* _find_sandbox: by id, else by name.                                     *)
Matches(x) ==
  IF x \in Listed THEN {x} ELSE {id \in Listed : sandboxes[id] = x}

Destroy(t) ==
  /\ Accepts(t)
  /\ \E x \in used \cup UserNames :
       Goto(t, [Blank EXCEPT !.op = "destroy", !.pc = "find", !.arg = x])
  /\ UNCHANGED <<poolVars, sandboxes, used, running, server>>

(* The next sandbox of a shutdown's list, then the pool's stop_all.        *)
NextVictim(t, todo) ==
  IF todo = {} THEN Goto(t, [Blank EXCEPT !.op = req[t].op, !.pc = "sweep"])
  ELSE \E id \in todo :
         Goto(t, [Blank EXCEPT !.op = req[t].op, !.pc = "find", !.arg = id,
                               !.todo = todo \ {id}])

(* destroy_sandbox returns to the handler, to reset or to the shutdown.    *)
Destroyed(t) ==
  CASE req[t].op = "destroy" -> Finish(t)
    [] req[t].op = "reset"   -> Goto(t, [req[t] EXCEPT !.pc = "recreate"])
    [] OTHER                 -> NextVictim(t, req[t].todo)

(* Mutant: the lookup of an id that is gone waits for it to come back.      *)
FindUnchecked(t) ==
  /\ At(t, "find")
  /\ \E id \in Matches(req[t].arg) : Goto(t, [req[t] EXCEPT !.pc = "pop", !.id = id])
  /\ UNCHANGED <<poolVars, sandboxes, used, running, server>>

Find(t) ==
  /\ At(t, "find")
  /\ IF Matches(req[t].arg) = {}
     THEN Destroyed(t)
     ELSE \E id \in Matches(req[t].arg) :
            Goto(t, [req[t] EXCEPT !.pc = "pop", !.id = id])
  /\ UNCHANGED <<poolVars, sandboxes, used, running, server>>

(* Mutant: the VM is stopped before the entry is removed.                   *)
StopThenPop(t) ==
  /\ At(t, "pop")
  /\ UNCHANGED sandboxes
  /\ Goto(t, [req[t] EXCEPT !.pc = "stop"])
  /\ UNCHANGED <<poolVars, used, running, server>>

PopEntry(t) ==
  /\ At(t, "pop")
  /\ sandboxes' = [sandboxes EXCEPT ![req[t].id] = None]
  /\ Goto(t, [req[t] EXCEPT !.pc = "stop"])
  /\ UNCHANGED <<poolVars, used, running, server>>

PoolStop(t) ==
  /\ At(t, "stop")
  /\ Pool!Stop(t, req[t].id)
  /\ Goto(t, [req[t] EXCEPT !.pc = "stopped"])
  /\ UNCHANGED <<sandboxes, used, running, server>>

PoolStopped(t) ==
  /\ At(t, "stopped") /\ Pool!Idle(t)
  /\ Destroyed(t)
  /\ UNCHANGED <<poolVars, sandboxes, used, running, server>>

-----------------------------------------------------------------------------
(* reset_sandbox: destroy the entry, then create one of the same name      *)

Reset(t) ==
  /\ Accepts(t) /\ IdLeft
  /\ \E x \in used \cup UserNames :
       IF Matches(x) = {} THEN Finish(t)
       ELSE \E id \in Matches(x) :
              Goto(t, [Blank EXCEPT !.op = "reset", !.pc = "find",
                                    !.arg = id, !.name = sandboxes[id]])
  /\ UNCHANGED <<poolVars, sandboxes, used, running, server>>

Recreate(t) ==
  /\ At(t, "recreate")
  /\ \E id \in FreshIds : CheckName(t, "reset", id, req[t].name)

-----------------------------------------------------------------------------
(* exec, write, read, list and status: find the entry, take its client from*)
(* the pool, talk to the VM                                                *)

Exec(t) ==
  /\ Accepts(t)
  /\ \E x \in used \cup UserNames :
       IF Matches(x) = {} THEN Finish(t)
       ELSE \E id \in Matches(x) :
              Goto(t, [Blank EXCEPT !.op = "exec", !.pc = "client", !.id = id])
  /\ UNCHANGED <<poolVars, sandboxes, used, running, server>>

GetClient(t) ==
  /\ At(t, "client")
  /\ Pool!Lookup(t, req[t].id)
  /\ IF instances[req[t].id] = Pool!NoVM THEN Finish(t)
     ELSE Goto(t, [req[t] EXCEPT !.pc = "talk"])
  /\ UNCHANGED <<sandboxes, used, running, server>>

Talk(t) ==
  /\ At(t, "talk")
  /\ Finish(t)
  /\ UNCHANGED <<poolVars, sandboxes, used, running, server>>

-----------------------------------------------------------------------------
(* Shutdown                                                                *)

(* POST /engine/stop is answered, then a thread runs daemon.stop().        *)
RequestStop(t) ==
  /\ Accepts(t)
  /\ \E s \in Stoppers :
       /\ req[s].pc = "idle"
       /\ Goto(s, [Blank EXCEPT !.op = "stop", !.pc = "begin"])
  /\ UNCHANGED <<poolVars, sandboxes, used, running, server>>

(* stop() does nothing unless the daemon is running.                       *)
StopBegin(s) ==
  /\ At(s, "begin")
  /\ IF running THEN Goto(s, [req[s] EXCEPT !.pc = "flag"])
     ELSE Finish(s)
  /\ UNCHANGED <<poolVars, sandboxes, used, running, server>>

StopFlag(s) ==
  /\ At(s, "flag")
  /\ running' = FALSE
  /\ Goto(s, [req[s] EXCEPT !.pc = "list"])
  /\ UNCHANGED <<poolVars, sandboxes, used, server>>

(* _destroy_all_sandboxes takes the list of ids once.                      *)
ListIds(t) ==
  /\ At(t, "list")
  /\ NextVictim(t, Listed)
  /\ UNCHANGED <<poolVars, sandboxes, used, running, server>>

PoolStopAll(t) ==
  /\ At(t, "sweep")
  /\ Pool!StopAll(t)
  /\ Goto(t, [req[t] EXCEPT !.pc = "swept"])
  /\ UNCHANGED <<sandboxes, used, running, server>>

(* Mutant: stop() does not shut the server down.                            *)
SweptOnly(t) ==
  /\ At(t, "swept") /\ Pool!Idle(t)
  /\ server' = IF t = Main THEN "exited" ELSE server
  /\ Finish(t)
  /\ UNCHANGED <<poolVars, sandboxes, used, running>>

(* A stop thread then ends serve_forever; the main thread, which came here *)
(* from _cleanup, ends the process and with it every other thread.         *)
Swept(t) ==
  /\ At(t, "swept") /\ Pool!Idle(t)
  /\ server' = IF t = Main THEN "exited"
               ELSE IF server = "serving" THEN "closing" ELSE server
  /\ Finish(t)
  /\ UNCHANGED <<poolVars, sandboxes, used, running>>

Cleanup ==
  /\ server = "closing"
  /\ server' = "closed"
  /\ Goto(Main, [Blank EXCEPT !.op = "exit", !.pc = "list"])
  /\ UNCHANGED <<poolVars, sandboxes, used, running>>

-----------------------------------------------------------------------------

PoolStep(t) == server # "exited" /\ Pool!Continue(t) /\ UNCHANGED engineVars

VMCrash == server # "exited" /\ (\E i \in procs : Pool!Crash(i)) /\ UNCHANGED engineVars

Arrive(t) == Create(t) \/ Destroy(t) \/ Reset(t) \/ Exec(t) \/ RequestStop(t)

Step(t) ==
  \/ PoolStep(t)
  \/ PoolStart(t) \/ PoolStartFailed(t) \/ PoolStatus(t) \/ Insert(t)
  \/ Find(t) \/ PopEntry(t) \/ PoolStop(t) \/ PoolStopped(t)
  \/ Recreate(t)
  \/ GetClient(t) \/ Talk(t)
  \/ StopBegin(t) \/ StopFlag(t) \/ ListIds(t) \/ PoolStopAll(t) \/ Swept(t)

Next == Cleanup \/ VMCrash \/ \E t \in Threads : Arrive(t) \/ Step(t)

Spec == Init /\ [][Next]_vars

(* Threads that have work run; nobody need send a request.                 *)
FairSpec == Spec /\ WF_vars(Cleanup) /\ \A t \in Threads : WF_vars(Step(t))

-----------------------------------------------------------------------------
(* Properties                                                              *)

ReqPCs == {"idle", "reserve", "booting", "insert", "find", "pop", "stop", "stopped",
           "recreate", "client", "talk", "begin", "flag", "list", "sweep", "swept", "done"}

(* Type invariant of the daemon's own state.                               *)
TypeOK ==
  /\ Pool!TypeOK
  /\ sandboxes \in [Ids -> AllNames \cup {None}]
  /\ used \subseteq Ids
  /\ running \in BOOLEAN
  /\ server \in {"serving", "closing", "closed", "exited"}
  /\ req \in [Threads -> [op : {"none", "create", "destroy", "reset", "exec", "stop", "exit"},
                          pc : ReqPCs, arg : AllNames \cup {None}, id : Ids \cup {None},
                          name : AllNames \cup {None}, todo : SUBSET Ids]]

(* The two tables agree: until the daemon stops, a sandbox that is listed  *)
(* has its VM registered in the pool, so exec never misses a listed one    *)
(* (daemon.py:347, 359-363: inserted after pool.start, removed before      *)
(* pool.stop).                                                             *)
SandboxBacked == running => \A id \in Listed : instances[id] # Pool!NoVM

(* A registered VM is never forgotten by the daemon: its sandbox is listed *)
(* or a request is still busy creating or destroying it.                   *)
VMAccounted ==
  \A id \in Ids : instances[id] # Pool!NoVM =>
    \/ id \in Listed
    \/ \E t \in Threads : req[t].id = id /\ req[t].pc \in {"booting", "insert", "stop"}

(* And no Firecracker process runs that neither the pool's registry nor a  *)
(* call in progress can reach.                                             *)
NoOrphans == Pool!NoOrphans

(* What is at the socket and rootfs paths of a running registered VM is    *)
(* its own, since ids are never used twice.                                *)
OwnFiles == Pool!OwnFiles

(* The ids go through the stages of SandboxLife.                           *)
Stage(id) ==
  IF id \notin used THEN "new"
  ELSE IF id \in Listed THEN "up"
  ELSE IF \E t \in Threads : req[t].id = id /\ req[t].pc \in {"reserve", "booting", "insert"}
  THEN "starting" ELSE "gone"

stages == [id \in Ids |-> Stage(id)]

Life == INSTANCE SandboxLife WITH life <- stages

ImplementsLife == Life!LifeSpec

(* Once a stop thread runs, the process ends, whatever requests are in     *)
(* progress.                                                               *)
StopStops ==
  (\E s \in Stoppers : req[s].pc = "begin") ~> (server = "exited")

(* Every accepted request is answered, unless the process ends first.      *)
Answered ==
  \A t \in Requests : (req[t].pc # "idle") ~> (req[t].pc = "idle" \/ server = "exited")

=============================================================================
