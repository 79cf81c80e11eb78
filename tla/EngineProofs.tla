---------------------------- MODULE EngineProofs ----------------------------
(***************************************************************************)
(* Theorems about Engine for any number of requests, stop threads, ids and *)
(* names: the daemon's table and the pool's registry agree, no VM and no   *)
(* process is lost between them, and the ids go through the stages of      *)
(* SandboxLife.                                                            *)
(*                                                                         *)
(* What is known of the pool's own state comes from VMPoolProofs: every    *)
(* step of the daemon is a step of the pool or leaves it alone, so an index*)
(* is never shared.  The rest of the invariant ties the request of a thread*)
(* to the pool call it is in, and both to the id, which one request at most*)
(* holds from its generation until the sandbox is listed.                  *)
(***************************************************************************)
EXTENDS Engine, FiniteSetTheorems, TLAPS

(* The pool with its theorems.                                             *)
Facts == INSTANCE VMPoolProofs WITH
  Names <- Ids, Paths <- Ids, SafeName <- [id \in Ids |-> id],
  NamesOf <- [t \in Threads |-> Ids], Ops <- {"start", "stop", "stop_all", "status"},
  MaxVMs <- MaxSandboxes, MaxIndex <- Cardinality(Ids)

-----------------------------------------------------------------------------
(* Facts and Pool are two names for one module: what is proved of the one  *)
(* holds of the other, definition by definition.                           *)

LEMMA IdsFinite == IsFiniteSet(Ids) /\ Cardinality(Ids) \in Nat
BY EngineAssumption, FS_CardinalityType DEF EngineAssumption

(* The assumption of the pool's theorems holds of the daemon's pool.       *)
LEMMA PoolAssumed == Facts!PoolAssumption
BY EngineAssumption, IdsFinite
   DEF EngineAssumption, Facts!PoolAssumption, Facts!IsFiniteSet, IsFiniteSet, Facts!AllOps, Threads

LEMMA SameNames ==
  /\ Pool!NoVM = Facts!NoVM /\ Pool!NoName = Facts!NoName
  /\ Pool!Registered = Facts!Registered /\ Pool!Starting = Facts!Starting
  /\ Pool!PoolFull <=> Facts!PoolFull
BY DEF Pool!NoVM, Facts!NoVM, Pool!NoName, Facts!NoName, Pool!Registered, Facts!Registered,
       Pool!Starting, Facts!Starting, Pool!PoolFull, Facts!PoolFull,
       Pool!Cardinality, Facts!Cardinality

LEMMA SameFrames ==
  /\ \A r : Pool!Done(r) = Facts!Done(r)
  /\ \A t, r : Pool!Return(t, r) <=> Facts!Return(t, r)
  /\ \A t, pc, n, i, todo : Pool!Enter(t, pc, n, i, todo) <=> Facts!Enter(t, pc, n, i, todo)
  /\ \A t, rest : Pool!KeepSweeping(t, rest) <=> Facts!KeepSweeping(t, rest)
  /\ \A t : Pool!Idle(t) <=> Facts!Idle(t)
<1>1. \A r : Pool!Done(r) = Facts!Done(r)
  BY SameNames DEF Pool!Done, Facts!Done
<1>2. \A t, r : Pool!Return(t, r) <=> Facts!Return(t, r)
  BY <1>1 DEF Pool!Return, Facts!Return
<1>3. \A t, pc, n, i, todo : Pool!Enter(t, pc, n, i, todo) <=> Facts!Enter(t, pc, n, i, todo)
  BY DEF Pool!Enter, Facts!Enter
<1>4. \A t, rest : Pool!KeepSweeping(t, rest) <=> Facts!KeepSweeping(t, rest)
  BY <1>2, <1>3, SameNames DEF Pool!KeepSweeping, Facts!KeepSweeping
<1>5. \A t : Pool!Idle(t) <=> Facts!Idle(t)
  BY DEF Pool!Idle, Facts!Idle
<1> QED BY <1>1, <1>2, <1>3, <1>4, <1>5

LEMMA SamePop ==
  \A t, n, rest : Pool!Pop(t, n, rest) <=> Facts!Pop(t, n, rest)
BY SameNames, SameFrames DEF Pool!Pop, Facts!Pop

LEMMA SameManager ==
  \A i, p : /\ Pool!ManagerStarts(i, p) <=> Facts!ManagerStarts(i, p)
            /\ Pool!ManagerFails(i, p) <=> Facts!ManagerFails(i, p)
            /\ Pool!ManagerStops(i, p) <=> Facts!ManagerStops(i, p)
BY DEF Pool!ManagerStarts, Facts!ManagerStarts, Pool!ManagerFails, Facts!ManagerFails,
       Pool!ManagerStops, Facts!ManagerStops, Pool!Addressable, Facts!Addressable,
       Pool!NoVM, Facts!NoVM

LEMMA SameBegin ==
  \A t, n : /\ Pool!StartReserve(t, n) <=> Facts!StartReserve(t, n)
            /\ Pool!Stop(t, n) <=> Facts!Stop(t, n)
            /\ Pool!Restart(t, n) <=> Facts!Restart(t, n)
            /\ Pool!Lookup(t, n) <=> Facts!Lookup(t, n)
            /\ Pool!StopAll(t) <=> Facts!StopAll(t)
<1> TAKE t, n
<1>1. Pool!StartReserve(t, n) <=> Facts!StartReserve(t, n)
  BY SameNames, SameFrames DEF Pool!StartReserve, Facts!StartReserve, Pool!NameTaken,
     Facts!NameTaken, Pool!NextIndex, Facts!NextIndex
<1>2. Pool!Stop(t, n) <=> Facts!Stop(t, n)
  BY SamePop, SameFrames DEF Pool!Stop, Facts!Stop
<1>3. Pool!Restart(t, n) <=> Facts!Restart(t, n)
  BY SameNames, SameFrames DEF Pool!Restart, Facts!Restart
<1>4. Pool!Lookup(t, n) <=> Facts!Lookup(t, n)
  BY SameNames, SameFrames DEF Pool!Lookup, Facts!Lookup
<1>5. Pool!StopAll(t) <=> Facts!StopAll(t)
  BY SameNames, SameFrames DEF Pool!StopAll, Facts!StopAll
<1> QED BY <1>1, <1>2, <1>3, <1>4, <1>5

LEMMA SameContinue == \A t : Pool!Continue(t) <=> Facts!Continue(t)
<1> TAKE t
<1>1. Pool!StartBoot(t) <=> Facts!StartBoot(t)
  BY SameManager DEF Pool!StartBoot, Facts!StartBoot
<1>2. Pool!StartFail(t) <=> Facts!StartFail(t)
  BY SameManager, SameFrames DEF Pool!StartFail, Facts!StartFail
<1>3. Pool!StartRegister(t) <=> Facts!StartRegister(t)
  BY SameFrames DEF Pool!StartRegister, Facts!StartRegister
<1>4. Pool!StopKill(t) <=> Facts!StopKill(t)
  BY SameManager, SameFrames DEF Pool!StopKill, Facts!StopKill
<1>5. Pool!Sweep(t) <=> Facts!Sweep(t)
  BY SamePop DEF Pool!Sweep, Facts!Sweep
<1>6. Pool!RestartStop(t) <=> Facts!RestartStop(t)
  BY SameManager DEF Pool!RestartStop, Facts!RestartStop
<1>7. Pool!RestartStart(t) <=> Facts!RestartStart(t)
  BY SameManager, SameFrames DEF Pool!RestartStart, Facts!RestartStart
<1> QED BY <1>1, <1>2, <1>3, <1>4, <1>5, <1>6, <1>7 DEF Pool!Continue, Facts!Continue

LEMMA SamePool ==
  /\ Pool!TypeOK <=> Facts!TypeOK
  /\ Pool!IndexUnique <=> Facts!IndexUnique
  /\ Pool!PoolInit <=> Facts!PoolInit
  /\ Pool!PoolNext <=> Facts!PoolNext
<1>1. Pool!TypeOK <=> Facts!TypeOK
  BY SameNames DEF Pool!TypeOK, Facts!TypeOK, Pool!Frame, Facts!Frame, Pool!PCs, Facts!PCs,
     Pool!Results, Facts!Results
<1>2. Pool!IndexUnique <=> Facts!IndexUnique
  BY SameNames DEF Pool!IndexUnique, Facts!IndexUnique
<1>3. Pool!PoolInit <=> Facts!PoolInit
  BY SameNames, SameFrames DEF Pool!PoolInit, Facts!PoolInit
<1>4. Pool!PoolNext <=> Facts!PoolNext
  <2>1. \A t : Pool!Begin(t) <=> Facts!Begin(t)
    BY SameBegin DEF Pool!Begin, Facts!Begin
  <2>2. \A i : Pool!Crash(i) <=> Facts!Crash(i)
    BY DEF Pool!Crash, Facts!Crash
  <2> QED BY <2>1, <2>2, SameContinue DEF Pool!PoolNext, Facts!PoolNext
<1> QED BY <1>1, <1>2, <1>3, <1>4

LEMMA SamePoolNext == Pool!TypeOK' <=> Facts!TypeOK'
BY SamePool, PTL

-----------------------------------------------------------------------------
(* The inductive invariant                                                 *)

(* A request that holds an id nobody else knows yet.                       *)
Holder(t) == req[t].pc \in {"reserve", "booting", "insert"}

(* Its pool.start has returned a VM, or not yet.                           *)
Got(t) == call[t].pc = "idle" /\ call[t].result = "ok"
Unregistered(t) == req[t].pc = "reserve" \/ (req[t].pc = "booting" /\ ~Got(t))

ReqFrame == [op : {"none", "create", "destroy", "reset", "exec", "stop", "exit"},
             pc : ReqPCs, arg : AllNames \cup {None}, id : Ids \cup {None},
             name : AllNames \cup {None}, todo : SUBSET Ids]

(* What a request holds at each step.                                      *)
ReqFits(t) ==
  /\ req[t].pc \in {"reserve", "booting", "insert", "pop", "stop", "stopped", "client", "talk"}
       => req[t].id \in Ids
  /\ Holder(t) \/ req[t].pc = "recreate" \/ (req[t].op = "reset" /\ req[t].pc # "idle")
       => req[t].name \in AllNames
  /\ req[t].pc \in {"begin", "flag"} => req[t].op = "stop"
  /\ req[t].pc \in {"list", "sweep", "swept"} => req[t].op \in {"stop", "exit"}
  /\ req[t].pc \in {"find", "pop", "stop", "stopped"}
       => req[t].op \in {"destroy", "reset", "stop", "exit"}
  /\ req[t].op \in {"stop", "exit"} /\ req[t].pc \notin {"begin", "flag"} => ~running

(* The pool call of a thread is the one its request is waiting for.        *)
CallFits(t) ==
  /\ call[t].pc \in {"idle", "boot", "register", "kill", "sweep"}
  /\ call[t].pc \in {"boot", "register"} => req[t].pc = "booting" /\ call[t].name = req[t].id
  /\ call[t].pc = "kill" => \/ req[t].pc = "swept"
                            \/ req[t].pc = "stopped" /\ call[t].todo = {}
  /\ call[t].pc = "sweep" => req[t].pc = "swept"

ServerOK ==
  /\ server # "serving" => ~running
  /\ server \in {"serving", "closing"} => req[Main].pc = "idle"

(* An id belongs to nobody before it is generated, then to one request     *)
(* until its sandbox is listed; its VM is registered by that request only, *)
(* and once it is removed from a table it does not come back.              *)
FreshOK ==
  \A id \in Ids \ used : /\ sandboxes[id] = None /\ instances[id] = Pool!NoVM
                         /\ \A t \in Threads : req[t].id # id
HoldersOK ==
  \A t \in Threads : Holder(t) =>
    /\ sandboxes[req[t].id] = None
    /\ \A s \in Threads \ {t} : req[s].id # req[t].id
UnregisteredOK ==
  \A t \in Threads : Unregistered(t) =>
    /\ instances[req[t].id] = Pool!NoVM
    /\ \A s \in Threads : call[s].pc = "kill" => call[s].name # req[t].id
RemovedOK ==
  \A t \in Threads :
    /\ req[t].pc \in {"stop", "stopped"} => sandboxes[req[t].id] = None
    /\ call[t].pc = "kill" => instances[call[t].name] = Pool!NoVM /\ call[t].name \in used

IdsOK == FreshOK /\ HoldersOK /\ UnregisteredOK /\ RemovedOK

(* SandboxBacked, already for the sandbox that is about to be listed.      *)
Backed ==
  /\ SandboxBacked
  /\ running => \A t \in Threads : req[t].pc = "insert" => instances[req[t].id] # Pool!NoVM

(* NoOrphans, with the calls that really hold a manager.                   *)
Reachable ==
  \A i \in procs : \/ \E id \in Ids : instances[id] = i
                   \/ \E t \in Threads : /\ call[t].pc \in {"boot", "register", "kill"}
                                         /\ call[t].vm = i

(* OwnFiles, already for the VM that is about to be registered.            *)
FilesOK ==
  /\ OwnFiles
  /\ \A i \in procs : i < nextIndex
  /\ \A t \in Threads : /\ call[t].pc = "boot" => call[t].vm \notin procs
                        /\ call[t].pc = "register" /\ call[t].vm \in procs
                             => files[call[t].name] = call[t].vm

TablesOK == IdsOK /\ Backed /\ VMAccounted /\ Reachable /\ FilesOK

RequestsOK == ServerOK /\ \A t \in Threads : ReqFits(t) /\ CallFits(t)

Inv == TypeOK /\ Facts!IndexInv /\ RequestsOK /\ TablesOK

-----------------------------------------------------------------------------

LEMMA NoneFresh == None \notin Ids /\ None \notin AllNames /\ Ids \subseteq AllNames
BY EngineAssumption DEF EngineAssumption, AllNames

LEMMA InitInv == Init => Inv
<1> SUFFICES ASSUME Init PROVE Inv
  OBVIOUS
<1>1. Facts!PoolInit /\ Pool!PoolInit
  BY SamePool DEF Init
<1>2. Facts!TypeOK /\ Pool!TypeOK
  BY <1>1, PoolAssumed, Facts!InitTypeOK, SamePool
<1>3. /\ \A t \in Threads : call[t].pc = "idle" /\ call[t].result = "none"
      /\ \A id \in Ids : instances[id] = Pool!NoVM
      /\ procs = {}
  BY <1>1 DEF Pool!PoolInit, Pool!Done
<1>4. TypeOK
  BY <1>2 DEF Init, TypeOK, Blank, ReqPCs
<1>5. Facts!IndexInv
  BY <1>2, <1>3, SameNames DEF Facts!IndexInv, Facts!IndexUnique, Facts!BelowCounter,
     Facts!Registered, Facts!Starting
<1>6. \A t \in Threads : req[t] = Blank
  BY DEF Init
<1>7. RequestsOK
  BY <1>3, <1>6 DEF RequestsOK, ServerOK, ReqFits, CallFits, Init, Blank, Holder, Threads
<1>8. IdsOK
  BY <1>3, <1>6, NoneFresh DEF IdsOK, FreshOK, HoldersOK, UnregisteredOK, RemovedOK, Init, Blank, Holder,
     Unregistered
<1>9. Listed = {}
  BY DEF Listed, Init
<1>10. Backed /\ VMAccounted
  BY <1>3, <1>6, <1>9 DEF Backed, SandboxBacked, VMAccounted, Blank
<1>11. Reachable /\ FilesOK
  BY <1>3 DEF Reachable, FilesOK, OwnFiles, Pool!OwnFiles
<1> QED BY <1>4, <1>5, <1>7, <1>8, <1>10, <1>11 DEF Inv, TablesOK

-----------------------------------------------------------------------------
(* Steps of a request between two pool calls                               *)

(* While a request is not in a pool call, its thread is idle in the pool.  *)
LEMMA NotInACall ==
  ASSUME Inv, NEW t \in Threads, req[t].pc \notin {"booting", "stopped", "swept"}
  PROVE  call[t].pc = "idle"
BY DEF Inv, RequestsOK, CallFits

(* The pool calls of other threads, and the ids they know, stay.           *)
LEMMA Types ==
  ASSUME Inv
  PROVE  /\ instances \in [Ids -> Nat \cup {Pool!NoVM}] /\ nextIndex \in Nat
         /\ procs \subseteq Nat /\ files \in [Ids -> Nat \cup {Pool!NoVM}]
         /\ call \in [Threads -> Pool!Frame]
         /\ \A t \in Threads : call[t].pc \in {"boot", "register", "kill"}
              => call[t].name \in Ids /\ call[t].vm \in Nat
         /\ sandboxes \in [Ids -> AllNames \cup {None}] /\ used \subseteq Ids
         /\ req \in [Threads -> ReqFrame]
BY DEF Inv, TypeOK, Pool!TypeOK, ReqFrame

(* A thread is idle in the pool, and becomes so again by Lookup.           *)
Idles(t) == \/ UNCHANGED call
            \/ \E r \in Pool!Results : call' = [call EXCEPT ![t] = Pool!Done(r)]

LEMMA IdlesKeeps ==
  ASSUME Inv, NEW t \in Threads, call[t].pc = "idle", Idles(t)
  PROVE  /\ call' \in [Threads -> Pool!Frame]
         /\ call'[t].pc = "idle"
         /\ \A s \in Threads \ {t} : call'[s] = call[s]
<1>1. \A r \in Pool!Results : Pool!Done(r) \in Pool!Frame /\ Pool!Done(r).pc = "idle"
  BY DEF Pool!Done, Pool!Frame, Pool!PCs, Pool!NoVM, Pool!NoName
<1> QED BY <1>1, Types DEF Idles

(* What every step of t that keeps the tables must see to: the new request *)
(* fits, the id is the old one or a listed one, and a VM it was to look    *)
(* after is not dropped.                                                   *)
Moves(t, f) ==
  /\ req' = [req EXCEPT ![t] = f] /\ f \in ReqFrame
  /\ Idles(t) /\ call[t].pc = "idle"
  /\ UNCHANGED <<instances, nextIndex, procs, files, sandboxes, used>>
  /\ running' \in BOOLEAN /\ (running' => running)
  /\ f.pc \notin {"reserve", "booting", "stop", "stopped"}
  /\ f.id \in Listed \cup {None, req[t].id}
  /\ f.pc = "insert" => /\ req[t].pc = "booting" /\ f.id = req[t].id
                        /\ instances[f.id] # Pool!NoVM
  /\ req[t].pc \in {"booting", "insert", "stop"} /\ req[t].id \in Ids /\ f.pc # "insert"
       => instances[req[t].id] = Pool!NoVM

LEMMA MovesKeepsTables ==
  ASSUME Inv, NEW t \in Threads, NEW f, Moves(t, f)
  PROVE  TablesOK'
<1>1. /\ req'[t] = f /\ \A s \in Threads \ {t} : req'[s] = req[s]
      /\ call'[t].pc = "idle" /\ \A s \in Threads \ {t} : call'[s] = call[s]
  BY IdlesKeeps, Types DEF Moves
<1>2. \A id \in Listed : id \in used /\ id \in Ids /\ id # None
  BY NoneFresh DEF Inv, TablesOK, IdsOK, FreshOK, Listed
<1>3. FreshOK'
  BY <1>1, <1>2, NoneFresh DEF Inv, TablesOK, IdsOK, FreshOK, Moves
<1>4. \A s \in Threads : Holder(s)' => Holder(s) /\ req'[s].id = req[s].id
  BY <1>1 DEF Holder, Moves
<1>5. HoldersOK'
  <2> SUFFICES ASSUME NEW s \in Threads, req'[s].pc \in {"reserve", "booting", "insert"}
               PROVE  /\ sandboxes'[req'[s].id] = None
                      /\ \A u \in Threads \ {s} : req'[u].id # req'[s].id
    BY DEF HoldersOK, Holder
  <2>1. Holder(s) /\ req'[s].id = req[s].id /\ req[s].id \in Ids
    BY <1>4 DEF Inv, RequestsOK, ReqFits, Holder
  <2>2. sandboxes'[req[s].id] = None /\ \A u \in Threads \ {s} : req[u].id # req[s].id
    BY <2>1 DEF Inv, TablesOK, IdsOK, HoldersOK, Moves
  <2>3. \A u \in Threads : req'[u].id \in Listed \cup {None, req[u].id}
    BY <1>1 DEF Moves
  <2>4. req[s].id \notin Listed \cup {None}
    BY <2>1, <2>2, NoneFresh DEF Listed, Moves
  <2> QED BY <2>1, <2>2, <2>3, <2>4
<1>6. UnregisteredOK'
  BY <1>1 DEF Inv, TablesOK, IdsOK, UnregisteredOK, Unregistered, Got, Moves
<1>7. RemovedOK'
  BY <1>1 DEF Inv, TablesOK, IdsOK, RemovedOK, Moves
<1>8. Backed'
  BY <1>1 DEF Inv, TablesOK, Backed, SandboxBacked, Listed, Moves
<1>9. VMAccounted'
  BY <1>1 DEF Inv, TablesOK, VMAccounted, Listed, Moves
<1>10. Reachable'
  BY <1>1 DEF Inv, TablesOK, Reachable, Moves
<1>11. FilesOK'
  BY <1>1 DEF Inv, TablesOK, FilesOK, OwnFiles, Pool!OwnFiles, Pool!Registered, Moves
<1> QED BY <1>3, <1>5, <1>6, <1>7, <1>8, <1>9, <1>10, <1>11 DEF TablesOK, IdsOK

(* What is left to show of such a step.                                    *)
LEMMA MovesKeeps ==
  ASSUME Inv, NEW t \in Threads, NEW f, Moves(t, f), Facts!IndexInv',
         server' \in {"serving", "closing", "closed", "exited"}, ServerOK', ReqFits(t)'
  PROVE  Inv'
<1>1. /\ req'[t] = f /\ \A s \in Threads \ {t} : req'[s] = req[s]
      /\ call'[t].pc = "idle" /\ \A s \in Threads \ {t} : call'[s] = call[s]
      /\ req' \in [Threads -> ReqFrame]
  BY IdlesKeeps, Types DEF Moves
<1>2. Pool!TypeOK'
  BY SamePoolNext DEF Facts!IndexInv
<1>3. TypeOK'
  BY <1>1, <1>2 DEF Inv, TypeOK, ReqFrame, Moves
<1>4. ASSUME NEW s \in Threads \ {t} PROVE ReqFits(s)' /\ CallFits(s)'
  <2>1. req'[s] = req[s] /\ call'[s] = call[s] /\ (running' => running)
    BY <1>1, <1>4 DEF Moves
  <2>2. ReqFits(s) /\ CallFits(s)
    BY <1>4 DEF Inv, RequestsOK
  <2>3. running' \in BOOLEAN /\ running \in BOOLEAN
    BY DEF Moves, Inv, TypeOK
  <2>4. ReqFits(s)'
    BY <2>1, <2>2, <2>3 DEF ReqFits, Holder
  <2> QED BY <2>1, <2>2, <2>4 DEF CallFits
<1>5. CallFits(t)'
  BY <1>1 DEF CallFits
<1>6. RequestsOK'
  BY <1>4, <1>5 DEF RequestsOK
<1> QED BY <1>3, <1>6, MovesKeepsTables DEF Inv

(* The steps of the daemon are steps of the pool, or leave it alone.       *)
LEMMA PoolMoves ==
  ASSUME Inv, [Next]_vars
  PROVE  [Pool!PoolNext]_poolVars
<1>1. \A t \in Threads : [x \in Threads |-> Ids][t] = Ids
  OBVIOUS
<1>2. ASSUME NEW t \in Threads, PoolStep(t) PROVE Pool!PoolNext
  BY <1>2 DEF PoolStep, Pool!PoolNext
<1>3. ASSUME NEW t \in Threads,
             PoolStart(t) \/ PoolStatus(t) \/ PoolStop(t) \/ GetClient(t) \/ PoolStopAll(t)
      PROVE  Pool!PoolNext
  <2>1. req[t].pc \in {"reserve", "booting", "stop", "client"} => req[t].id \in Ids
    BY DEF Inv, RequestsOK, ReqFits
  <2>2. Pool!Begin(t)
    BY <1>1, <1>3, <2>1 DEF PoolStart, PoolStatus, PoolStop, GetClient, PoolStopAll, At, Pool!Begin
  <2> QED BY <2>2 DEF Pool!PoolNext
<1>4. CASE VMCrash
  BY <1>4 DEF VMCrash, Pool!PoolNext
<1>5. ASSUME NEW t \in Threads,
             \/ Arrive(t) \/ PoolStartFailed(t) \/ Insert(t) \/ Find(t) \/ PopEntry(t)
             \/ PoolStopped(t) \/ Recreate(t) \/ Talk(t) \/ StopBegin(t) \/ StopFlag(t)
             \/ ListIds(t) \/ Swept(t)
      PROVE  UNCHANGED poolVars
  BY <1>5 DEF Arrive, Create, Destroy, Reset, Exec, RequestStop, PoolStartFailed, Insert, Find,
     PopEntry, PoolStopped, Recreate, Talk, StopBegin, StopFlag, ListIds, Swept, CheckName
<1>6. Cleanup => UNCHANGED poolVars
  BY DEF Cleanup
<1>7. UNCHANGED vars => UNCHANGED poolVars
  BY DEF vars, poolVars
<1> QED BY <1>2, <1>3, <1>4, <1>5, <1>6, <1>7 DEF Next, Step

LEMMA NextIndices == ASSUME Inv, [Next]_vars PROVE Facts!IndexInv'
<1>1. [Facts!PoolNext]_(Facts!poolVars)
  BY PoolMoves, SamePool DEF poolVars, Facts!poolVars
<1> QED BY <1>1, PoolAssumed, Facts!NextIndexInv DEF Inv

LEMMA StepKeeps ==
  ASSUME Inv, [Next]_vars, NEW t \in Threads, NEW f, Moves(t, f), UNCHANGED server, ReqFits(t)',
         t = Main => req[t].pc # "idle"
  PROVE  Inv'
<1>1. ServerOK'
  <2>1. ServerOK /\ running \in BOOLEAN
    BY DEF Inv, RequestsOK, TypeOK
  <2>2. CASE t # Main
    <3>1. req'[Main] = req[Main] /\ (running' => running) /\ running' \in BOOLEAN
      BY <2>2, Types DEF Moves, Threads
    <3> QED BY <2>1, <3>1 DEF ServerOK
  <2>3. CASE t = Main
    BY <2>1, <2>3 DEF ServerOK, Moves
  <2> QED BY <2>2, <2>3
<1>2. server' \in {"serving", "closing", "closed", "exited"}
  BY DEF Inv, TypeOK
<1> QED BY <1>1, <1>2, NextIndices, MovesKeeps

LEMMA FinishKeeps ==
  ASSUME Inv, [Next]_vars, NEW t \in Threads, Finish(t), Idles(t), call[t].pc = "idle",
         UNCHANGED <<instances, nextIndex, procs, files, sandboxes, used, running, server>>,
         t = Main => req[t].pc # "idle",
         req[t].pc \in {"booting", "insert", "stop"} => instances[req[t].id] = Pool!NoVM
  PROVE  Inv'
<1> DEFINE f == [Blank EXCEPT !.pc = IF t \in Requests THEN "idle" ELSE "done"]
<1>1. f \in ReqFrame /\ f.pc \in {"idle", "done"} /\ f.id = None /\ f.op = "none"
  BY DEF Blank, ReqFrame, ReqPCs
<1>2. req' = [req EXCEPT ![t] = f] /\ req'[t] = f
  BY Types DEF Finish, Goto
<1>3. running \in BOOLEAN
  BY DEF Inv, TypeOK
<1>4. Moves(t, f)
  BY <1>1, <1>2, <1>3 DEF Moves
<1>5. ReqFits(t)'
  BY <1>1, <1>2 DEF ReqFits, Holder
<1> QED BY <1>4, <1>5, StepKeeps

(* The next step of a destroy that has come to its end.                    *)
LEMMA NextVictimKeeps ==
  ASSUME Inv, [Next]_vars, NEW t \in Threads, NEW todo \in SUBSET Ids, NextVictim(t, todo),
         UNCHANGED <<poolVars, sandboxes, used, running, server>>,
         req[t].op \in {"stop", "exit"}, req[t].pc \in {"find", "stopped", "list"},
         call[t].pc = "idle"
  PROVE  Inv'
<1>1. PICK f : /\ req' = [req EXCEPT ![t] = f]
               /\ \/ f = [Blank EXCEPT !.op = req[t].op, !.pc = "sweep"]
                  \/ \E id \in todo : f = [Blank EXCEPT !.op = req[t].op, !.pc = "find",
                                                        !.arg = id, !.todo = todo \ {id}]
  BY DEF NextVictim, Goto
<1>2. f \in ReqFrame /\ f.pc \in {"sweep", "find"} /\ f.id = None /\ f.op = req[t].op
  BY <1>1, NoneFresh DEF Blank, ReqFrame, ReqPCs
<1>3. req'[t] = f
  BY <1>1, Types
<1>4. running \in BOOLEAN /\ ~running
  BY DEF Inv, TypeOK, RequestsOK, ReqFits
<1>5. Moves(t, f)
  BY <1>1, <1>2, <1>4 DEF Moves, Idles, poolVars
<1>6. ReqFits(t)'
  BY <1>2, <1>3, <1>4 DEF ReqFits, Holder
<1> QED BY <1>5, <1>6, StepKeeps

LEMMA DestroyedKeeps ==
  ASSUME Inv, [Next]_vars, NEW t \in Threads, Destroyed(t),
         UNCHANGED <<poolVars, sandboxes, used, running, server>>,
         req[t].pc \in {"find", "stopped"}, call[t].pc = "idle"
  PROVE  Inv'
<1>1. req[t].op \in {"destroy", "reset", "stop", "exit"}
  BY DEF Inv, RequestsOK, ReqFits
<1>2. CASE req[t].op = "destroy"
  BY <1>2, FinishKeeps DEF Destroyed, Idles, poolVars
<1>3. CASE req[t].op = "reset"
  <2> DEFINE f == [req[t] EXCEPT !.pc = "recreate"]
  <2>1. req' = [req EXCEPT ![t] = f] /\ req[t] \in ReqFrame
    BY <1>3, Types DEF Destroyed, Goto
  <2>2. f \in ReqFrame /\ f.pc = "recreate" /\ f.id = req[t].id /\ f.op = "reset"
        /\ f.name = req[t].name
    BY <1>3, <2>1 DEF ReqFrame, ReqPCs
  <2>3. running \in BOOLEAN /\ f.name \in AllNames
    BY <1>3, <2>2 DEF Inv, TypeOK, RequestsOK, ReqFits
  <2>4. Moves(t, f)
    BY <2>1, <2>2, <2>3 DEF Moves, Idles, poolVars
  <2>5. req'[t] = f
    BY <2>1, Types
  <2>6. ReqFits(t)'
    BY <2>2, <2>3, <2>5 DEF ReqFits, Holder
  <2> QED BY <2>4, <2>6, StepKeeps
<1>4. CASE req[t].op \in {"stop", "exit"}
  <2>1. NextVictim(t, req[t].todo)
    BY <1>4 DEF Destroyed
  <2>2. req[t].todo \in SUBSET Ids
    BY Types DEF ReqFrame
  <2> QED BY <1>4, <2>1, <2>2, NextVictimKeeps
<1> QED BY <1>1, <1>2, <1>3, <1>4

(* A request that goes on with what it has, or with a listed sandbox.      *)
LEMMA GoesOnKeeps ==
  ASSUME Inv, [Next]_vars, NEW t \in Threads, NEW f \in ReqFrame, Goto(t, f), Idles(t),
         call[t].pc = "idle",
         UNCHANGED <<instances, nextIndex, procs, files, sandboxes, used, running, server>>,
         t = Main => req[t].pc # "idle",
         f.pc \in {"find", "pop", "client", "talk", "flag"},
         req[t].pc \notin {"booting", "insert", "stop"},
         f.id \in Listed \cup {None, req[t].id}, f.pc \in {"pop", "client", "talk"} => f.id \in Ids,
         f.op \in {"destroy", "reset", "stop", "exit"} \/ f.pc \in {"client", "talk"},
         f.op = "reset" => f.name \in AllNames,
         f.op \in {"stop", "exit"} /\ f.pc # "flag" => ~running, f.pc = "flag" => f.op = "stop"
  PROVE  Inv'
<1>1. running \in BOOLEAN /\ req' = [req EXCEPT ![t] = f] /\ req'[t] = f
  BY Types DEF Inv, TypeOK, Goto
<1>2. Moves(t, f)
  BY <1>1 DEF Moves
<1>3. ReqFits(t)'
  BY <1>1 DEF ReqFits, Holder
<1> QED BY <1>2, <1>3, StepKeeps

LEMMA DestroyKeeps == ASSUME Inv, [Next]_vars, NEW t \in Threads, Destroy(t) PROVE Inv'
<1>1. PICK x \in used \cup UserNames :
         Goto(t, [Blank EXCEPT !.op = "destroy", !.pc = "find", !.arg = x])
  BY DEF Destroy
<1> DEFINE f == [Blank EXCEPT !.op = "destroy", !.pc = "find", !.arg = x]
<1>2. f \in ReqFrame /\ f.id = None /\ f.pc = "find" /\ f.op = "destroy"
  BY Types DEF Blank, ReqFrame, ReqPCs, AllNames
<1>3. t \in Requests /\ t # Main /\ req[t].pc = "idle"
  BY EngineAssumption DEF Destroy, Accepts, EngineAssumption
<1> QED BY <1>1, <1>2, <1>3, NotInACall, GoesOnKeeps DEF Destroy, poolVars, Idles

LEMMA ListedIds ==
  ASSUME Inv, NEW x
  PROVE  /\ Matches(x) \subseteq Listed /\ Listed \subseteq Ids
         /\ \A id \in Listed : sandboxes[id] \in AllNames
BY Types DEF Matches, Listed

LEMMA FindKeeps == ASSUME Inv, [Next]_vars, NEW t \in Threads, Find(t) PROVE Inv'
<1>1. req[t].pc = "find" /\ call[t].pc = "idle"
  BY NotInACall DEF Find, At
<1>2. CASE Matches(req[t].arg) = {}
  BY <1>1, <1>2, DestroyedKeeps DEF Find
<1>3. CASE Matches(req[t].arg) # {}
  <2>1. PICK id \in Matches(req[t].arg) : Goto(t, [req[t] EXCEPT !.pc = "pop", !.id = id])
    BY <1>3 DEF Find
  <2> DEFINE f == [req[t] EXCEPT !.pc = "pop", !.id = id]
  <2>2. id \in Listed /\ id \in Ids
    BY ListedIds
  <2>3. f \in ReqFrame /\ f.id = id /\ f.pc = "pop" /\ f.op = req[t].op /\ f.name = req[t].name
    <3>1. req[t] \in ReqFrame /\ "pop" \in ReqPCs
      BY Types DEF ReqPCs
    <3> QED BY <2>2, <3>1 DEF ReqFrame
  <2>4. /\ req[t].op \in {"destroy", "reset", "stop", "exit"}
        /\ req[t].op = "reset" => req[t].name \in AllNames
        /\ req[t].op \in {"stop", "exit"} => ~running
    BY <1>1 DEF Inv, RequestsOK, ReqFits
  <2> QED BY <1>1, <2>1, <2>2, <2>3, <2>4, GoesOnKeeps DEF Find, poolVars, Idles
<1> QED BY <1>2, <1>3

LEMMA PoolStoppedKeeps == ASSUME Inv, [Next]_vars, NEW t \in Threads, PoolStopped(t) PROVE Inv'
BY DestroyedKeeps DEF PoolStopped, At, Pool!Idle

LEMMA ResetKeeps == ASSUME Inv, [Next]_vars, NEW t \in Threads, Reset(t) PROVE Inv'
<1>1. t \in Requests /\ t # Main /\ req[t].pc = "idle" /\ call[t].pc = "idle"
  BY EngineAssumption, NotInACall DEF Reset, Accepts, EngineAssumption
<1>2. PICK x \in used \cup UserNames :
       IF Matches(x) = {} THEN Finish(t)
       ELSE \E id \in Matches(x) :
              Goto(t, [Blank EXCEPT !.op = "reset", !.pc = "find",
                                    !.arg = id, !.name = sandboxes[id]])
  BY DEF Reset
<1>3. CASE Matches(x) = {}
  BY <1>1, <1>2, <1>3, FinishKeeps DEF Reset, poolVars, Idles
<1>4. CASE Matches(x) # {}
  <2>1. PICK id \in Matches(x) :
          Goto(t, [Blank EXCEPT !.op = "reset", !.pc = "find",
                                !.arg = id, !.name = sandboxes[id]])
    BY <1>2, <1>4
  <2> DEFINE f == [Blank EXCEPT !.op = "reset", !.pc = "find", !.arg = id, !.name = sandboxes[id]]
  <2>2. id \in Ids /\ sandboxes[id] \in AllNames
    BY ListedIds
  <2>3. f \in ReqFrame /\ f.id = None /\ f.pc = "find" /\ f.op = "reset" /\ f.name \in AllNames
    BY <2>2, NoneFresh DEF Blank, ReqFrame, ReqPCs
  <2> QED BY <1>1, <2>1, <2>3, GoesOnKeeps DEF Reset, poolVars, Idles
<1> QED BY <1>3, <1>4

LEMMA ExecKeeps == ASSUME Inv, [Next]_vars, NEW t \in Threads, Exec(t) PROVE Inv'
<1>1. t \in Requests /\ t # Main /\ req[t].pc = "idle" /\ call[t].pc = "idle"
  BY EngineAssumption, NotInACall DEF Exec, Accepts, EngineAssumption
<1>2. PICK x \in used \cup UserNames :
       IF Matches(x) = {} THEN Finish(t)
       ELSE \E id \in Matches(x) :
              Goto(t, [Blank EXCEPT !.op = "exec", !.pc = "client", !.id = id])
  BY DEF Exec
<1>3. CASE Matches(x) = {}
  BY <1>1, <1>2, <1>3, FinishKeeps DEF Exec, poolVars, Idles
<1>4. CASE Matches(x) # {}
  <2>1. PICK id \in Matches(x) : Goto(t, [Blank EXCEPT !.op = "exec", !.pc = "client", !.id = id])
    BY <1>2, <1>4
  <2> DEFINE f == [Blank EXCEPT !.op = "exec", !.pc = "client", !.id = id]
  <2>2. id \in Ids /\ id \in Listed
    BY ListedIds
  <2>3. f \in ReqFrame /\ f.id = id /\ f.pc = "client" /\ f.op = "exec"
    BY <2>2, NoneFresh DEF Blank, ReqFrame, ReqPCs
  <2> QED BY <1>1, <2>1, <2>2, <2>3, GoesOnKeeps DEF Exec, poolVars, Idles
<1> QED BY <1>3, <1>4

LEMMA LookupIdles ==
  ASSUME NEW t, NEW id, Pool!Lookup(t, id)
  PROVE  Idles(t) /\ call[t].pc = "idle" /\ UNCHANGED <<instances, nextIndex, procs, files>>
BY DEF Pool!Lookup, Pool!Return, Pool!Idle, Idles, Pool!Results

LEMMA GetClientKeeps == ASSUME Inv, [Next]_vars, NEW t \in Threads, GetClient(t) PROVE Inv'
<1>1. req[t].pc = "client" /\ Idles(t) /\ call[t].pc = "idle"
      /\ UNCHANGED <<instances, nextIndex, procs, files, sandboxes, used, running, server>>
  BY LookupIdles DEF GetClient, At
<1>2. CASE Finish(t)
  BY <1>1, <1>2, FinishKeeps
<1>3. CASE Goto(t, [req[t] EXCEPT !.pc = "talk"])
  <2> DEFINE f == [req[t] EXCEPT !.pc = "talk"]
  <2>1. f \in ReqFrame /\ f.id = req[t].id /\ f.pc = "talk" /\ f.op = req[t].op
        /\ f.name = req[t].name
    BY Types DEF ReqFrame, ReqPCs
  <2>2. /\ req[t].id \in Ids /\ (req[t].op = "reset" => req[t].name \in AllNames)
        /\ req[t].op \in {"stop", "exit"} => ~running
    BY <1>1 DEF Inv, RequestsOK, ReqFits
  <2> QED BY <1>1, <1>3, <2>1, <2>2, GoesOnKeeps
<1> QED BY <1>2, <1>3 DEF GetClient

LEMMA TalkKeeps == ASSUME Inv, [Next]_vars, NEW t \in Threads, Talk(t) PROVE Inv'
<1>1. req[t].pc = "talk" /\ call[t].pc = "idle"
  BY NotInACall DEF Talk, At
<1> QED BY <1>1, FinishKeeps DEF Talk, poolVars, Idles

-----------------------------------------------------------------------------
(* The shutdown                                                            *)

LEMMA RequestStopKeeps == ASSUME Inv, [Next]_vars, NEW t \in Threads, RequestStop(t) PROVE Inv'
<1>1. PICK s \in Stoppers : req[s].pc = "idle" /\ Goto(s, [Blank EXCEPT !.op = "stop", !.pc = "begin"])
  BY DEF RequestStop
<1> DEFINE f == [Blank EXCEPT !.op = "stop", !.pc = "begin"]
<1>2. s \in Threads /\ s # Main /\ call[s].pc = "idle"
  BY <1>1, EngineAssumption, NotInACall DEF EngineAssumption, Threads
<1>3. f \in ReqFrame /\ f.id = None /\ f.pc = "begin" /\ f.op = "stop"
  BY DEF Blank, ReqFrame, ReqPCs
<1>4. req' = [req EXCEPT ![s] = f] /\ req'[s] = f /\ running \in BOOLEAN
  BY <1>1, <1>2, Types DEF Goto, Inv, TypeOK
<1>5. Moves(s, f)
  BY <1>1, <1>2, <1>3, <1>4 DEF Moves, Idles, RequestStop, poolVars
<1>6. ReqFits(s)'
  BY <1>3, <1>4 DEF ReqFits, Holder
<1> QED BY <1>2, <1>5, <1>6, StepKeeps DEF RequestStop

LEMMA StopBeginKeeps == ASSUME Inv, [Next]_vars, NEW t \in Threads, StopBegin(t) PROVE Inv'
<1>1. req[t].pc = "begin" /\ call[t].pc = "idle" /\ req[t].op = "stop"
  BY NotInACall DEF StopBegin, At, Inv, RequestsOK, ReqFits
<1>2. CASE running
  <2> DEFINE f == [req[t] EXCEPT !.pc = "flag"]
  <2>1. f \in ReqFrame /\ f.id = req[t].id /\ f.pc = "flag" /\ f.op = "stop"
    BY <1>1, Types DEF ReqFrame, ReqPCs
  <2> QED BY <1>1, <1>2, <2>1, GoesOnKeeps DEF StopBegin, poolVars, Idles
<1>3. CASE ~running
  BY <1>1, <1>3, FinishKeeps DEF StopBegin, poolVars, Idles
<1> QED BY <1>2, <1>3

LEMMA StopFlagKeeps == ASSUME Inv, [Next]_vars, NEW t \in Threads, StopFlag(t) PROVE Inv'
<1> DEFINE f == [req[t] EXCEPT !.pc = "list"]
<1>1. req[t].pc = "flag" /\ call[t].pc = "idle" /\ req[t].op = "stop"
  BY NotInACall DEF StopFlag, At, Inv, RequestsOK, ReqFits
<1>2. f \in ReqFrame /\ f.id = req[t].id /\ f.pc = "list" /\ f.op = "stop"
  BY <1>1, Types DEF ReqFrame, ReqPCs
<1>3. req' = [req EXCEPT ![t] = f] /\ req'[t] = f
  BY Types DEF StopFlag, Goto
<1>4. Moves(t, f)
  BY <1>1, <1>2, <1>3 DEF Moves, StopFlag, Idles, poolVars
<1>5. ReqFits(t)'
  BY <1>2, <1>3 DEF ReqFits, Holder, StopFlag
<1> QED BY <1>1, <1>4, <1>5, StepKeeps DEF StopFlag

LEMMA ListIdsKeeps == ASSUME Inv, [Next]_vars, NEW t \in Threads, ListIds(t) PROVE Inv'
<1>1. req[t].pc = "list" /\ call[t].pc = "idle" /\ req[t].op \in {"stop", "exit"}
  BY NotInACall DEF ListIds, At, Inv, RequestsOK, ReqFits
<1>2. Listed \in SUBSET Ids
  BY DEF Listed
<1> QED BY <1>1, <1>2, NextVictimKeeps DEF ListIds

LEMMA SweptKeeps == ASSUME Inv, [Next]_vars, NEW t \in Threads, Swept(t) PROVE Inv'
<1> DEFINE f == [Blank EXCEPT !.pc = IF t \in Requests THEN "idle" ELSE "done"]
<1>1. req[t].pc = "swept" /\ call[t].pc = "idle" /\ running \in BOOLEAN /\ ~running /\ ServerOK
  BY DEF Swept, At, Pool!Idle, Inv, TypeOK, RequestsOK, ReqFits
<1>2. f \in ReqFrame /\ f.pc \in {"idle", "done"} /\ f.id = None /\ f.op = "none"
  BY DEF Blank, ReqFrame, ReqPCs
<1>3. req' = [req EXCEPT ![t] = f] /\ req'[t] = f /\ \A s \in Threads \ {t} : req'[s] = req[s]
  BY Types DEF Swept, Finish, Goto
<1>4. Moves(t, f)
  BY <1>1, <1>2, <1>3 DEF Moves, Swept, Idles, poolVars
<1>5. ReqFits(t)'
  BY <1>2, <1>3 DEF ReqFits, Holder
<1>6. server' \in {"serving", "closing", "closed", "exited"} /\ server' # "serving"
  BY DEF Swept, Inv, TypeOK
<1>7. ServerOK'
  BY <1>1, <1>3, <1>6 DEF ServerOK, Swept, Threads
<1> QED BY <1>4, <1>5, <1>6, <1>7, NextIndices, MovesKeeps

LEMMA CleanupKeeps == ASSUME Inv, [Next]_vars, Cleanup PROVE Inv'
<1> DEFINE f == [Blank EXCEPT !.op = "exit", !.pc = "list"]
<1>1. req[Main].pc = "idle" /\ running \in BOOLEAN /\ ~running /\ Main \in Threads
  BY DEF Cleanup, Inv, TypeOK, RequestsOK, ServerOK, Threads
<1>2. f \in ReqFrame /\ f.pc = "list" /\ f.id = None /\ f.op = "exit"
  BY DEF Blank, ReqFrame, ReqPCs
<1>3. req' = [req EXCEPT ![Main] = f] /\ req'[Main] = f
  BY <1>1, Types DEF Cleanup, Goto
<1>4. Moves(Main, f)
  BY <1>1, <1>2, <1>3, NotInACall DEF Moves, Cleanup, Idles, poolVars
<1>5. ReqFits(Main)'
  BY <1>1, <1>2, <1>3 DEF ReqFits, Holder, Cleanup
<1>6. ServerOK'
  BY <1>1 DEF ServerOK, Cleanup
<1> QED BY <1>1, <1>4, <1>5, <1>6, NextIndices, MovesKeeps DEF Cleanup

-----------------------------------------------------------------------------
(* The end of pool.start                                                   *)

LEMMA PoolStartFailedKeeps ==
  ASSUME Inv, [Next]_vars, NEW t \in Threads, PoolStartFailed(t)
  PROVE  Inv'
<1>1. req[t].pc = "booting" /\ call[t].pc = "idle" /\ Unregistered(t)
  BY DEF PoolStartFailed, At, Pool!Idle, Unregistered, Got
<1>2. instances[req[t].id] = Pool!NoVM
  BY <1>1 DEF Inv, TablesOK, IdsOK, UnregisteredOK
<1> QED BY <1>1, <1>2, FinishKeeps DEF PoolStartFailed, poolVars, Idles

LEMMA PoolStatusKeeps == ASSUME Inv, [Next]_vars, NEW t \in Threads, PoolStatus(t) PROVE Inv'
<1>1. req[t].pc = "booting" /\ Idles(t) /\ call[t].pc = "idle"
      /\ UNCHANGED <<instances, nextIndex, procs, files, sandboxes, used, running, server>>
  BY LookupIdles DEF PoolStatus, At
<1>2. CASE instances[req[t].id] = Pool!NoVM
  BY <1>1, <1>2, FinishKeeps DEF PoolStatus
<1>3. CASE instances[req[t].id] # Pool!NoVM
  <2> DEFINE f == [req[t] EXCEPT !.pc = "insert"]
  <2>1. f \in ReqFrame /\ f.id = req[t].id /\ f.pc = "insert" /\ f.op = req[t].op
        /\ f.name = req[t].name
    BY Types DEF ReqFrame, ReqPCs
  <2>2. req' = [req EXCEPT ![t] = f] /\ req'[t] = f /\ running \in BOOLEAN
    BY <1>3, Types DEF PoolStatus, Goto, Inv, TypeOK
  <2>3. Moves(t, f)
    BY <1>1, <1>3, <2>1, <2>2 DEF Moves
  <2>4. ReqFits(t)'
    BY <1>1, <2>1, <2>2 DEF Inv, RequestsOK, ReqFits, Holder
  <2> QED BY <1>1, <2>3, <2>4, StepKeeps
<1> QED BY <1>2, <1>3

-----------------------------------------------------------------------------
(* Steps that change a table                                               *)

(* What is left to show of a step of t.                                    *)
LEMMA TablesKeep ==
  ASSUME Inv, [Next]_vars, NEW t \in Threads, req'[t] \in ReqFrame,
         req' = [req EXCEPT ![t] = req'[t]], \A s \in Threads \ {t} : call'[s] = call[s],
         UNCHANGED <<running, server>>, used' \subseteq Ids,
         sandboxes' \in [Ids -> AllNames \cup {None}],
         t = Main => req[t].pc # "idle",
         ReqFits(t)', CallFits(t)', TablesOK'
  PROVE  Inv'
<1>1. Facts!IndexInv' /\ Pool!TypeOK'
  BY NextIndices, SamePoolNext DEF Facts!IndexInv
<1>2. \A s \in Threads \ {t} : req'[s] = req[s]
  BY Types
<1>3. TypeOK'
  BY <1>1, Types DEF Inv, TypeOK, ReqFrame
<1>4. ASSUME NEW s \in Threads \ {t} PROVE ReqFits(s)' /\ CallFits(s)'
  BY <1>2, <1>4 DEF Inv, RequestsOK, ReqFits, CallFits, Holder
<1>5. ServerOK'
  <2>1. ServerOK
    BY DEF Inv, RequestsOK
  <2>2. CASE t = Main
    BY <2>1, <2>2 DEF ServerOK
  <2>3. CASE t # Main
    <3>1. req'[Main] = req[Main]
      BY <1>2, <2>3 DEF Threads
    <3> QED BY <2>1, <3>1 DEF ServerOK
  <2> QED BY <2>2, <2>3
<1> QED BY <1>1, <1>3, <1>4, <1>5 DEF Inv, RequestsOK

(* The id is held by t alone.                                              *)
LEMMA NewIdKeeps ==
  ASSUME Inv, [Next]_vars, NEW t \in Threads, NEW op \in {"create", "reset"}, NEW id \in FreshIds,
         NEW n \in AllNames, CheckName(t, op, id, n), ~NameInUse(n),
         req[t].pc \in {"idle", "recreate"}, t = Main => req[t].pc # "idle"
  PROVE  Inv'
<1> DEFINE f == [Blank EXCEPT !.op = op, !.pc = "reserve", !.id = id, !.name = n]
<1>1. id \in Ids /\ id \notin used /\ call[t].pc = "idle"
  BY NotInACall DEF FreshIds
<1>2. f \in ReqFrame /\ f.pc = "reserve" /\ f.id = id /\ f.op \in {"create", "reset"} /\ f.name \in AllNames
  BY <1>1 DEF Blank, ReqFrame, ReqPCs
<1>3. req' = [req EXCEPT ![t] = f] /\ req'[t] = f /\ used' = used \cup {id}
      /\ UNCHANGED <<instances, nextIndex, procs, files, call, sandboxes, running, server>>
  BY Types DEF CheckName, Goto, poolVars
<1>4. \A s \in Threads \ {t} : req'[s] = req[s]
  BY <1>3, Types
<1>5. /\ sandboxes[id] = None /\ instances[id] = Pool!NoVM
      /\ \A s \in Threads : req[s].id # id
      /\ \A s \in Threads : call[s].pc = "kill" => call[s].name # id
  BY <1>1 DEF Inv, TablesOK, IdsOK, FreshOK, RemovedOK
<1>6. FreshOK'
  BY <1>2, <1>3, <1>4 DEF Inv, TablesOK, IdsOK, FreshOK
<1>7. HoldersOK'
  <2> SUFFICES ASSUME NEW s \in Threads, req'[s].pc \in {"reserve", "booting", "insert"}
               PROVE  /\ sandboxes[req'[s].id] = None
                      /\ \A u \in Threads \ {s} : req'[u].id # req'[s].id
    BY <1>3 DEF HoldersOK, Holder
  <2>1. CASE s = t
    BY <1>2, <1>3, <1>4, <1>5, <2>1
  <2>2. CASE s # t
    <3>1. sandboxes[req[s].id] = None /\ \A u \in Threads \ {s} : req[u].id # req[s].id
      BY <1>4, <2>2 DEF Inv, TablesOK, IdsOK, HoldersOK, Holder
    <3> QED BY <1>2, <1>3, <1>4, <1>5, <2>2, <3>1
  <2> QED BY <2>1, <2>2
<1>8. UnregisteredOK'
  BY <1>2, <1>3, <1>4, <1>5 DEF Inv, TablesOK, IdsOK, UnregisteredOK, Unregistered, Got
<1>9. RemovedOK'
  BY <1>2, <1>3, <1>4 DEF Inv, TablesOK, IdsOK, RemovedOK
<1>10. Backed' /\ Reachable' /\ FilesOK'
  BY <1>2, <1>3, <1>4 DEF Inv, TablesOK, Backed, SandboxBacked, Listed, Reachable, FilesOK, OwnFiles,
     Pool!OwnFiles, Pool!Registered
<1>11. VMAccounted'
  BY <1>3, <1>4 DEF Inv, TablesOK, VMAccounted, Listed
<1>12. TablesOK'
  BY <1>6, <1>7, <1>8, <1>9, <1>10, <1>11 DEF TablesOK, IdsOK
<1>13. ReqFits(t)' /\ CallFits(t)'
  BY <1>1, <1>2, <1>3 DEF ReqFits, CallFits, Holder
<1> QED BY <1>1, <1>2, <1>3, <1>12, <1>13, TablesKeep, Types

LEMMA CheckNameKeeps ==
  ASSUME Inv, [Next]_vars, NEW t \in Threads, NEW op \in {"create", "reset"}, NEW id \in FreshIds,
         NEW n \in AllNames, CheckName(t, op, id, n),
         req[t].pc \in {"idle", "recreate"}, t = Main => req[t].pc # "idle"
  PROVE  Inv'
<1>1. CASE NameInUse(n)
  BY <1>1, NotInACall, FinishKeeps DEF CheckName, Idles, poolVars
<1> QED BY <1>1, NewIdKeeps

LEMMA CreateKeeps == ASSUME Inv, [Next]_vars, NEW t \in Threads, Create(t) PROVE Inv'
<1>1. t # Main /\ req[t].pc = "idle"
  BY EngineAssumption DEF Create, Accepts, EngineAssumption
<1>2. PICK id \in FreshIds : \E n \in UserNames \cup {id} : CheckName(t, "create", id, n)
  BY DEF Create
<1>3. PICK n \in UserNames \cup {id} : CheckName(t, "create", id, n)
  BY <1>2
<1>4. n \in AllNames
  BY DEF FreshIds, AllNames
<1> QED BY <1>1, <1>3, <1>4, CheckNameKeeps

LEMMA RecreateKeeps == ASSUME Inv, [Next]_vars, NEW t \in Threads, Recreate(t) PROVE Inv'
<1>1. req[t].pc = "recreate" /\ req[t].name \in AllNames
  BY DEF Recreate, At, Inv, RequestsOK, ReqFits
<1>2. PICK id \in FreshIds : CheckName(t, "reset", id, req[t].name)
  BY DEF Recreate
<1> QED BY <1>1, <1>2, CheckNameKeeps

LEMMA InsertKeeps == ASSUME Inv, [Next]_vars, NEW t \in Threads, Insert(t) PROVE Inv'
<1> DEFINE f == [Blank EXCEPT !.pc = IF t \in Requests THEN "idle" ELSE "done"]
           id == req[t].id
<1>1. req[t].pc = "insert" /\ call[t].pc = "idle" /\ id \in Ids /\ req[t].name \in AllNames
  BY NotInACall DEF Insert, At, Inv, RequestsOK, ReqFits, Holder
<1>2. f \in ReqFrame /\ f.pc \in {"idle", "done"} /\ f.id = None /\ f.op = "none"
  BY DEF Blank, ReqFrame, ReqPCs
<1>3. /\ req' = [req EXCEPT ![t] = f] /\ req'[t] = f /\ \A s \in Threads \ {t} : req'[s] = req[s]
      /\ UNCHANGED <<instances, nextIndex, procs, files, call, used, running, server>>
  BY Types DEF Insert, Finish, Goto, poolVars
<1>4. /\ sandboxes' \in [Ids -> AllNames \cup {None}]
      /\ sandboxes'[id] = req[t].name /\ \A x \in Ids \ {id} : sandboxes'[x] = sandboxes[x]
      /\ sandboxes'[id] # None
  BY <1>1, Types, NoneFresh DEF Insert
<1>5. /\ \A s \in Threads \ {t} : req[s].id # id
      /\ running => instances[id] # Pool!NoVM
      /\ id \in used
  BY <1>1 DEF Inv, TablesOK, IdsOK, HoldersOK, FreshOK, Backed, Holder
<1>6. FreshOK'
  BY <1>2, <1>3, <1>4, <1>5, NoneFresh DEF Inv, TablesOK, IdsOK, FreshOK
<1>7. HoldersOK'
  <2> SUFFICES ASSUME NEW s \in Threads, req'[s].pc \in {"reserve", "booting", "insert"}
               PROVE  /\ sandboxes'[req'[s].id] = None
                      /\ \A u \in Threads \ {s} : req'[u].id # req'[s].id
    BY DEF HoldersOK, Holder
  <2>1. s # t /\ req[s].id \in Ids /\ req'[s] = req[s]
    BY <1>2, <1>3 DEF Inv, RequestsOK, ReqFits
  <2>2. sandboxes[req[s].id] = None /\ \A u \in Threads \ {s} : req[u].id # req[s].id
    BY <2>1 DEF Inv, TablesOK, IdsOK, HoldersOK, Holder
  <2> QED BY <1>2, <1>3, <1>4, <1>5, <2>1, <2>2, NoneFresh
<1>8. UnregisteredOK'
  BY <1>2, <1>3 DEF Inv, TablesOK, IdsOK, UnregisteredOK, Unregistered, Got
<1>9. RemovedOK'
  <2>1. \A s \in Threads : req'[s].pc \in {"stop", "stopped"} => s # t /\ req[s].id \in Ids
    BY <1>2, <1>3 DEF Inv, RequestsOK, ReqFits
  <2> QED BY <1>3, <1>4, <1>5, <2>1 DEF Inv, TablesOK, IdsOK, RemovedOK
<1>10. Backed'
  BY <1>1, <1>2, <1>3, <1>4, <1>5 DEF Inv, TablesOK, Backed, SandboxBacked, Listed
<1>11. VMAccounted'
  <2> SUFFICES ASSUME NEW x \in Ids, instances[x] # Pool!NoVM
               PROVE  \/ sandboxes'[x] # None
                      \/ \E s \in Threads : req'[s].id = x /\ req'[s].pc \in {"booting", "insert", "stop"}
    BY <1>3 DEF VMAccounted, Listed
  <2>1. CASE x = id
    BY <1>4, <2>1
  <2>2. CASE x # id
    BY <1>3, <1>4, <2>2 DEF Inv, TablesOK, VMAccounted, Listed
  <2> QED BY <2>1, <2>2
<1>12. Reachable' /\ FilesOK'
  BY <1>3 DEF Inv, TablesOK, Reachable, FilesOK, OwnFiles, Pool!OwnFiles, Pool!Registered
<1>13. TablesOK'
  BY <1>6, <1>7, <1>8, <1>9, <1>10, <1>11, <1>12 DEF TablesOK, IdsOK
<1>14. ReqFits(t)' /\ CallFits(t)'
  BY <1>1, <1>2, <1>3 DEF ReqFits, CallFits, Holder
<1> QED BY <1>1, <1>2, <1>3, <1>4, <1>13, <1>14, TablesKeep, Types

LEMMA PopEntryKeeps == ASSUME Inv, [Next]_vars, NEW t \in Threads, PopEntry(t) PROVE Inv'
<1> DEFINE f == [req[t] EXCEPT !.pc = "stop"]
           id == req[t].id
<1>1. req[t].pc = "pop" /\ call[t].pc = "idle" /\ id \in Ids
  BY NotInACall DEF PopEntry, At, Inv, RequestsOK, ReqFits
<1>2. f \in ReqFrame /\ f.pc = "stop" /\ f.id = id /\ f.op = req[t].op /\ f.name = req[t].name
  BY Types DEF ReqFrame, ReqPCs
<1>3. /\ req' = [req EXCEPT ![t] = f] /\ req'[t] = f /\ \A s \in Threads \ {t} : req'[s] = req[s]
      /\ UNCHANGED <<instances, nextIndex, procs, files, call, used, running, server>>
  BY Types DEF PopEntry, Goto, poolVars
<1>4. /\ sandboxes' \in [Ids -> AllNames \cup {None}]
      /\ sandboxes'[id] = None /\ \A x \in Ids \ {id} : sandboxes'[x] = sandboxes[x]
  BY <1>1, Types DEF PopEntry
<1>5. \A s \in Threads : req'[s].id = req[s].id
                         /\ (s # t => req'[s].pc = req[s].pc)
  BY <1>2, <1>3
<1>6. IdsOK'
  <2>1. FreshOK'
    BY <1>1, <1>3, <1>4, <1>5 DEF Inv, TablesOK, IdsOK, FreshOK
  <2>2. HoldersOK'
    <3>1. \A s \in Threads : Holder(s)' => Holder(s) /\ req[s].id \in Ids
      BY <1>2, <1>3 DEF Holder, Inv, RequestsOK, ReqFits
    <3> QED BY <1>4, <1>5, <3>1 DEF Inv, TablesOK, IdsOK, HoldersOK
  <2>3. UnregisteredOK'
    BY <1>2, <1>3 DEF Inv, TablesOK, IdsOK, UnregisteredOK, Unregistered, Got
  <2>4. RemovedOK'
    <3>1. \A s \in Threads : req[s].pc \in {"stop", "stopped"} => req[s].id \in Ids
      BY DEF Inv, RequestsOK, ReqFits
    <3> QED BY <1>2, <1>3, <1>4, <3>1 DEF Inv, TablesOK, IdsOK, RemovedOK
  <2> QED BY <2>1, <2>2, <2>3, <2>4 DEF IdsOK
<1>7. Backed'
  BY <1>2, <1>3, <1>4 DEF Inv, TablesOK, Backed, SandboxBacked, Listed
<1>8. VMAccounted'
  <2> SUFFICES ASSUME NEW x \in Ids, instances[x] # Pool!NoVM
               PROVE  \/ sandboxes'[x] # None
                      \/ \E s \in Threads : req'[s].id = x /\ req'[s].pc \in {"booting", "insert", "stop"}
    BY <1>3 DEF VMAccounted, Listed
  <2>1. CASE x = id
    BY <1>2, <1>3, <2>1
  <2>2. CASE x # id
    <3>1. \/ sandboxes[x] # None
          \/ \E s \in Threads : req[s].id = x /\ req[s].pc \in {"booting", "insert", "stop"}
      BY DEF Inv, TablesOK, VMAccounted, Listed
    <3> QED BY <1>3, <1>4, <2>2, <3>1
  <2> QED BY <2>1, <2>2
<1>9. Reachable' /\ FilesOK'
  BY <1>3 DEF Inv, TablesOK, Reachable, FilesOK, OwnFiles, Pool!OwnFiles, Pool!Registered
<1>10. TablesOK'
  BY <1>6, <1>7, <1>8, <1>9 DEF TablesOK
<1>11. ReqFits(t)' /\ CallFits(t)'
  BY <1>1, <1>2, <1>3 DEF Inv, RequestsOK, ReqFits, CallFits, Holder
<1> QED BY <1>1, <1>2, <1>3, <1>4, <1>10, <1>11, TablesKeep, Types

-----------------------------------------------------------------------------
(* Steps of the pool                                                       *)

LEMMA CallChanges ==
  ASSUME Inv, NEW t \in Threads
  PROVE  /\ \A r : Pool!Return(t, r) =>
              /\ call'[t] = Pool!Done(r) /\ call'[t].pc = "idle" /\ call'[t].result = r
              /\ \A s \in Threads \ {t} : call'[s] = call[s]
         /\ \A pc, n, i, todo : Pool!Enter(t, pc, n, i, todo) =>
              /\ call'[t].pc = pc /\ call'[t].name = n /\ call'[t].vm = i /\ call'[t].todo = todo
              /\ \A s \in Threads \ {t} : call'[s] = call[s]
         /\ \A rest : Pool!KeepSweeping(t, rest) =>
              /\ call'[t].pc \in {"idle", "sweep"}
              /\ rest = {} => call'[t].pc = "idle"
              /\ \A s \in Threads \ {t} : call'[s] = call[s]
<1>1. \A r : Pool!Return(t, r) =>
        /\ call'[t] = Pool!Done(r) /\ call'[t].pc = "idle" /\ call'[t].result = r
        /\ \A s \in Threads \ {t} : call'[s] = call[s]
  BY Types DEF Pool!Return, Pool!Done
<1>2. \A pc, n, i, todo : Pool!Enter(t, pc, n, i, todo) =>
        /\ call'[t].pc = pc /\ call'[t].name = n /\ call'[t].vm = i /\ call'[t].todo = todo
        /\ \A s \in Threads \ {t} : call'[s] = call[s]
  BY Types DEF Pool!Enter
<1>3. \A rest : Pool!KeepSweeping(t, rest) =>
        \/ Pool!Return(t, "ok")
        \/ rest # {} /\ Pool!Enter(t, "sweep", Pool!NoName, Pool!NoVM, rest)
  BY DEF Pool!KeepSweeping
<1> QED BY <1>1, <1>2, <1>3

(* A pool step after which t neither holds a manager nor has got a VM      *)
(* that it does not already have.                                          *)
LEMMA LeavesTables ==
  ASSUME Inv, NEW t \in Threads, call'[t].pc \in {"idle", "sweep"}, call[t].pc \in {"idle", "sweep"},
         \A s \in Threads \ {t} : call'[s] = call[s],
         UNCHANGED <<instances, nextIndex, procs, files, sandboxes, used, running>>,
         \A s \in Threads \ {t} : req'[s] = req[s], req'[t].id = req[t].id,
         \/ req[t].pc = "reserve" /\ req'[t].pc = "booting"
         \/ /\ req[t].pc \in {"sweep", "swept"} /\ req'[t].pc = "swept"
  PROVE  TablesOK'
<1>1. \A s \in Threads : /\ req'[s].id = req[s].id
                         /\ Holder(s)' <=> Holder(s)
                         /\ Unregistered(s)' => Unregistered(s)
                         /\ req'[s].pc \in {"stop", "stopped", "insert"}
                              <=> req[s].pc \in {"stop", "stopped", "insert"}
                         /\ s # t => req'[s].pc = req[s].pc
                         /\ call'[s].pc = "kill" => s # t
                         /\ call[s].pc \in {"boot", "register", "kill"} => s # t
                         /\ call'[s].pc \in {"boot", "register", "kill"} => s # t
  BY DEF Holder, Unregistered, Got
<1>2. FreshOK' /\ HoldersOK'
  BY <1>1 DEF Inv, TablesOK, IdsOK, FreshOK, HoldersOK
<1>3. UnregisteredOK' /\ RemovedOK'
  BY <1>1 DEF Inv, TablesOK, IdsOK, UnregisteredOK, RemovedOK
<1>4. Backed'
  BY <1>1 DEF Inv, TablesOK, Backed, SandboxBacked, Listed
<1>5. VMAccounted'
  <2> SUFFICES ASSUME NEW x \in Ids, instances[x] # Pool!NoVM
               PROVE  \/ sandboxes[x] # None
                      \/ \E s \in Threads : req'[s].id = x /\ req'[s].pc \in {"booting", "insert", "stop"}
    BY DEF VMAccounted, Listed
  <2>1. \/ sandboxes[x] # None
        \/ \E s \in Threads : req[s].id = x /\ req[s].pc \in {"booting", "insert", "stop"}
    BY DEF Inv, TablesOK, VMAccounted, Listed
  <2> QED BY <1>1, <2>1
<1>6. Reachable' /\ FilesOK'
  BY <1>1 DEF Inv, TablesOK, Reachable, FilesOK, OwnFiles, Pool!OwnFiles, Pool!Registered
<1> QED BY <1>2, <1>3, <1>4, <1>5, <1>6 DEF TablesOK, IdsOK

(* The entry of n is popped, with or without a VM.                         *)
LEMMA PopKeepsTables ==
  ASSUME Inv, NEW t \in Threads, NEW n \in Ids, NEW rest \in SUBSET Ids, Pool!Pop(t, n, rest),
         call[t].pc \in {"idle", "sweep"}, ~Unregistered(t), ~Unregistered(t)',
         UNCHANGED <<sandboxes, used, running>>,
         \A s \in Threads \ {t} : req'[s] = req[s], req'[t].id = req[t].id,
         \/ req[t].pc = "stop" /\ req[t].id = n /\ req'[t].pc = "stopped"
         \/ req' = req /\ ~running /\ req[t].pc = "swept"
  PROVE  TablesOK'
<1>1. /\ nextIndex' = nextIndex /\ procs' = procs /\ files' = files
      /\ \A s \in Threads \ {t} : call'[s] = call[s]
      /\ \/ /\ instances[n] # Pool!NoVM
            /\ call'[t].pc = "kill" /\ call'[t].name = n /\ call'[t].vm = instances[n]
         \/ instances[n] = Pool!NoVM /\ call'[t].pc \in {"idle", "sweep"}
  BY CallChanges DEF Pool!Pop
<1>2. instances'[n] = Pool!NoVM /\ \A x \in Ids \ {n} : instances'[x] = instances[x]
  BY Types DEF Pool!Pop
<1>3. \A s \in Threads : /\ req'[s].id = req[s].id
                         /\ Holder(s)' <=> Holder(s)
                         /\ Unregistered(s)' <=> Unregistered(s)
                         /\ req'[s].pc \in {"stop", "stopped"} => req[s].pc \in {"stop", "stopped"}
                         /\ req'[s].pc = "insert" <=> req[s].pc = "insert"
                         /\ s # t => req'[s].pc = req[s].pc
  BY <1>1 DEF Holder, Unregistered, Got
<1>4. FreshOK' /\ HoldersOK'
  BY <1>2, <1>3 DEF Inv, TablesOK, IdsOK, FreshOK, HoldersOK
<1>5. UnregisteredOK'
  <2> SUFFICES ASSUME NEW s \in Threads, Unregistered(s)
               PROVE  /\ instances'[req[s].id] = Pool!NoVM
                      /\ \A u \in Threads : call'[u].pc = "kill" => call'[u].name # req[s].id
    BY <1>3 DEF UnregisteredOK
  <2>1. /\ instances[req[s].id] = Pool!NoVM /\ req[s].id \in Ids
        /\ \A u \in Threads : call[u].pc = "kill" => call[u].name # req[s].id
    BY DEF Inv, TablesOK, IdsOK, UnregisteredOK, Unregistered, RequestsOK, ReqFits
  <2> QED BY <1>1, <1>2, <2>1
<1>6. RemovedOK'
  <2>1. n \in used \/ instances[n] = Pool!NoVM
    BY DEF Inv, TablesOK, IdsOK, FreshOK
  <2>2. \A s \in Threads : call[s].pc = "kill" => call[s].name \in Ids
    BY Types
  <2> QED BY <1>1, <1>2, <1>3, <2>1, <2>2 DEF Inv, TablesOK, IdsOK, RemovedOK
<1>7. Backed'
  <2>1. CASE ~running
    BY <2>1 DEF Backed, SandboxBacked
  <2>2. CASE req[t].pc = "stop" /\ req[t].id = n
    <3>1. sandboxes[n] = None /\ \A s \in Threads : req[s].pc = "insert" => req[s].id # n /\ req[s].id \in Ids
      BY <2>2 DEF Inv, TablesOK, IdsOK, RemovedOK, HoldersOK, Holder, RequestsOK, ReqFits
    <3> QED BY <1>2, <1>3, <3>1 DEF Inv, TablesOK, Backed, SandboxBacked, Listed
  <2> QED BY <2>1, <2>2
<1>8. VMAccounted'
  <2> SUFFICES ASSUME NEW x \in Ids, instances'[x] # Pool!NoVM
               PROVE  \/ sandboxes[x] # None
                      \/ \E s \in Threads : req'[s].id = x /\ req'[s].pc \in {"booting", "insert", "stop"}
    BY DEF VMAccounted, Listed
  <2>1. x # n /\ instances[x] # Pool!NoVM
    BY <1>2
  <2>2. \/ sandboxes[x] # None
        \/ \E s \in Threads : req[s].id = x /\ req[s].pc \in {"booting", "insert", "stop"}
    BY <2>1 DEF Inv, TablesOK, VMAccounted, Listed
  <2> QED BY <1>3, <2>1, <2>2
<1>9. Reachable'
  <2> SUFFICES ASSUME NEW i \in procs
               PROVE  \/ \E id \in Ids : instances'[id] = i
                      \/ \E s \in Threads : /\ call'[s].pc \in {"boot", "register", "kill"}
                                            /\ call'[s].vm = i
    BY <1>1 DEF Reachable
  <2>0. i # Pool!NoVM
    BY Types DEF Pool!NoVM
  <2>1. CASE \E s \in Threads : call[s].pc \in {"boot", "register", "kill"} /\ call[s].vm = i
    BY <1>1, <2>1
  <2>2. CASE \E id \in Ids : instances[id] = i
    BY <1>1, <1>2, <2>0, <2>2
  <2> QED BY <2>1, <2>2 DEF Inv, TablesOK, Reachable
<1>10. FilesOK'
  <2>1. OwnFiles'
    BY <1>1, <1>2 DEF Inv, TablesOK, FilesOK, OwnFiles, Pool!OwnFiles, Pool!Registered
  <2> QED BY <1>1, <2>1 DEF Inv, TablesOK, FilesOK
<1> QED BY <1>4, <1>5, <1>6, <1>7, <1>8, <1>9, <1>10 DEF TablesOK, IdsOK

LEMMA PoolStopKeeps == ASSUME Inv, [Next]_vars, NEW t \in Threads, PoolStop(t) PROVE Inv'
<1> DEFINE f == [req[t] EXCEPT !.pc = "stopped"]
           id == req[t].id
<1>1. req[t].pc = "stop" /\ call[t].pc = "idle" /\ id \in Ids
  BY NotInACall DEF PoolStop, At, Inv, RequestsOK, ReqFits
<1>2. f \in ReqFrame /\ f.pc = "stopped" /\ f.id = id /\ f.op = req[t].op /\ f.name = req[t].name
  BY Types DEF ReqFrame, ReqPCs
<1>3. /\ req' = [req EXCEPT ![t] = f] /\ req'[t] = f /\ \A s \in Threads \ {t} : req'[s] = req[s]
      /\ UNCHANGED <<sandboxes, used, running, server>> /\ Pool!Pop(t, id, {})
  BY Types DEF PoolStop, Goto, Pool!Stop
<1>4. ~Unregistered(t) /\ ~Unregistered(t)'
  BY <1>1, <1>2, <1>3 DEF Unregistered
<1>5. TablesOK'
  <2>1. req'[t].id = id /\ req'[t].pc = "stopped" /\ {} \in SUBSET Ids
    BY <1>2, <1>3
  <2> HIDE DEF f, id
  <2>2. id = req[t].id
    BY DEF id
  <2> QED BY <1>1, <1>3, <1>4, <2>1, <2>2, PopKeepsTables
<1>6. /\ \A s \in Threads \ {t} : call'[s] = call[s]
      /\ call'[t].pc = "idle" \/ (call'[t].pc = "kill" /\ call'[t].todo = {})
  BY <1>3, CallChanges DEF Pool!Pop
<1>7. ReqFits(t)'
  <2>1. ReqFits(t) /\ running' = running
    BY <1>3 DEF Inv, RequestsOK
  <2> QED BY <1>1, <1>2, <1>3, <2>1 DEF ReqFits, Holder
<1>8. CallFits(t)'
  BY <1>2, <1>3, <1>6 DEF CallFits
<1> QED BY <1>1, <1>2, <1>3, <1>5, <1>6, <1>7, <1>8, TablesKeep, Types

LEMMA SweepKeeps == ASSUME Inv, [Next]_vars, NEW t \in Threads, Pool!Sweep(t), UNCHANGED engineVars PROVE Inv'
<1>1. /\ call[t].pc = "sweep" /\ req[t].pc = "swept" /\ ~running /\ req[t].op \in {"stop", "exit"}
      /\ UNCHANGED <<sandboxes, used, running, server, req>>
  BY DEF Pool!Sweep, Inv, RequestsOK, CallFits, ReqFits, engineVars
<1>2. PICK n \in call[t].todo : Pool!Pop(t, n, call[t].todo \ {n})
  BY DEF Pool!Sweep
<1>3. n \in Ids /\ call[t].todo \ {n} \in SUBSET Ids
  BY Types DEF Pool!Frame
<1>4. ~Unregistered(t) /\ ~Unregistered(t)'
  BY <1>1 DEF Unregistered
<1>5. TablesOK'
  <2>1. call[t].pc \in {"idle", "sweep"} /\ req' = req /\ req'[t].id = req[t].id
        /\ \A s \in Threads \ {t} : req'[s] = req[s]
    BY <1>1
  <2>2. req' = req /\ ~running /\ req[t].pc = "swept"
    BY <1>1
  <2>3. UNCHANGED <<sandboxes, used, running>>
    BY <1>1
  <2> QED BY <1>2, <1>3, <1>4, <2>1, <2>2, <2>3, PopKeepsTables
<1>6. /\ \A s \in Threads \ {t} : call'[s] = call[s]
      /\ call'[t].pc \in {"idle", "kill", "sweep"}
  BY <1>2, CallChanges DEF Pool!Pop
<1>7. ReqFits(t)'
  BY <1>1 DEF ReqFits, Holder
<1>8. CallFits(t)'
  BY <1>1, <1>6 DEF CallFits
<1> QED BY <1>1, <1>5, <1>6, <1>7, <1>8, TablesKeep, Types

LEMMA PoolStopAllKeeps == ASSUME Inv, [Next]_vars, NEW t \in Threads, PoolStopAll(t) PROVE Inv'
<1> DEFINE f == [req[t] EXCEPT !.pc = "swept"]
<1>1. /\ req[t].pc = "sweep" /\ call[t].pc = "idle"
      /\ req[t].op \in {"stop", "exit"} /\ running \in BOOLEAN /\ ~running
  BY NotInACall DEF PoolStopAll, At, Inv, TypeOK, RequestsOK, ReqFits
<1>2. f \in ReqFrame /\ f.pc = "swept" /\ f.id = req[t].id /\ f.op = req[t].op
  BY Types DEF ReqFrame, ReqPCs
<1>3. /\ req' = [req EXCEPT ![t] = f] /\ req'[t] = f /\ \A s \in Threads \ {t} : req'[s] = req[s]
      /\ UNCHANGED <<instances, nextIndex, procs, files, sandboxes, used, running, server>>
  BY Types DEF PoolStopAll, Goto, Pool!StopAll
<1>4. call'[t].pc \in {"idle", "sweep"} /\ \A s \in Threads \ {t} : call'[s] = call[s]
  BY CallChanges DEF PoolStopAll, Pool!StopAll
<1>5. TablesOK'
  BY <1>1, <1>2, <1>3, <1>4, LeavesTables
<1>6. ReqFits(t)' /\ CallFits(t)'
  BY <1>1, <1>2, <1>3, <1>4 DEF ReqFits, CallFits, Holder
<1> QED BY <1>1, <1>2, <1>3, <1>4, <1>5, <1>6, TablesKeep, Types

LEMMA ReserveTables ==
  ASSUME Inv, NEW t \in Threads, Pool!Enter(t, "boot", req[t].id, nextIndex, {}),
         call[t].pc = "idle", req[t].pc = "reserve", req'[t].pc = "booting", req'[t].id = req[t].id,
         nextIndex' = nextIndex + 1, \A s \in Threads \ {t} : req'[s] = req[s],
         UNCHANGED <<instances, procs, files, sandboxes, used, running>>
  PROVE  TablesOK'
<1>1. /\ call'[t].pc = "boot" /\ call'[t].vm = nextIndex
      /\ \A s \in Threads \ {t} : call'[s] = call[s]
  BY CallChanges
<1>2. \A s \in Threads : /\ req'[s].id = req[s].id
                         /\ Holder(s)' <=> Holder(s)
                         /\ Unregistered(s)' <=> Unregistered(s)
                         /\ req'[s].pc \in {"stop", "stopped"} => req[s].pc \in {"stop", "stopped"}
                         /\ req'[s].pc = "insert" <=> req[s].pc = "insert"
                         /\ s # t => req'[s].pc = req[s].pc
                         /\ call'[s].pc \in {"register", "kill"} => s # t
                         /\ call[s].pc \in {"boot", "register", "kill"} => s # t
  BY <1>1 DEF Holder, Unregistered, Got
<1>3. FreshOK' /\ HoldersOK'
  BY <1>2 DEF Inv, TablesOK, IdsOK, FreshOK, HoldersOK
<1>4. UnregisteredOK' /\ RemovedOK'
  BY <1>1, <1>2 DEF Inv, TablesOK, IdsOK, UnregisteredOK, RemovedOK
<1>5. Backed'
  BY <1>2 DEF Inv, TablesOK, Backed, SandboxBacked, Listed
<1>6. VMAccounted'
  BY <1>2 DEF Inv, TablesOK, VMAccounted, Listed
<1>7. Reachable'
  BY <1>1, <1>2 DEF Inv, TablesOK, Reachable
<1>8. FilesOK'
  <2>1. nextIndex \notin procs /\ nextIndex \in Nat
    BY Types DEF Inv, TablesOK, FilesOK
  <2>2. \A i \in procs : i < nextIndex'
    BY <2>1, Types DEF Inv, TablesOK, FilesOK
  <2>3. OwnFiles'
    BY DEF Inv, TablesOK, FilesOK, OwnFiles, Pool!OwnFiles, Pool!Registered
  <2>4. \A s \in Threads : /\ call'[s].pc = "boot" => call'[s].vm \notin procs
                           /\ call'[s].pc = "register" /\ call'[s].vm \in procs
                                => files[call'[s].name] = call'[s].vm
    BY <1>1, <2>1 DEF Inv, TablesOK, FilesOK
  <2> QED BY <2>2, <2>3, <2>4 DEF FilesOK
<1> QED BY <1>3, <1>4, <1>5, <1>6, <1>7, <1>8 DEF TablesOK, IdsOK

LEMMA PoolStartKeeps == ASSUME Inv, [Next]_vars, NEW t \in Threads, PoolStart(t) PROVE Inv'
<1> DEFINE f == [req[t] EXCEPT !.pc = "booting"]
<1>1. /\ req[t].pc = "reserve" /\ call[t].pc = "idle" /\ req[t].id \in Ids
      /\ req[t].name \in AllNames /\ (req[t].op \in {"stop", "exit"} => ~running)
  BY NotInACall DEF PoolStart, At, Inv, RequestsOK, ReqFits, Holder
<1>2. f \in ReqFrame /\ f.pc = "booting" /\ f.id = req[t].id /\ f.op = req[t].op /\ f.name = req[t].name
  BY Types DEF ReqFrame, ReqPCs
<1>3. /\ req' = [req EXCEPT ![t] = f] /\ req'[t] = f /\ \A s \in Threads \ {t} : req'[s] = req[s]
      /\ UNCHANGED <<instances, procs, files, sandboxes, used, running, server>>
  BY Types DEF PoolStart, Goto, Pool!StartReserve
<1>4. \/ Pool!Return(t, "value_error") /\ nextIndex' = nextIndex
      \/ Pool!Enter(t, "boot", req[t].id, nextIndex, {}) /\ nextIndex' = nextIndex + 1
  BY DEF PoolStart, Pool!StartReserve, Pool!NextIndex
<1>5. TablesOK'
  <2>1. CASE Pool!Return(t, "value_error") /\ nextIndex' = nextIndex
    <3>1. call'[t].pc = "idle" /\ \A s \in Threads \ {t} : call'[s] = call[s]
      BY <2>1, CallChanges
    <3>2. req'[t].id = req[t].id /\ req'[t].pc = "booting"
      BY <1>2, <1>3
    <3> HIDE DEF f
    <3> QED BY <1>1, <1>3, <2>1, <3>1, <3>2, LeavesTables
  <2>2. CASE Pool!Enter(t, "boot", req[t].id, nextIndex, {}) /\ nextIndex' = nextIndex + 1
    BY <1>1, <1>2, <1>3, <2>2, ReserveTables
  <2> QED BY <1>4, <2>1, <2>2
<1>6. /\ \A s \in Threads \ {t} : call'[s] = call[s]
      /\ call'[t].pc = "idle" \/ (call'[t].pc = "boot" /\ call'[t].name = req[t].id)
  BY <1>4, CallChanges
<1>7. ReqFits(t)'
  BY <1>1, <1>2, <1>3 DEF ReqFits, Holder
<1>8. CallFits(t)'
  BY <1>2, <1>3, <1>6 DEF CallFits
<1> QED BY <1>1, <1>2, <1>3, <1>5, <1>6, <1>7, <1>8, TablesKeep, Types

-----------------------------------------------------------------------------
(* Steps of the VM manager, in a pool call that is in progress             *)

(* The VM a request is starting is not in the registry, and no other VM,   *)
(* running or to be started, has its index or its paths.                   *)
LEMMA StartsAlone ==
  ASSUME Inv, NEW t \in Threads, call[t].pc \in {"boot", "register"}
  PROVE  /\ req[t].pc = "booting" /\ req[t].id = call[t].name /\ call[t].name \in Ids
         /\ call[t].vm \in Nat /\ call[t].vm < nextIndex
         /\ instances[call[t].name] = Pool!NoVM /\ call[t].name \in used
         /\ \A s \in Threads : call[s].pc = "kill" => call[s].name # call[t].name
         /\ \A s \in Threads \ {t} : req[s].id # call[t].name
         /\ \A s \in Threads \ {t} : call[s].pc \in {"boot", "register"}
              => call[s].vm # call[t].vm /\ call[s].name # call[t].name
         /\ \A x \in Ids : instances[x] # Pool!NoVM => instances[x] # call[t].vm
<1>1. \A s \in Threads : call[s].pc \in {"boot", "register"}
        => req[s].pc = "booting" /\ call[s].name = req[s].id
  BY DEF Inv, RequestsOK, CallFits
<1>2. Unregistered(t) /\ Holder(t)
  BY <1>1 DEF Unregistered, Holder, Got
<1>3. /\ instances[call[t].name] = Pool!NoVM /\ call[t].name \in used
      /\ \A s \in Threads : call[s].pc = "kill" => call[s].name # call[t].name
      /\ \A s \in Threads \ {t} : req[s].id # call[t].name
  BY <1>1, <1>2, Types DEF Inv, TablesOK, IdsOK, FreshOK, HoldersOK, UnregisteredOK
<1>4. /\ call[t].vm < nextIndex
      /\ \A s \in Threads \ {t} : call[s].pc \in {"boot", "register"} => call[s].vm # call[t].vm
      /\ \A x \in Ids : instances[x] # Facts!NoVM => instances[x] # call[t].vm
  BY DEF Inv, Facts!IndexInv, Facts!IndexUnique, Facts!BelowCounter, Facts!Starting, Facts!Registered
<1> QED BY <1>1, <1>3, <1>4, SameNames, Types

LEMMA BootKeeps == ASSUME Inv, [Next]_vars, NEW t \in Threads, Pool!StartBoot(t), UNCHANGED engineVars PROVE Inv'
<1> DEFINE id == call[t].name
           i  == call[t].vm
<1>1. call[t].pc = "boot" /\ i \notin procs /\ id \in Ids /\ i \in Nat
  BY Types DEF Pool!StartBoot, Inv, TablesOK, FilesOK
<1>2. /\ call' = [call EXCEPT ![t].pc = "register"]
      /\ call'[t].pc = "register" /\ call'[t].name = id /\ call'[t].vm = i
      /\ \A s \in Threads \ {t} : call'[s] = call[s]
  BY Types DEF Pool!StartBoot, Pool!Frame
<1>3. /\ procs' = procs \cup {i} /\ files' = [files EXCEPT ![id] = i]
      /\ UNCHANGED <<instances, nextIndex, sandboxes, used, running, server, req>>
  BY <1>1 DEF Pool!StartBoot, Pool!ManagerStarts, engineVars
<1>4. files'[id] = i /\ \A x \in Ids \ {id} : files'[x] = files[x]
  BY <1>1, <1>3, Types
<1>5. IdsOK'
  <2>1. \A s \in Threads : /\ Holder(s)' <=> Holder(s)
                           /\ Unregistered(s)' <=> Unregistered(s)
                           /\ call'[s].pc = "kill" => call'[s] = call[s]
    BY <1>1, <1>2, <1>3 DEF Holder, Unregistered, Got
  <2> QED BY <1>3, <2>1 DEF Inv, TablesOK, IdsOK, FreshOK, HoldersOK, UnregisteredOK, RemovedOK
<1>6. Backed' /\ VMAccounted'
  BY <1>3 DEF Inv, TablesOK, Backed, SandboxBacked, VMAccounted, Listed
<1>7. Reachable'
  BY <1>2, <1>3 DEF Inv, TablesOK, Reachable
<1>8. FilesOK'
  <2>1. OwnFiles'
    BY <1>1, <1>3, <1>4, StartsAlone DEF Inv, TablesOK, FilesOK, OwnFiles, Pool!OwnFiles, Pool!Registered
  <2>2. \A x \in procs' : x < nextIndex
    BY <1>1, <1>3, StartsAlone DEF Inv, TablesOK, FilesOK
  <2>3. \A s \in Threads : call'[s].pc = "boot" => call'[s].vm \notin procs'
    BY <1>1, <1>2, <1>3, StartsAlone DEF Inv, TablesOK, FilesOK
  <2>4. ASSUME NEW s \in Threads, call'[s].pc = "register", call'[s].vm \in procs'
        PROVE  files'[call'[s].name] = call'[s].vm
    <3>1. CASE s = t
      BY <1>2, <1>4, <3>1
    <3>2. CASE s # t
      <4>1. call[s].name \in Ids \ {id} /\ call[s].vm # i
        BY <1>1, <1>2, <2>4, <3>2, StartsAlone, Types
      <4> QED BY <1>2, <1>3, <1>4, <2>4, <3>2, <4>1 DEF Inv, TablesOK, FilesOK
    <3> QED BY <3>1, <3>2
  <2> QED BY <1>3, <2>1, <2>2, <2>3, <2>4 DEF FilesOK
<1>9. TablesOK'
  BY <1>5, <1>6, <1>7, <1>8 DEF TablesOK
<1>10. ReqFits(t)' /\ CallFits(t)'
  BY <1>1, <1>2, <1>3, StartsAlone DEF Inv, RequestsOK, ReqFits, CallFits, Holder
<1>11. req[t].pc # "idle"
  BY <1>1, StartsAlone
<1> QED BY <1>2, <1>3, <1>9, <1>10, <1>11, TablesKeep, Types

LEMMA BootFailsKeeps == ASSUME Inv, [Next]_vars, NEW t \in Threads, Pool!StartFail(t), UNCHANGED engineVars PROVE Inv'
<1> DEFINE id == call[t].name
           i  == call[t].vm
<1>1. call[t].pc = "boot" /\ i \notin procs /\ id \in Ids
  BY Types DEF Pool!StartFail, Inv, TablesOK, FilesOK
<1>2. /\ call'[t].pc = "idle" /\ call'[t].result = "vm_error"
      /\ \A s \in Threads \ {t} : call'[s] = call[s]
  BY CallChanges DEF Pool!StartFail
<1>3. UNCHANGED <<instances, nextIndex, procs, sandboxes, used, running, server, req>>
  BY DEF Pool!StartFail, Pool!ManagerFails, engineVars
<1>4. \A x \in Ids \ {id} : files'[x] = files[x]
  <2>1. files' = files \/ files' = [files EXCEPT ![id] = i]
    BY <1>1 DEF Pool!StartFail, Pool!ManagerFails
  <2> QED BY <1>1, <2>1, Types
<1>5. IdsOK'
  <2>1. \A s \in Threads : /\ Holder(s)' <=> Holder(s)
                           /\ Unregistered(s)' <=> Unregistered(s)
                           /\ call'[s].pc = "kill" => call'[s] = call[s]
    BY <1>1, <1>2, <1>3 DEF Holder, Unregistered, Got
  <2> QED BY <1>3, <2>1 DEF Inv, TablesOK, IdsOK, FreshOK, HoldersOK, UnregisteredOK, RemovedOK
<1>6. Backed' /\ VMAccounted'
  BY <1>3 DEF Inv, TablesOK, Backed, SandboxBacked, VMAccounted, Listed
<1>7. Reachable'
  BY <1>1, <1>2, <1>3 DEF Inv, TablesOK, Reachable
<1>8. FilesOK'
  <2>1. OwnFiles'
    BY <1>1, <1>3, <1>4, StartsAlone DEF Inv, TablesOK, FilesOK, OwnFiles, Pool!OwnFiles, Pool!Registered
  <2>2. ASSUME NEW s \in Threads, call'[s].pc = "register", call'[s].vm \in procs
        PROVE  files'[call'[s].name] = call'[s].vm
    <3>1. s # t /\ call'[s] = call[s] /\ call[s].name \in Ids \ {id}
      BY <1>1, <1>2, <2>2, StartsAlone, Types
    <3> QED BY <1>4, <2>2, <3>1 DEF Inv, TablesOK, FilesOK
  <2>3. \A s \in Threads : call'[s].pc = "boot" => call'[s].vm \notin procs
    BY <1>2 DEF Inv, TablesOK, FilesOK
  <2> QED BY <1>3, <2>1, <2>2, <2>3 DEF Inv, TablesOK, FilesOK
<1>9. TablesOK'
  BY <1>5, <1>6, <1>7, <1>8 DEF TablesOK
<1>10. ReqFits(t)' /\ CallFits(t)'
  BY <1>2, <1>3 DEF Inv, RequestsOK, ReqFits, CallFits, Holder
<1>11. req[t].pc # "idle"
  BY <1>1, StartsAlone
<1> QED BY <1>2, <1>3, <1>9, <1>10, <1>11, TablesKeep, Types

LEMMA RegisterKeeps == ASSUME Inv, [Next]_vars, NEW t \in Threads, Pool!StartRegister(t), UNCHANGED engineVars PROVE Inv'
<1> DEFINE id == call[t].name
           i  == call[t].vm
<1>1. call[t].pc = "register" /\ id \in Ids /\ i \in Nat /\ i # Pool!NoVM
  BY Types DEF Pool!StartRegister, Pool!NoVM
<1>2. /\ call'[t].pc = "idle" /\ call'[t].result = "ok"
      /\ \A s \in Threads \ {t} : call'[s] = call[s]
  BY CallChanges DEF Pool!StartRegister
<1>3. UNCHANGED <<nextIndex, procs, files, sandboxes, used, running, server, req>>
  BY DEF Pool!StartRegister, engineVars
<1>4. instances'[id] = i /\ \A x \in Ids \ {id} : instances'[x] = instances[x]
  BY <1>1, Types DEF Pool!StartRegister
<1>5. /\ req[t].pc = "booting" /\ req[t].id = id /\ instances[id] = Pool!NoVM /\ id \in used
      /\ \A s \in Threads : call[s].pc = "kill" => call[s].name # id
      /\ \A s \in Threads \ {t} : req[s].id # id
  BY <1>1, StartsAlone
<1>6. \A s \in Threads : /\ Holder(s)' <=> Holder(s)
                         /\ Unregistered(s)' => Unregistered(s) /\ s # t
                         /\ call'[s].pc \in {"boot", "register", "kill"} => s # t
  BY <1>2, <1>3, <1>5 DEF Holder, Unregistered, Got
<1>7. FreshOK' /\ HoldersOK'
  BY <1>3, <1>4, <1>5, <1>6 DEF Inv, TablesOK, IdsOK, FreshOK, HoldersOK
<1>8. UnregisteredOK'
  <2>1. \A s \in Threads : Unregistered(s)' => req[s].id \in Ids
    BY <1>6 DEF Unregistered, Inv, RequestsOK, ReqFits
  <2> QED BY <1>2, <1>3, <1>4, <1>5, <1>6, <2>1 DEF Inv, TablesOK, IdsOK, UnregisteredOK
<1>9. RemovedOK'
  BY <1>2, <1>3, <1>4, <1>5, <1>6, Types DEF Inv, TablesOK, IdsOK, RemovedOK
<1>10. Backed'
  <2>1. \A x \in Ids : instances[x] # Pool!NoVM => instances'[x] # Pool!NoVM
    BY <1>1, <1>4
  <2>2. \A s \in Threads : req[s].pc = "insert" => req[s].id \in Ids
    BY DEF Inv, RequestsOK, ReqFits
  <2> QED BY <1>3, <2>1, <2>2 DEF Inv, TablesOK, Backed, SandboxBacked, Listed
<1>11. VMAccounted'
  <2> SUFFICES ASSUME NEW x \in Ids, instances'[x] # Pool!NoVM
               PROVE  \/ sandboxes[x] # None
                      \/ \E s \in Threads : req[s].id = x /\ req[s].pc \in {"booting", "insert", "stop"}
    BY <1>3 DEF VMAccounted, Listed
  <2>1. CASE x = id
    BY <1>5, <2>1
  <2>2. CASE x # id
    BY <1>4, <2>2 DEF Inv, TablesOK, VMAccounted, Listed
  <2> QED BY <2>1, <2>2
<1>12. Reachable'
  <2> SUFFICES ASSUME NEW x \in procs
               PROVE  \/ \E y \in Ids : instances'[y] = x
                      \/ \E s \in Threads : /\ call'[s].pc \in {"boot", "register", "kill"}
                                            /\ call'[s].vm = x
    BY <1>3 DEF Reachable
  <2>1. CASE \E y \in Ids : instances[y] = x
    <3>1. x # Pool!NoVM
      BY Types DEF Pool!NoVM
    <3> QED BY <1>4, <1>5, <2>1, <3>1
  <2>2. CASE \E s \in Threads : call[s].pc \in {"boot", "register", "kill"} /\ call[s].vm = x
    BY <1>1, <1>2, <1>4, <2>2
  <2> QED BY <2>1, <2>2 DEF Inv, TablesOK, Reachable
<1>13. FilesOK'
  <2>1. i \in procs => files[id] = i
    BY <1>1 DEF Inv, TablesOK, FilesOK
  <2>2. OwnFiles'
    BY <1>3, <1>4, <2>1 DEF Inv, TablesOK, FilesOK, OwnFiles, Pool!OwnFiles, Pool!Registered
  <2> QED BY <1>2, <1>3, <1>6, <2>2 DEF Inv, TablesOK, FilesOK
<1>14. TablesOK'
  BY <1>7, <1>8, <1>9, <1>10, <1>11, <1>12, <1>13 DEF TablesOK, IdsOK
<1>15. ReqFits(t)' /\ CallFits(t)'
  BY <1>2, <1>3 DEF Inv, RequestsOK, ReqFits, CallFits, Holder
<1> QED BY <1>2, <1>3, <1>5, <1>14, <1>15, TablesKeep, Types

LEMMA KillKeeps == ASSUME Inv, [Next]_vars, NEW t \in Threads, Pool!StopKill(t), UNCHANGED engineVars PROVE Inv'
<1> DEFINE n == call[t].name
           i == call[t].vm
<1>1. /\ call[t].pc = "kill" /\ n \in Ids /\ instances[n] = Pool!NoVM
      /\ req[t].pc = "swept" \/ (req[t].pc = "stopped" /\ call[t].todo = {})
  BY Types DEF Pool!StopKill, Inv, TablesOK, IdsOK, RemovedOK, RequestsOK, CallFits
<1>2. /\ call'[t].pc \in {"idle", "sweep"} /\ (call[t].todo = {} => call'[t].pc = "idle")
      /\ \A s \in Threads \ {t} : call'[s] = call[s]
  BY CallChanges DEF Pool!StopKill
<1>3. /\ procs' = procs \ {i} /\ files' = [files EXCEPT ![n] = Pool!NoVM]
      /\ UNCHANGED <<instances, nextIndex, sandboxes, used, running, server, req>>
  BY <1>1 DEF Pool!StopKill, Pool!ManagerStops, engineVars
<1>4. \A x \in Ids \ {n} : files'[x] = files[x]
  BY <1>3, Types
<1>5. \A s \in Threads : /\ Holder(s)' <=> Holder(s)
                         /\ Unregistered(s)' <=> Unregistered(s)
                         /\ call'[s].pc \in {"boot", "register", "kill"} => call'[s] = call[s] /\ s # t
  BY <1>1, <1>2, <1>3 DEF Holder, Unregistered, Got
<1>6. IdsOK'
  BY <1>3, <1>5 DEF Inv, TablesOK, IdsOK, FreshOK, HoldersOK, UnregisteredOK, RemovedOK
<1>7. Backed' /\ VMAccounted'
  BY <1>3 DEF Inv, TablesOK, Backed, SandboxBacked, VMAccounted, Listed
<1>8. Reachable'
  BY <1>2, <1>3 DEF Inv, TablesOK, Reachable
<1>9. FilesOK'
  <2>1. OwnFiles'
    BY <1>1, <1>3, <1>4 DEF Inv, TablesOK, FilesOK, OwnFiles, Pool!OwnFiles, Pool!Registered
  <2>2. ASSUME NEW s \in Threads, call'[s].pc = "register", call'[s].vm \in procs'
        PROVE  files'[call'[s].name] = call'[s].vm
    <3>1. call'[s] = call[s] /\ call[s].pc = "register" /\ call[s].vm \in procs
      BY <1>3, <1>5, <2>2
    <3>2. call[s].name \in Ids \ {n}
      BY <1>1, <3>1, StartsAlone
    <3> QED BY <1>4, <3>1, <3>2 DEF Inv, TablesOK, FilesOK
  <2>3. \A s \in Threads : call'[s].pc = "boot" => call'[s].vm \notin procs'
    BY <1>3, <1>5 DEF Inv, TablesOK, FilesOK
  <2> QED BY <1>3, <2>1, <2>2, <2>3 DEF Inv, TablesOK, FilesOK
<1>10. TablesOK'
  BY <1>6, <1>7, <1>8, <1>9 DEF TablesOK
<1>11. ReqFits(t)'
  BY <1>3 DEF Inv, RequestsOK, ReqFits, Holder
<1>12. CallFits(t)'
  BY <1>1, <1>2, <1>3 DEF CallFits
<1> QED BY <1>1, <1>2, <1>3, <1>10, <1>11, <1>12, TablesKeep, Types

LEMMA CrashKeeps == ASSUME Inv, [Next]_vars, VMCrash PROVE Inv'
<1>1. /\ procs' \subseteq procs
      /\ UNCHANGED <<instances, nextIndex, files, call, sandboxes, used, running, server, req>>
  BY DEF VMCrash, Pool!Crash, engineVars
<1>2. Facts!IndexInv' /\ Pool!TypeOK'
  BY NextIndices, SamePoolNext DEF Facts!IndexInv
<1>3. TypeOK' /\ RequestsOK'
  BY <1>1, <1>2 DEF Inv, TypeOK, RequestsOK, ServerOK, ReqFits, CallFits, Holder
<1>4. IdsOK'
  BY <1>1 DEF Inv, TablesOK, IdsOK, FreshOK, HoldersOK, UnregisteredOK, RemovedOK, Holder, Unregistered, Got
<1>5. Backed' /\ VMAccounted' /\ Reachable'
  BY <1>1 DEF Inv, TablesOK, Backed, SandboxBacked, VMAccounted, Listed, Reachable
<1>6. FilesOK'
  BY <1>1 DEF Inv, TablesOK, FilesOK, OwnFiles, Pool!OwnFiles, Pool!Registered
<1> QED BY <1>2, <1>3, <1>4, <1>5, <1>6 DEF Inv, TablesOK

LEMMA StutterKeeps == ASSUME Inv, UNCHANGED vars PROVE Inv'
<1>1. Facts!IndexInv' /\ Pool!TypeOK'
  BY NextIndices, SamePoolNext DEF Facts!IndexInv
<1>2. UNCHANGED <<instances, nextIndex, procs, files, call, sandboxes, used, running, server, req>>
  BY DEF vars, engineVars
<1>3. TypeOK' /\ RequestsOK'
  BY <1>1, <1>2 DEF Inv, TypeOK, RequestsOK, ServerOK, ReqFits, CallFits, Holder
<1>4. IdsOK'
  BY <1>2 DEF Inv, TablesOK, IdsOK, FreshOK, HoldersOK, UnregisteredOK, RemovedOK, Holder, Unregistered, Got
<1>5. Backed' /\ VMAccounted' /\ Reachable'
  BY <1>2 DEF Inv, TablesOK, Backed, SandboxBacked, VMAccounted, Listed, Reachable
<1>6. FilesOK'
  BY <1>2 DEF Inv, TablesOK, FilesOK, OwnFiles, Pool!OwnFiles, Pool!Registered
<1> QED BY <1>1, <1>3, <1>4, <1>5, <1>6 DEF Inv, TablesOK

LEMMA PoolStepKeeps == ASSUME Inv, [Next]_vars, NEW t \in Threads, PoolStep(t) PROVE Inv'
<1>1. UNCHANGED engineVars
  BY DEF PoolStep
<1>2. CASE Pool!StartBoot(t)
  BY <1>1, <1>2, BootKeeps
<1>3. CASE Pool!StartFail(t)
  BY <1>1, <1>3, BootFailsKeeps
<1>4. CASE Pool!StartRegister(t)
  BY <1>1, <1>4, RegisterKeeps
<1>5. CASE Pool!StopKill(t)
  BY <1>1, <1>5, KillKeeps
<1>6. CASE Pool!Sweep(t)
  BY <1>1, <1>6, SweepKeeps
<1>7. ~Pool!RestartStop(t) /\ ~Pool!RestartStart(t)
  BY DEF Pool!RestartStop, Pool!RestartStart, Inv, RequestsOK, CallFits
<1> QED BY <1>2, <1>3, <1>4, <1>5, <1>6, <1>7 DEF PoolStep, Pool!Continue

LEMMA NextInv == Inv /\ [Next]_vars => Inv'
<1> SUFFICES ASSUME Inv, [Next]_vars PROVE Inv'
  OBVIOUS
<1>1. CASE Cleanup
  BY <1>1, CleanupKeeps
<1>2. CASE VMCrash
  BY <1>2, CrashKeeps
<1>3. ASSUME NEW t \in Threads, Arrive(t) PROVE Inv'
  BY <1>3, CreateKeeps, DestroyKeeps, ResetKeeps, ExecKeeps, RequestStopKeeps DEF Arrive
<1>4. ASSUME NEW t \in Threads, Step(t) PROVE Inv'
  <2>1. CASE PoolStep(t)
    BY <2>1, PoolStepKeeps
  <2>2. CASE PoolStart(t) \/ PoolStartFailed(t) \/ PoolStatus(t) \/ Insert(t)
    BY <2>2, PoolStartKeeps, PoolStartFailedKeeps, PoolStatusKeeps, InsertKeeps
  <2>3. CASE Find(t) \/ PopEntry(t) \/ PoolStop(t) \/ PoolStopped(t) \/ Recreate(t)
    BY <2>3, FindKeeps, PopEntryKeeps, PoolStopKeeps, PoolStoppedKeeps, RecreateKeeps
  <2>4. CASE GetClient(t) \/ Talk(t)
    BY <2>4, GetClientKeeps, TalkKeeps
  <2>5. CASE StopBegin(t) \/ StopFlag(t) \/ ListIds(t) \/ PoolStopAll(t) \/ Swept(t)
    BY <2>5, StopBeginKeeps, StopFlagKeeps, ListIdsKeeps, PoolStopAllKeeps, SweptKeeps
  <2> QED BY <1>4, <2>1, <2>2, <2>3, <2>4, <2>5 DEF Step
<1>5. CASE UNCHANGED vars
  BY <1>5, StutterKeeps
<1> QED BY <1>1, <1>2, <1>3, <1>4, <1>5 DEF Next

LEMMA InvAlways == Spec => []Inv
BY InitInv, NextInv, PTL DEF Spec

-----------------------------------------------------------------------------
(* The theorems                                                            *)

(* The daemon's table and its requests keep their types, and the pool's    *)
(* registry, processes, files and calls keep theirs (daemon.py:45-72,      *)
(* multi_vm.py:33-45).                                                     *)
THEOREM EngineTypeCorrect == Spec => []TypeOK
<1>1. Inv => TypeOK
  BY DEF Inv
<1> QED BY <1>1, InvAlways, PTL

(* While the daemon runs, a listed sandbox has its VM in the pool: create  *)
(* lists it after pool.start has registered the VM, destroy takes it off   *)
(* the list before pool.stop, and no other request can reach the VM in     *)
(* between (daemon.py:347, 359-363).                                       *)
THEOREM ListedHasVM == Spec => []SandboxBacked
<1>1. Inv => SandboxBacked
  BY DEF Inv, TablesOK, Backed
<1> QED BY <1>1, InvAlways, PTL

(* A VM in the pool is listed, or the request that creates or destroys it  *)
(* is still on its way: no path through create, reset, destroy and the     *)
(* shutdown leaves one that nobody would stop (daemon.py:300-363).         *)
THEOREM NoVMForgotten == Spec => []VMAccounted
<1>1. Inv => VMAccounted
  BY DEF Inv, TablesOK
<1> QED BY <1>1, InvAlways, PTL

(* No Firecracker process escapes both the registry and the calls in       *)
(* progress, whatever the order of starts, stops, the sweep of stop_all    *)
(* and crashes (multi_vm.py:117-205).                                      *)
THEOREM NoProcessLost == Spec => []NoOrphans
<1>1. Inv => NoOrphans
  BY DEF Inv, TablesOK, Reachable, NoOrphans, Pool!NoOrphans
<1> QED BY <1>1, InvAlways, PTL

(* A running registered VM has its own socket and rootfs at its paths:     *)
(* with ids used once, no stop of an old sandbox unlinks the files of a    *)
(* new one, as it can in a pool whose names come back (multi_vm.py:52-55,  *)
(* daemon.py:298).                                                         *)
THEOREM FilesAreOwn == Spec => []OwnFiles
<1>1. Inv => OwnFiles
  BY DEF Inv, TablesOK, FilesOK
<1> QED BY <1>1, InvAlways, PTL

(* The daemon uses the pool as the pool is meant to be used: each step of  *)
(* the daemon is one step of the pool or none, so what is proved of the    *)
(* pool with start, stop, stop_all and status holds of the daemon's.       *)
THEOREM EngineUsesPool == Spec => Pool!PoolSpec
<1>1. Init => Pool!PoolInit
  BY DEF Init
<1>2. Inv /\ [Next]_vars => [Pool!PoolNext]_poolVars
  BY PoolMoves
<1>3. poolVars = Pool!poolVars
  BY DEF poolVars, Pool!poolVars
<1>4. Inv /\ [Next]_vars => [Pool!PoolNext]_(Pool!poolVars)
  BY <1>2, <1>3 DEF poolVars, Pool!poolVars
<1> QED BY <1>1, <1>4, InvAlways, PTL DEF Spec, Pool!PoolSpec

(* Two sandboxes never have the same index, hence not the same CID, TAP    *)
(* device or subnet, under the daemon's calls too (multi_vm.py:52-56).     *)
THEOREM EngineIndices == Spec => []Pool!IndexUnique
<1>1. Inv => Pool!IndexUnique
  BY SamePool DEF Inv, Facts!IndexInv
<1> QED BY <1>1, InvAlways, PTL

-----------------------------------------------------------------------------
(* The stages of an id                                                     *)

(* A step of t that has to do with no other id than this one.              *)
LEMMA OthersStay ==
  ASSUME NEW t \in Threads, NEW id, \A s \in Threads \ {t} : req'[s] = req[s],
         Holder(t) => req[t].id = id, Holder(t)' => req'[t].id = id,
         \A x \in Ids \ {id} : sandboxes'[x] = sandboxes[x] /\ (x \in used' <=> x \in used)
  PROVE  \A x \in Ids \ {id} : Stage(x)' = Stage(x)
<1> TAKE x \in Ids \ {id}
<1>1. (\E s \in Threads : req'[s].id = x /\ req'[s].pc \in {"reserve", "booting", "insert"})
        <=> (\E s \in Threads : req[s].id = x /\ req[s].pc \in {"reserve", "booting", "insert"})
  BY DEF Holder
<1>2. x \in Listed' <=> x \in Listed
  BY DEF Listed
<1> QED BY <1>1, <1>2 DEF Stage

LEMMA Advances ==
  ASSUME NEW id \in Ids, NEW from, NEW to, Stage(id) = from, Stage(id)' = to,
         \A x \in Ids \ {id} : Stage(x)' = Stage(x)
  PROVE  Life!Passes(from, to)
<1>1. stages' = [stages EXCEPT ![id] = to] /\ stages[id] = from
  BY DEF stages
<1> QED BY <1>1 DEF Life!Passes

(* A step that changes neither the list nor the ids, nor who holds one.    *)
LEMMA StagesStay ==
  ASSUME UNCHANGED <<sandboxes, used>>,
         \A s \in Threads : Holder(s) \/ Holder(s)' =>
            req'[s].id = req[s].id /\ Holder(s) /\ Holder(s)'
  PROVE  UNCHANGED stages
<1>1. ASSUME NEW x \in Ids PROVE Stage(x)' = Stage(x)
  <2>1. (\E s \in Threads : req'[s].id = x /\ req'[s].pc \in {"reserve", "booting", "insert"})
          <=> (\E s \in Threads : req[s].id = x /\ req[s].pc \in {"reserve", "booting", "insert"})
    BY DEF Holder
  <2>2. x \in Listed' <=> x \in Listed
    BY DEF Listed
  <2> QED BY <2>1, <2>2 DEF Stage
<1> QED BY <1>1 DEF stages

LEMMA NewIdLives ==
  ASSUME Inv, NEW t \in Threads, ~Holder(t), NEW op, NEW new \in FreshIds, NEW n, CheckName(t, op, new, n)
  PROVE  [Life!LifeNext]_stages
<1>1. CASE NameInUse(n)
  <2>1. ~Holder(t)' /\ \A s \in Threads \ {t} : req'[s] = req[s]
    BY <1>1, Types DEF CheckName, Finish, Goto, Blank, Holder
  <2> QED BY <1>1, <2>1, StagesStay DEF CheckName, Holder
<1>2. CASE ~NameInUse(n)
  <2> DEFINE f == [Blank EXCEPT !.op = op, !.pc = "reserve", !.id = new, !.name = n]
  <2>0. f.id = new /\ f.pc = "reserve"
    BY DEF Blank
  <2>1. /\ new \in Ids /\ new \notin used /\ used' = used \cup {new} /\ sandboxes' = sandboxes
        /\ req'[t].id = new /\ req'[t].pc = "reserve"
        /\ \A s \in Threads \ {t} : req'[s] = req[s]
    <3>1. req' = [req EXCEPT ![t] = f] /\ used' = used \cup {new} /\ sandboxes' = sandboxes
      BY <1>2 DEF CheckName, Goto
    <3> QED BY <2>0, <3>1, Types DEF FreshIds
  <2> HIDE DEF f
  <2>2. sandboxes[new] = None
    BY <2>1 DEF Inv, TablesOK, IdsOK, FreshOK
  <2>3. Stage(new) = "new"
    BY <2>1 DEF Stage
  <2>4. Stage(new)' = "starting"
    BY <2>1, <2>2 DEF Stage, Listed
  <2>5. Life!Passes("new", "starting")
    BY <2>1, <2>3, <2>4, OthersStay, Advances
  <2> QED BY <2>5 DEF Life!LifeNext, Life!Request
<1> QED BY <1>1, <1>2

(* The holder of an id, and what becomes of the id when it lets go.        *)
LEMMA HolderAlone ==
  ASSUME Inv, NEW t \in Threads, Holder(t)
  PROVE  /\ req[t].id \in Ids /\ req[t].id \in used /\ sandboxes[req[t].id] = None
         /\ Stage(req[t].id) = "starting"
         /\ \A s \in Threads \ {t} : req[s].id # req[t].id
<1>1. req[t].id \in Ids
  BY DEF Holder, Inv, RequestsOK, ReqFits
<1>2. /\ req[t].id \in used /\ sandboxes[req[t].id] = None
      /\ \A s \in Threads \ {t} : req[s].id # req[t].id
  BY <1>1 DEF Inv, TablesOK, IdsOK, FreshOK, HoldersOK
<1>3. Stage(req[t].id) = "starting"
  BY <1>1, <1>2 DEF Stage, Listed, Holder
<1> QED BY <1>1, <1>2, <1>3

LEMMA LetsGo ==
  ASSUME Inv, NEW t \in Threads, Holder(t), Finish(t), UNCHANGED <<sandboxes, used>>
  PROVE  Life!LifeNext
<1>0. PICK id \in Ids : id = req[t].id
  BY HolderAlone
<1>1. /\ ~Holder(t)' /\ req'[t].pc \in {"idle", "done"}
      /\ \A s \in Threads \ {t} : req'[s] = req[s]
  BY Types DEF Finish, Goto, Blank, Holder
<1>2. /\ id \in used /\ sandboxes[id] = None /\ Stage(id) = "starting"
      /\ \A s \in Threads \ {t} : req[s].id # id
  BY <1>0, HolderAlone
<1>3. ~\E s \in Threads : req'[s].id = id /\ req'[s].pc \in {"reserve", "booting", "insert"}
  BY <1>0, <1>1, <1>2
<1>4. Stage(id)' = "gone"
  BY <1>2, <1>3 DEF Stage, Listed
<1>5. \A x \in Ids \ {id} : Stage(x)' = Stage(x)
  BY <1>0, <1>1, OthersStay
<1>6. Life!Passes("starting", "gone")
  BY <1>2, <1>4, <1>5, Advances
<1> QED BY <1>6 DEF Life!LifeNext, Life!GiveUp

LEMMA InsertLives == ASSUME Inv, NEW t \in Threads, Insert(t) PROVE Life!LifeNext
<1>1. Holder(t)
  BY DEF Insert, At, Holder
<1>2. PICK id \in Ids : id = req[t].id
  BY <1>1, HolderAlone
<1>3. id \in used /\ Stage(id) = "starting" /\ req[t].name \in AllNames
  BY <1>1, <1>2, HolderAlone DEF Inv, RequestsOK, ReqFits
<1>4. /\ ~Holder(t)' /\ \A s \in Threads \ {t} : req'[s] = req[s]
      /\ used' = used /\ sandboxes' = [sandboxes EXCEPT ![id] = req[t].name]
  BY <1>2, Types DEF Insert, Finish, Goto, Blank, Holder
<1>5. sandboxes'[id] # None /\ \A x \in Ids \ {id} : sandboxes'[x] = sandboxes[x]
  BY <1>3, <1>4, Types, NoneFresh
<1>6. Stage(id)' = "up"
  BY <1>3, <1>4, <1>5 DEF Stage, Listed
<1>7. Life!Passes("starting", "up")
  BY <1>2, <1>3, <1>4, <1>5, <1>6, OthersStay, Advances
<1> QED BY <1>7 DEF Life!LifeNext, Life!Appear

LEMMA PopEntryLives == ASSUME Inv, NEW t \in Threads, PopEntry(t) PROVE [Life!LifeNext]_stages
<1>1. req[t].pc = "pop" /\ req[t].id \in Ids
  BY DEF PopEntry, At, Inv, RequestsOK, ReqFits
<1>2. PICK id \in Ids : id = req[t].id
  BY <1>1
<1>3. /\ ~Holder(t) /\ ~Holder(t)' /\ \A s \in Threads \ {t} : req'[s] = req[s]
      /\ used' = used /\ sandboxes' = [sandboxes EXCEPT ![id] = None]
  BY <1>1, <1>2, Types DEF PopEntry, Goto, Holder
<1>4. sandboxes'[id] = None /\ \A x \in Ids \ {id} : sandboxes'[x] = sandboxes[x]
  BY <1>3, Types
<1>5. CASE sandboxes[id] = None
  <2>1. UNCHANGED <<sandboxes, used>>
    BY <1>3, <1>4, <1>5, Types
  <2> QED BY <1>3, <2>1, StagesStay DEF Holder
<1>6. CASE sandboxes[id] # None
  <2>1. id \in used
    BY <1>6 DEF Inv, TablesOK, IdsOK, FreshOK
  <2>2. \A s \in Threads : Holder(s) => req[s].id # id
    BY <1>6, HolderAlone
  <2>3. ~\E s \in Threads : req'[s].id = id /\ req'[s].pc \in {"reserve", "booting", "insert"}
    BY <1>3, <2>2 DEF Holder
  <2>4. Stage(id) = "up"
    BY <1>6, <2>1 DEF Stage, Listed
  <2>5. Stage(id)' = "gone"
    BY <1>3, <1>4, <2>1, <2>3 DEF Stage, Listed
  <2>6. Life!Passes("up", "gone")
    BY <1>3, <1>4, <2>4, <2>5, OthersStay, Advances
  <2> QED BY <2>6 DEF Life!LifeNext, Life!Disappear
<1> QED BY <1>5, <1>6

(* The steps that leave the holders alone.                                 *)
LEMMA NonHolderStays ==
  ASSUME NEW t \in Threads, ~Holder(t), ~Holder(t)', \A s \in Threads \ {t} : req'[s] = req[s],
         UNCHANGED <<sandboxes, used>>
  PROVE  UNCHANGED stages
BY StagesStay DEF Holder

LEMMA GotoStays ==
  ASSUME Inv, NEW t \in Threads, ~Holder(t), NEW f, f.pc \notin {"reserve", "booting", "insert"},
         Goto(t, f), UNCHANGED <<sandboxes, used>>
  PROVE  UNCHANGED stages
BY NonHolderStays, Types DEF Goto, Holder

LEMMA FinishStays ==
  ASSUME Inv, NEW t \in Threads, ~Holder(t), Finish(t), UNCHANGED <<sandboxes, used>>
  PROVE  UNCHANGED stages
<1> DEFINE f == [Blank EXCEPT !.pc = IF t \in Requests THEN "idle" ELSE "done"]
<1>1. f.pc \notin {"reserve", "booting", "insert"}
  BY DEF Blank
<1> QED BY <1>1, GotoStays DEF Finish

LEMMA VictimStays ==
  ASSUME Inv, NEW t \in Threads, ~Holder(t), NEW todo, NextVictim(t, todo), UNCHANGED <<sandboxes, used>>
  PROVE  UNCHANGED stages
<1>1. /\ [Blank EXCEPT !.op = req[t].op, !.pc = "sweep"].pc = "sweep"
      /\ \A id : [Blank EXCEPT !.op = req[t].op, !.pc = "find", !.arg = id, !.todo = todo \ {id}].pc = "find"
  BY DEF Blank
<1>2. \E f : Goto(t, f) /\ f.pc \notin {"reserve", "booting", "insert"}
  BY <1>1 DEF NextVictim
<1> QED BY <1>2, GotoStays

LEMMA DestroyedStays ==
  ASSUME Inv, NEW t \in Threads, req[t].pc \in {"find", "stopped"}, Destroyed(t), UNCHANGED <<sandboxes, used>>
  PROVE  UNCHANGED stages
<1>1. ~Holder(t) /\ req[t].op \in {"destroy", "reset", "stop", "exit"}
  BY DEF Holder, Inv, RequestsOK, ReqFits
<1>2. CASE req[t].op = "destroy"
  BY <1>1, <1>2, FinishStays DEF Destroyed
<1>3. CASE req[t].op = "reset"
  <2>1. [req[t] EXCEPT !.pc = "recreate"].pc = "recreate"
    BY Types DEF ReqFrame
  <2> QED BY <1>1, <1>3, <2>1, GotoStays DEF Destroyed
<1>4. CASE req[t].op \in {"stop", "exit"}
  BY <1>1, <1>4, VictimStays DEF Destroyed
<1> QED BY <1>1, <1>2, <1>3, <1>4

LEMMA ArriveLives == ASSUME Inv, NEW t \in Threads, Arrive(t) PROVE [Life!LifeNext]_stages
<1>1. ~Holder(t)
  BY DEF Arrive, Create, Destroy, Reset, Exec, RequestStop, Accepts, Holder
<1>2. CASE Create(t)
  BY <1>1, <1>2, NewIdLives DEF Create
<1>3. CASE Destroy(t)
  <2>1. PICK f : Goto(t, f) /\ f.pc = "find"
    <3>1. \A x : [Blank EXCEPT !.op = "destroy", !.pc = "find", !.arg = x].pc = "find"
      BY DEF Blank
    <3> QED BY <1>3, <3>1 DEF Destroy
  <2> QED BY <1>1, <1>3, <2>1, GotoStays DEF Destroy
<1>4. CASE Reset(t)
  <2>1. \A x, n : [Blank EXCEPT !.op = "reset", !.pc = "find", !.arg = x, !.name = n].pc = "find"
    BY DEF Blank
  <2>2. Finish(t) \/ \E f : Goto(t, f) /\ f.pc = "find"
    BY <1>4, <2>1 DEF Reset
  <2> QED BY <1>1, <1>4, <2>2, FinishStays, GotoStays DEF Reset
<1>5. CASE Exec(t)
  <2>1. \A x : [Blank EXCEPT !.op = "exec", !.pc = "client", !.id = x].pc = "client"
    BY DEF Blank
  <2>2. Finish(t) \/ \E f : Goto(t, f) /\ f.pc = "client"
    BY <1>5, <2>1 DEF Exec
  <2> QED BY <1>1, <1>5, <2>2, FinishStays, GotoStays DEF Exec
<1>6. CASE RequestStop(t)
  <2>1. PICK s \in Stoppers : /\ req[s].pc = "idle"
                              /\ Goto(s, [Blank EXCEPT !.op = "stop", !.pc = "begin"])
    BY <1>6 DEF RequestStop
  <2>2. s \in Threads /\ ~Holder(s) /\ [Blank EXCEPT !.op = "stop", !.pc = "begin"].pc = "begin"
    BY <2>1 DEF Threads, Holder, Blank
  <2> QED BY <1>6, <2>1, <2>2, GotoStays DEF RequestStop
<1> QED BY <1>2, <1>3, <1>4, <1>5, <1>6 DEF Arrive

(* A create that goes on keeps its id.                                     *)
LEMMA HolderGoesOn ==
  ASSUME Inv, NEW t \in Threads, Holder(t), NEW pc \in {"reserve", "booting", "insert"},
         Goto(t, [req[t] EXCEPT !.pc = pc]), UNCHANGED <<sandboxes, used>>
  PROVE  UNCHANGED stages
<1> DEFINE f == [req[t] EXCEPT !.pc = pc]
<1>1. f.id = req[t].id /\ f.pc = pc
  BY Types DEF ReqFrame
<1>2. req'[t] = f /\ \A s \in Threads \ {t} : req'[s] = req[s]
  BY Types DEF Goto
<1> QED BY <1>1, <1>2, StagesStay DEF Holder

LEMMA StepLives == ASSUME Inv, NEW t \in Threads, Step(t) PROVE [Life!LifeNext]_stages
<1>1. \A pc : [req[t] EXCEPT !.pc = pc].pc = pc
  BY Types DEF ReqFrame
<1>2. CASE PoolStep(t)
  BY <1>2, StagesStay DEF PoolStep, engineVars, Holder
<1>3. CASE PoolStart(t)
  <2>1. Goto(t, [req[t] EXCEPT !.pc = "booting"]) /\ Holder(t) /\ UNCHANGED <<sandboxes, used>>
    BY <1>3 DEF PoolStart, At, Holder
  <2> QED BY <2>1, HolderGoesOn
<1>4. CASE PoolStartFailed(t)
  BY <1>4, LetsGo DEF PoolStartFailed, At, Holder
<1>5. CASE PoolStatus(t)
  <2>1. Holder(t) /\ UNCHANGED <<sandboxes, used>>
    BY <1>5 DEF PoolStatus, At, Holder
  <2>2. Finish(t) \/ Goto(t, [req[t] EXCEPT !.pc = "insert"])
    BY <1>5 DEF PoolStatus
  <2> QED BY <2>1, <2>2, LetsGo, HolderGoesOn
<1>6. CASE Insert(t)
  BY <1>6, InsertLives
<1>7. CASE Find(t)
  <2>1. req[t].pc = "find" /\ ~Holder(t) /\ UNCHANGED <<sandboxes, used>>
    BY <1>7 DEF Find, At, Holder
  <2>2. \A id : [req[t] EXCEPT !.pc = "pop", !.id = id].pc = "pop"
    BY Types DEF ReqFrame
  <2>3. Destroyed(t) \/ \E f : Goto(t, f) /\ f.pc = "pop"
    BY <1>7, <2>2 DEF Find
  <2> QED BY <2>1, <2>3, DestroyedStays, GotoStays
<1>8. CASE PopEntry(t)
  BY <1>8, PopEntryLives
<1>9. CASE PoolStop(t)
  BY <1>1, <1>9, GotoStays DEF PoolStop, At, Holder
<1>10. CASE PoolStopped(t)
  BY <1>10, DestroyedStays DEF PoolStopped, At
<1>11. CASE Recreate(t)
  BY <1>11, NewIdLives DEF Recreate, At, Holder
<1>12. CASE GetClient(t)
  <2>1. Finish(t) \/ Goto(t, [req[t] EXCEPT !.pc = "talk"])
    BY <1>12 DEF GetClient
  <2> QED BY <1>1, <1>12, <2>1, FinishStays, GotoStays DEF GetClient, At, Holder
<1>13. CASE Talk(t)
  BY <1>13, FinishStays DEF Talk, At, Holder
<1>14. CASE StopBegin(t)
  <2>1. Finish(t) \/ Goto(t, [req[t] EXCEPT !.pc = "flag"])
    BY <1>14 DEF StopBegin
  <2> QED BY <1>1, <1>14, <2>1, FinishStays, GotoStays DEF StopBegin, At, Holder
<1>15. CASE StopFlag(t)
  BY <1>1, <1>15, GotoStays DEF StopFlag, At, Holder
<1>16. CASE ListIds(t)
  BY <1>16, VictimStays DEF ListIds, At, Holder
<1>17. CASE PoolStopAll(t)
  BY <1>1, <1>17, GotoStays DEF PoolStopAll, At, Holder
<1>18. CASE Swept(t)
  BY <1>18, FinishStays DEF Swept, At, Holder
<1> QED BY <1>2, <1>3, <1>4, <1>5, <1>6, <1>7, <1>8, <1>9, <1>10, <1>11, <1>12, <1>13, <1>14, <1>15,
           <1>16, <1>17, <1>18 DEF Step

LEMMA NextLives == ASSUME Inv, [Next]_vars PROVE [Life!LifeNext]_stages
<1>1. CASE Cleanup
  <2>1. Main \in Threads /\ ~Holder(Main) /\ UNCHANGED <<sandboxes, used>>
    BY <1>1 DEF Cleanup, Threads, Inv, RequestsOK, ServerOK, Holder
  <2>2. [Blank EXCEPT !.op = "exit", !.pc = "list"].pc = "list"
    BY DEF Blank
  <2> QED BY <1>1, <2>1, <2>2, GotoStays DEF Cleanup
<1>2. CASE VMCrash
  BY <1>2, StagesStay DEF VMCrash, engineVars, Holder
<1>3. CASE UNCHANGED vars
  BY <1>3, StagesStay DEF vars, engineVars, Holder
<1> QED BY <1>1, <1>2, <1>3, ArriveLives, StepLives DEF Next

(* The daemon keeps the promise of SandboxLife: whatever runs concurrently,*)
(* an id is generated once, its sandbox is listed at most once, and once   *)
(* destroyed or given up it never comes back (daemon.py:298-363).          *)
THEOREM EngineImplementsLife == Spec => ImplementsLife
<1>1. Init => Life!LifeInit
  BY DEF Init, Life!LifeInit, Stage, stages
<1>2. Inv /\ [Next]_vars => [Life!LifeNext]_stages
  BY NextLives
<1> QED BY <1>1, <1>2, InvAlways, PTL DEF Spec, ImplementsLife, Life!LifeSpec
=============================================================================
