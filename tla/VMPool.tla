------------------------------- MODULE VMPool -------------------------------
(***************************************************************************)
(* bunkervm/multi_vm.py: the pool of named Firecracker VMs.                *)
(*                                                                         *)
(* Any number of threads (HTTP handler threads of the engine, agent        *)
(* threads, the dashboard) call start, stop, stop_all, restart, client and *)
(* status.  The pool's lock covers single dictionary operations only, so a *)
(* call is a sequence of steps: every step is one lock region, or one call *)
(* of the VM manager made outside the lock.  call[t] is the frame of the   *)
(* call thread t is executing.                                             *)
(*                                                                         *)
(* A VM is identified by its index: the index fixes the vsock CID          *)
(* (3 + index), the TAP device (tap<index>) and the subnet                 *)
(* (172.16.<index>.0), while the socket and rootfs paths are fixed by the  *)
(* sanitised name.                                                         *)
(***************************************************************************)
EXTENDS Integers, FiniteSets

CONSTANTS
  Threads,    \* threads that call the pool
  Names,      \* VM names in use
  Paths,      \* socket/rootfs path families, one per sanitised name
  SafeName,   \* [Names -> Paths]: name with "/" and " " replaced by "-"
  NamesOf,    \* [Threads -> SUBSET Names]: the names thread t passes
  Ops,        \* the operations callers use
  MaxVMs,     \* max_vms
  MaxIndex,   \* bound: starts explored before the index counter is capped
  Network     \* the pool's network flag: VMs get a TAP device and a subnet

AllOps == {"start", "stop", "stop_all", "restart", "client", "status"}

ASSUME PoolAssumption ==
  /\ IsFiniteSet(Threads) /\ Threads # {}
  /\ IsFiniteSet(Names)
  /\ SafeName \in [Names -> Paths]
  /\ NamesOf \in [Threads -> SUBSET Names]
  /\ Ops \subseteq AllOps
  /\ MaxVMs \in Nat \ {0}
  /\ MaxIndex \in Nat
  /\ Network \in BOOLEAN

VARIABLES
  instances,  \* _instances: name -> index of the registered VM, or NoVM
  nextIndex,  \* _next_index
  procs,      \* indices whose manager has a live Firecracker process
  files,      \* path family -> index of the VM whose files are there, or NoVM
  call        \* the pool call each thread is executing

poolVars == <<instances, nextIndex, procs, files, call>>

NoVM    == -1
Indices == 0 .. MaxIndex - 1
PCs     == {"idle", "boot", "register", "kill", "sweep", "cycle", "reboot"}
Results == {"none", "ok", "value_error", "key_error", "vm_error"}
NoName  == "-"

Registered == {n \in Names : instances[n] # NoVM}

(* A thread is between the reservation of an index and its registration.   *)
Starting == {t \in Threads : call[t].pc \in {"boot", "register"}}

Idle(t)       == call[t].pc = "idle"
Done(result)  == [pc |-> "idle", name |-> NoName, vm |-> NoVM,
                  todo |-> {}, result |-> result]
Return(t, result) == call' = [call EXCEPT ![t] = Done(result)]
Enter(t, pc, n, i, todo) ==
  call' = [call EXCEPT ![t] = [pc |-> pc, name |-> n, vm |-> i,
                               todo |-> todo, result |-> "none"]]

PoolInit ==
  /\ instances = [n \in Names |-> NoVM]
  /\ nextIndex = 0
  /\ procs = {}
  /\ files = [p \in Paths |-> NoVM]
  /\ call = [t \in Threads |-> Done("none")]

-----------------------------------------------------------------------------
(* The VM manager, as the pool sees it.                                    *)

(* 172.16.<index>.1 is an address only for an octet; "ip addr add" fails   *)
(* on anything else and the manager raises VMError.                        *)
Addressable(i) == ~Network \/ i <= 255

(* manager.start() succeeds: the rootfs is copied over whatever is at the  *)
(* path, stale sockets are unlinked, Firecracker is launched.  On a        *)
(* manager whose process is alive it returns at once.                      *)
ManagerStarts(i, p) ==
  \/ i \in procs /\ UNCHANGED <<procs, files>>
  \/ /\ i \notin procs
     /\ Addressable(i)
     /\ procs' = procs \cup {i}
     /\ files' = [files EXCEPT ![p] = i]

(* manager.start() raises: before the files at the path are touched        *)
(* (validation, TAP) or after (Firecracker missing, or it exits at once).  *)
ManagerFails(i, p) ==
  /\ i \notin procs
  /\ \/ UNCHANGED files
     \/ Addressable(i) /\ files' = [files EXCEPT ![p] = i]
  /\ UNCHANGED procs

(* manager.stop(): the process is killed and the files at its paths are    *)
(* unlinked, whichever VM put them there.                                  *)
ManagerStops(i, p) ==
  /\ procs' = procs \ {i}
  /\ files' = [files EXCEPT ![p] = NoVM]

-----------------------------------------------------------------------------
(* start                                                                   *)

NameTaken(n)     == instances[n] # NoVM
(* Mutant: one more VM is let in than the limit says.                       *)
PoolFullLate     == Cardinality(Registered) > MaxVMs
PoolFull         == Cardinality(Registered) >= MaxVMs
(* Mutant: the next index is the number of registered VMs.                 *)
NextIndexByCount(i) == Cardinality(Registered)
NextIndex(i)     == i + 1

(* The lock region: reject a taken name or a full pool, else take an index.*)
StartReserve(t, n) ==
  /\ Idle(t)
  /\ nextIndex < MaxIndex
  /\ IF NameTaken(n) \/ PoolFull
     THEN /\ Return(t, "value_error")
          /\ UNCHANGED nextIndex
     ELSE /\ nextIndex' = NextIndex(nextIndex)
          /\ Enter(t, "boot", n, nextIndex, {})
  /\ UNCHANGED <<instances, procs, files>>

(* Mutant: a failed health wait is raised, and the VM is left running.      *)
StartBootRaising(t) ==
  /\ call[t].pc = "boot"
  /\ ManagerStarts(call[t].vm, SafeName[call[t].name])
  /\ \/ call' = [call EXCEPT ![t].pc = "register"]
     \/ Return(t, "vm_error")
  /\ UNCHANGED <<instances, nextIndex>>

(* vm.start() outside the lock, then the health wait, whose failure is     *)
(* only logged.                                                            *)
StartBoot(t) ==
  /\ call[t].pc = "boot"
  /\ ManagerStarts(call[t].vm, SafeName[call[t].name])
  /\ call' = [call EXCEPT ![t].pc = "register"]
  /\ UNCHANGED <<instances, nextIndex>>

StartFail(t) ==
  /\ call[t].pc = "boot"
  /\ ManagerFails(call[t].vm, SafeName[call[t].name])
  /\ Return(t, "vm_error")
  /\ UNCHANGED <<instances, nextIndex>>

StartRegister(t) ==
  /\ call[t].pc = "register"
  /\ instances' = [instances EXCEPT ![call[t].name] = call[t].vm]
  /\ Return(t, "ok")
  /\ UNCHANGED <<nextIndex, procs, files>>

-----------------------------------------------------------------------------
(* stop and stop_all                                                       *)

KeepSweeping(t, rest) ==
  IF rest = {} THEN Return(t, "ok") ELSE Enter(t, "sweep", NoName, NoVM, rest)

(* Mutant: the popped entry is used without the test for None.              *)
PopUnchecked(t, n, rest) ==
  /\ instances' = [instances EXCEPT ![n] = NoVM]
  /\ Enter(t, "kill", n, instances[n], rest)
  /\ UNCHANGED <<nextIndex, procs, files>>

(* The lock region of stop: pop the instance; an unknown name is logged.   *)
Pop(t, n, rest) ==
  /\ IF instances[n] # NoVM
     THEN /\ instances' = [instances EXCEPT ![n] = NoVM]
          /\ Enter(t, "kill", n, instances[n], rest)
     ELSE /\ UNCHANGED instances
          /\ KeepSweeping(t, rest)
  /\ UNCHANGED <<nextIndex, procs, files>>

Stop(t, n) == Idle(t) /\ Pop(t, n, {})

(* manager.stop() outside the lock.                                        *)
StopKill(t) ==
  /\ call[t].pc = "kill"
  /\ ManagerStops(call[t].vm, SafeName[call[t].name])
  /\ KeepSweeping(t, call[t].todo)
  /\ UNCHANGED <<instances, nextIndex>>

(* stop_all takes the list of names once, then stops them one by one.      *)
StopAll(t) ==
  /\ Idle(t)
  /\ KeepSweeping(t, Registered)
  /\ UNCHANGED <<instances, nextIndex, procs, files>>

Sweep(t) ==
  /\ call[t].pc = "sweep"
  /\ \E n \in call[t].todo : Pop(t, n, call[t].todo \ {n})

-----------------------------------------------------------------------------
(* restart, client, status                                                 *)

Restart(t, n) ==
  /\ Idle(t)
  /\ IF instances[n] = NoVM THEN Return(t, "value_error")
     ELSE Enter(t, "cycle", n, instances[n], {})
  /\ UNCHANGED <<instances, nextIndex, procs, files>>

(* manager.restart(): stop, sleep one second, start; no lock is held.      *)
RestartStop(t) ==
  /\ call[t].pc = "cycle"
  /\ ManagerStops(call[t].vm, SafeName[call[t].name])
  /\ call' = [call EXCEPT ![t].pc = "reboot"]
  /\ UNCHANGED <<instances, nextIndex>>

RestartStart(t) ==
  /\ call[t].pc = "reboot"
  /\ \/ /\ ManagerStarts(call[t].vm, SafeName[call[t].name])
        /\ Return(t, "ok")
     \/ /\ ManagerFails(call[t].vm, SafeName[call[t].name])
        /\ Return(t, "vm_error")
  /\ UNCHANGED <<instances, nextIndex>>

(* client() and status(): one lookup under the lock.                       *)
Lookup(t, n) ==
  /\ Idle(t)
  /\ Return(t, IF instances[n] = NoVM THEN "key_error" ELSE "ok")
  /\ UNCHANGED <<instances, nextIndex, procs, files>>

(* The Firecracker process of a VM exits by itself.                        *)
Crash(i) ==
  /\ i \in procs
  /\ procs' = procs \ {i}
  /\ UNCHANGED <<instances, nextIndex, files, call>>

-----------------------------------------------------------------------------

(* The steps with which a call in progress goes on.                        *)
Continue(t) ==
  \/ StartBoot(t) \/ StartFail(t) \/ StartRegister(t)
  \/ StopKill(t) \/ Sweep(t)
  \/ RestartStop(t) \/ RestartStart(t)

Begin(t) ==
  \/ \E n \in NamesOf[t] :
       \/ "start" \in Ops /\ StartReserve(t, n)
       \/ "stop" \in Ops /\ Stop(t, n)
       \/ "restart" \in Ops /\ Restart(t, n)
       \/ Ops \cap {"client", "status"} # {} /\ Lookup(t, n)
  \/ "stop_all" \in Ops /\ StopAll(t)

PoolNext ==
  \/ \E t \in Threads : Begin(t) \/ Continue(t)
  \/ \E i \in procs : Crash(i)

PoolSpec == PoolInit /\ [][PoolNext]_poolVars

-----------------------------------------------------------------------------
(* Properties                                                              *)

Frame == [pc : PCs, name : Names \cup {NoName}, vm : Int,
          todo : SUBSET Names, result : Results]

(* Type invariant of the pool, with the shape of a frame at each step of a *)
(* call.                                                                   *)
TypeOK ==
  /\ instances \in [Names -> Nat \cup {NoVM}]
  /\ nextIndex \in Nat
  /\ procs \subseteq Nat
  /\ files \in [Paths -> Nat \cup {NoVM}]
  /\ call \in [Threads -> Frame]
  /\ \A t \in Threads : call[t].pc \in {"boot", "register", "kill", "cycle", "reboot"}
       => call[t].name \in Names /\ call[t].vm \in Nat

(* No index is ever shared: registered VMs have different indices, a VM    *)
(* being started has an index of its own, so no two VMs of the pool use    *)
(* the same CID, TAP device or subnet (multi_vm.py:52-56, 277).            *)
IndexUnique ==
  /\ \A m, n \in Registered : instances[m] = instances[n] => m = n
  /\ \A s, t \in Starting : call[s].vm = call[t].vm => s = t
  /\ \A t \in Starting, n \in Registered : call[t].vm # instances[n]

(* The check of the limit and the registration are in different lock       *)
(* regions: max_vms is exceeded, but by no more than the calls that can    *)
(* have passed the check together with the last one.                       *)
LimitSlack ==
  Cardinality(Registered) + Cardinality(Starting)
    <= MaxVMs + Cardinality(Threads) - 1

(* Every live Firecracker process can still be reached by somebody: it is  *)
(* registered, or a call in progress holds its manager.                    *)
NoOrphans ==
  \A i \in procs : \/ \E n \in Names : instances[n] = i
                   \/ \E t \in Threads : call[t].vm = i

(* multi_vm.py:52-55: each VM has its own sockets and rootfs copy.  What   *)
(* is at the paths of a registered, running VM is its own.                 *)
OwnFiles ==
  \A n \in Registered : instances[n] \in procs => files[SafeName[n]] = instances[n]

=============================================================================
