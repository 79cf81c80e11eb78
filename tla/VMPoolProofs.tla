---------------------------- MODULE VMPoolProofs ----------------------------
(***************************************************************************)
(* Theorems about VMPool for every set of threads and names, every max_vms *)
(* and every bound.  The inductive invariant adds to IndexUnique that every*)
(* index in use is below the counter, which is what makes the next index   *)
(* fresh although no lock is held while a VM boots.                        *)
(***************************************************************************)
EXTENDS VMPool, FiniteSetTheorems, TLAPS

(* Every index in use was taken from the counter.                          *)
BelowCounter ==
  /\ \A n \in Registered : instances[n] < nextIndex
  /\ \A t \in Starting : call[t].vm < nextIndex

IndexInv == TypeOK /\ IndexUnique /\ BelowCounter

-----------------------------------------------------------------------------

LEMMA InitTypeOK == PoolInit => TypeOK
BY PoolAssumption DEF PoolInit, TypeOK, Frame, Done, PCs, Results, NoVM, NoName

(* What a call frame written by Enter or Done looks like.                  *)
LEMMA EnterFrame ==
  ASSUME TypeOK, NEW t \in Threads, NEW pc \in PCs, NEW n \in Names, NEW i \in Nat,
         NEW todo \in SUBSET Names, Enter(t, pc, n, i, todo)
  PROVE  /\ call' \in [Threads -> Frame]
         /\ \A s \in Threads : call'[s].pc \in {"boot", "register", "kill", "cycle", "reboot"}
              => call'[s].name \in Names /\ call'[s].vm \in Nat
BY DEF TypeOK, Enter, Frame, Results

LEMMA ReturnFrame ==
  ASSUME TypeOK, NEW t \in Threads, NEW r \in Results, Return(t, r)
  PROVE  /\ call' \in [Threads -> Frame]
         /\ \A s \in Threads : call'[s].pc \in {"boot", "register", "kill", "cycle", "reboot"}
              => call'[s].name \in Names /\ call'[s].vm \in Nat
BY DEF TypeOK, Return, Done, Frame, PCs, NoVM, NoName

LEMMA SweepFrame ==
  ASSUME TypeOK, NEW t \in Threads, NEW rest \in SUBSET Names, KeepSweeping(t, rest)
  PROVE  /\ call' \in [Threads -> Frame]
         /\ \A s \in Threads : call'[s].pc \in {"boot", "register", "kill", "cycle", "reboot"}
              => call'[s].name \in Names /\ call'[s].vm \in Nat
<1>1. CASE rest = {}
  BY <1>1, ReturnFrame DEF KeepSweeping, Results
<1>2. CASE rest # {}
  BY <1>2 DEF KeepSweeping, TypeOK, Enter, Frame, Results, PCs, NoVM, NoName
<1> QED BY <1>1, <1>2

(* Advancing the frame of t to another step of the same call.              *)
LEMMA StepFrame ==
  ASSUME TypeOK, NEW t \in Threads, NEW pc \in PCs,
         call[t].name \in Names, call[t].vm \in Nat,
         call' = [call EXCEPT ![t].pc = pc]
  PROVE  /\ call' \in [Threads -> Frame]
         /\ \A s \in Threads : call'[s].pc \in {"boot", "register", "kill", "cycle", "reboot"}
              => call'[s].name \in Names /\ call'[s].vm \in Nat
BY DEF TypeOK, Frame

(* The three outcomes of a manager call keep procs and files well typed.   *)
LEMMA ManagerTypes ==
  ASSUME TypeOK, NEW i \in Nat, NEW p \in Paths,
         ManagerStarts(i, p) \/ ManagerFails(i, p) \/ ManagerStops(i, p)
  PROVE  procs' \subseteq Nat /\ files' \in [Paths -> Nat \cup {NoVM}]
BY DEF TypeOK, ManagerStarts, ManagerFails, ManagerStops

LEMMA PopTypes ==
  ASSUME TypeOK, NEW t \in Threads, NEW n \in Names, NEW rest \in SUBSET Names,
         Pop(t, n, rest)
  PROVE  TypeOK'
<1>1. CASE instances[n] # NoVM
  <2>1. instances[n] \in Nat /\ "kill" \in PCs
    BY <1>1 DEF TypeOK, PCs
  <2>2. Enter(t, "kill", n, instances[n], rest)
    BY <1>1 DEF Pop
  <2> QED BY <1>1, <2>1, <2>2, EnterFrame DEF TypeOK, Pop
<1>2. CASE instances[n] = NoVM
  BY <1>2, SweepFrame DEF TypeOK, Pop
<1> QED BY <1>1, <1>2

LEMMA NextTypeOK == TypeOK /\ [PoolNext]_poolVars => TypeOK'
<1> SUFFICES ASSUME TypeOK, [PoolNext]_poolVars PROVE TypeOK'
  OBVIOUS
<1>1. ASSUME NEW t \in Threads, NEW n \in Names, StartReserve(t, n) PROVE TypeOK'
  <2>1. CASE NameTaken(n) \/ PoolFull
    BY <1>1, <2>1, ReturnFrame DEF StartReserve, TypeOK, Results
  <2>2. CASE ~(NameTaken(n) \/ PoolFull)
    <3>1. "boot" \in PCs /\ nextIndex \in Nat /\ {} \in SUBSET Names
      BY DEF PCs, TypeOK
    <3>2. Enter(t, "boot", n, nextIndex, {}) /\ nextIndex' = nextIndex + 1
      BY <1>1, <2>2 DEF StartReserve, NextIndex
    <3> QED BY <1>1, <3>1, <3>2, EnterFrame DEF StartReserve, TypeOK
  <2> QED BY <2>1, <2>2
<1>2. ASSUME NEW t \in Threads, StartBoot(t) PROVE TypeOK'
  <2>1. "register" \in PCs /\ call[t].name \in Names /\ call[t].vm \in Nat
        /\ SafeName[call[t].name] \in Paths
    BY <1>2, PoolAssumption DEF StartBoot, TypeOK, PCs
  <2> QED BY <1>2, <2>1, StepFrame, ManagerTypes DEF StartBoot, TypeOK
<1>3. ASSUME NEW t \in Threads, StartFail(t) PROVE TypeOK'
  <2>1. "vm_error" \in Results /\ call[t].vm \in Nat /\ SafeName[call[t].name] \in Paths
    BY <1>3, PoolAssumption DEF StartFail, TypeOK, Results
  <2> QED BY <1>3, <2>1, ReturnFrame, ManagerTypes DEF StartFail, TypeOK
<1>4. ASSUME NEW t \in Threads, StartRegister(t) PROVE TypeOK'
  <2>1. "ok" \in Results /\ call[t].name \in Names /\ call[t].vm \in Nat
    BY <1>4 DEF StartRegister, TypeOK, Results
  <2> QED BY <1>4, <2>1, ReturnFrame DEF StartRegister, TypeOK
<1>5. ASSUME NEW t \in Threads, NEW n \in Names, Stop(t, n) PROVE TypeOK'
  BY <1>5, PopTypes DEF Stop
<1>6. ASSUME NEW t \in Threads, StopKill(t) PROVE TypeOK'
  <2>1. call[t].todo \in SUBSET Names /\ call[t].vm \in Nat
        /\ SafeName[call[t].name] \in Paths
    BY <1>6, PoolAssumption DEF StopKill, TypeOK, Frame
  <2> QED BY <1>6, <2>1, SweepFrame, ManagerTypes DEF StopKill, TypeOK
<1>7. ASSUME NEW t \in Threads, StopAll(t) PROVE TypeOK'
  <2>1. Registered \in SUBSET Names
    BY DEF Registered
  <2> QED BY <1>7, <2>1, SweepFrame DEF StopAll, TypeOK
<1>8. ASSUME NEW t \in Threads, Sweep(t) PROVE TypeOK'
  <2>1. PICK n \in call[t].todo : Pop(t, n, call[t].todo \ {n})
    BY <1>8 DEF Sweep
  <2>2. n \in Names /\ call[t].todo \ {n} \in SUBSET Names
    BY DEF TypeOK, Frame
  <2> QED BY <2>1, <2>2, PopTypes
<1>9. ASSUME NEW t \in Threads, NEW n \in Names, Restart(t, n) PROVE TypeOK'
  <2>1. CASE instances[n] = NoVM
    BY <1>9, <2>1, ReturnFrame DEF Restart, TypeOK, Results
  <2>2. CASE instances[n] # NoVM
    <3>1. "cycle" \in PCs /\ instances[n] \in Nat /\ {} \in SUBSET Names
      BY <2>2 DEF PCs, TypeOK
    <3>2. Enter(t, "cycle", n, instances[n], {})
      BY <1>9, <2>2 DEF Restart
    <3> QED BY <1>9, <3>1, <3>2, EnterFrame DEF Restart, TypeOK
  <2> QED BY <2>1, <2>2
<1>10. ASSUME NEW t \in Threads, RestartStop(t) PROVE TypeOK'
  <2>1. "reboot" \in PCs /\ call[t].name \in Names /\ call[t].vm \in Nat
        /\ SafeName[call[t].name] \in Paths
    BY <1>10, PoolAssumption DEF RestartStop, TypeOK, PCs
  <2> QED BY <1>10, <2>1, StepFrame, ManagerTypes DEF RestartStop, TypeOK
<1>11. ASSUME NEW t \in Threads, RestartStart(t) PROVE TypeOK'
  <2>1. {"ok", "vm_error"} \subseteq Results /\ call[t].vm \in Nat
        /\ SafeName[call[t].name] \in Paths
    BY <1>11, PoolAssumption DEF RestartStart, TypeOK, Results
  <2> QED BY <1>11, <2>1, ReturnFrame, ManagerTypes DEF RestartStart, TypeOK
<1>12. ASSUME NEW t \in Threads, NEW n \in Names, Lookup(t, n) PROVE TypeOK'
  BY <1>12, ReturnFrame DEF Lookup, TypeOK, Results
<1>13. ASSUME NEW i \in procs, Crash(i) PROVE TypeOK'
  BY <1>13 DEF Crash, TypeOK
<1>14. CASE UNCHANGED poolVars
  BY <1>14 DEF poolVars, TypeOK
<1>15. ASSUME NEW t \in Threads, Begin(t) PROVE TypeOK'
  <2>1. NamesOf[t] \subseteq Names
    BY PoolAssumption
  <2> QED BY <1>15, <2>1, <1>1, <1>5, <1>7, <1>9, <1>12 DEF Begin
<1>16. ASSUME NEW t \in Threads, Continue(t) PROVE TypeOK'
  BY <1>16, <1>2, <1>3, <1>4, <1>6, <1>8, <1>10, <1>11 DEF Continue
<1> QED BY <1>13, <1>14, <1>15, <1>16 DEF PoolNext

(* Every reachable state of the pool is well typed.                        *)
THEOREM PoolTypeCorrect == PoolSpec => []TypeOK
BY InitTypeOK, NextTypeOK, PTL DEF PoolSpec

-----------------------------------------------------------------------------

(* A step that reserves nothing and registers nothing: t does not become a *)
(* starter and entries of the registry stay or disappear.                  *)
NoNewHolder(t) ==
  /\ nextIndex' = nextIndex
  /\ \A s \in Threads \ {t} : call'[s] = call[s]
  /\ t \in Starting' => t \in Starting /\ call'[t].vm = call[t].vm
  /\ \A n \in Names : instances'[n] \in {instances[n], NoVM}

LEMMA NoNewHolderKeeps ==
  ASSUME IndexUnique, BelowCounter, NEW t \in Threads, NoNewHolder(t)
  PROVE  IndexUnique' /\ BelowCounter'
<1>1. \A s \in Starting' : s \in Starting /\ call'[s].vm = call[s].vm
  BY DEF NoNewHolder, Starting
<1>2. \A n \in Registered' : n \in Registered /\ instances'[n] = instances[n]
  BY DEF NoNewHolder, Registered
<1>3. IndexUnique'
  BY <1>1, <1>2 DEF IndexUnique
<1>4. BelowCounter'
  BY <1>1, <1>2 DEF BelowCounter, NoNewHolder
<1> QED BY <1>3, <1>4

(* Entering a step that is not part of a start, or returning, makes no     *)
(* starter.                                                                *)
LEMMA LeavingFrames ==
  ASSUME TypeOK, NEW t \in Threads, nextIndex' = nextIndex,
         \A n \in Names : instances'[n] \in {instances[n], NoVM},
         \/ \E r : Return(t, r)
         \/ \E pc, n, i, todo : pc \notin {"boot", "register"} /\ Enter(t, pc, n, i, todo)
         \/ \E rest : KeepSweeping(t, rest)
  PROVE  NoNewHolder(t)
<1>1. \A s \in Threads \ {t} : call'[s] = call[s]
  BY DEF Return, Enter, KeepSweeping, TypeOK
<1>2. call'[t].pc \notin {"boot", "register"}
  BY DEF Return, Enter, KeepSweeping, Done, TypeOK
<1> QED BY <1>1, <1>2 DEF NoNewHolder, Starting

LEMMA PopKeepsHolders ==
  ASSUME TypeOK, NEW t \in Threads, NEW n \in Names, NEW rest, Pop(t, n, rest)
  PROVE  NoNewHolder(t)
<1>1. nextIndex' = nextIndex /\ \A m \in Names : instances'[m] \in {instances[m], NoVM}
  BY DEF Pop, TypeOK
<1>2. \/ Enter(t, "kill", n, instances[n], rest)
      \/ KeepSweeping(t, rest)
  BY DEF Pop
<1> QED BY <1>1, <1>2, LeavingFrames

LEMMA ReserveKeepsUnique ==
  ASSUME IndexInv, NEW t \in Threads, NEW n \in Names, StartReserve(t, n)
  PROVE  IndexUnique' /\ BelowCounter'
<1> USE DEF IndexInv
<1>1. CASE NameTaken(n) \/ PoolFull
  <2>1. Return(t, "value_error") /\ UNCHANGED <<nextIndex, instances>>
    BY <1>1 DEF StartReserve
  <2>2. \A m \in Names : instances'[m] \in {instances[m], NoVM}
    BY <2>1
  <2> QED BY <2>1, <2>2, LeavingFrames, NoNewHolderKeeps
<1>2. CASE ~(NameTaken(n) \/ PoolFull)
  <2>1. Enter(t, "boot", n, nextIndex, {}) /\ nextIndex' = nextIndex + 1
        /\ instances' = instances
    BY <1>2 DEF StartReserve, NextIndex
  <2>2. call'[t].vm = nextIndex /\ \A s \in Threads \ {t} : call'[s] = call[s]
    BY <2>1 DEF Enter, TypeOK
  <2>3. /\ Starting' \subseteq Starting \cup {t}
        /\ t \notin Starting
        /\ Registered' = Registered
    BY <2>1, <2>2 DEF Starting, Registered, StartReserve, Idle
  <2>4. nextIndex \in Nat /\ \A s \in Starting : call[s].vm \in Nat
    BY DEF TypeOK, Starting
  <2>5. \A m \in Registered : instances[m] \in Nat
    BY DEF Registered, TypeOK
  <2>6. \A m \in Registered' : m \in Registered /\ instances'[m] = instances[m]
    BY <2>1, <2>3
  <2>7. \A s \in Starting' : \/ s = t /\ call'[s].vm = nextIndex
                             \/ s \in Starting /\ call'[s].vm = call[s].vm
    BY <2>2, <2>3 DEF Starting
  <2>8. IndexUnique'
    BY <2>4, <2>5, <2>6, <2>7 DEF IndexUnique, BelowCounter
  <2>9. BelowCounter'
    BY <2>1, <2>4, <2>5, <2>6, <2>7 DEF BelowCounter
  <2> QED BY <2>8, <2>9
<1> QED BY <1>1, <1>2

LEMMA RegisterKeepsUnique ==
  ASSUME IndexInv, NEW t \in Threads, StartRegister(t)
  PROVE  IndexUnique' /\ BelowCounter'
<1> USE DEF IndexInv
<1> DEFINE n == call[t].name
<1>1. n \in Names /\ call[t].vm \in Nat /\ t \in Starting
  BY DEF StartRegister, TypeOK, Starting
<1>2. /\ instances'[n] = call[t].vm
      /\ \A m \in Names \ {n} : instances'[m] = instances[m]
      /\ nextIndex' = nextIndex
  BY <1>1 DEF StartRegister, TypeOK
<1>3. Starting' = Starting \ {t} /\ \A s \in Starting' : call'[s] = call[s]
  BY DEF StartRegister, Return, Done, Starting, TypeOK
<1>4. Registered' = Registered \cup {n}
  BY <1>1, <1>2 DEF Registered, NoVM
<1>5. \A m \in Registered' : \/ m = n /\ instances'[m] = call[t].vm
                             \/ m \in Registered /\ instances'[m] = instances[m]
  BY <1>1, <1>2, <1>4 DEF Registered
<1>6. \A s \in Starting' : s \in Starting /\ s # t /\ call'[s].vm = call[s].vm
  BY <1>3
<1>7. IndexUnique'
  BY <1>1, <1>5, <1>6 DEF IndexUnique
<1>8. call[t].vm < nextIndex'
  BY <1>1, <1>2 DEF BelowCounter
<1>9. \A m \in Registered : instances[m] < nextIndex'
  BY <1>2 DEF BelowCounter
<1>10. \A s \in Starting : call[s].vm < nextIndex'
  BY <1>2 DEF BelowCounter
<1>11. \A m \in Registered' : instances'[m] < nextIndex'
  BY <1>5, <1>8, <1>9
<1>12. \A s \in Starting' : call'[s].vm < nextIndex'
  BY <1>6, <1>10
<1> QED BY <1>7, <1>11, <1>12 DEF BelowCounter

(* Every step either reserves an index, registers a VM, or does neither.    *)
LEMMA StepKinds ==
  ASSUME TypeOK, [PoolNext]_poolVars
  PROVE  \/ \E t \in Threads, n \in Names : StartReserve(t, n)
         \/ \E t \in Threads : StartRegister(t)
         \/ \E t \in Threads : NoNewHolder(t)
         \/ UNCHANGED <<instances, nextIndex, call>>
<1>1. ASSUME NEW t \in Threads, StartBoot(t) \/ RestartStop(t) PROVE NoNewHolder(t)
  <2>1. UNCHANGED <<instances, nextIndex>> /\ call[t].pc \in {"boot", "cycle"}
    BY <1>1 DEF StartBoot, RestartStop
  <2>2. CASE StartBoot(t)
    <3>1. call' = [call EXCEPT ![t] = [@ EXCEPT !.pc = "register"]] /\ call[t].pc = "boot"
      BY <2>2 DEF StartBoot
    <3>2. call'[t].vm = call[t].vm /\ \A s \in Threads \ {t} : call'[s] = call[s]
      BY <3>1 DEF TypeOK, Frame
    <3> QED BY <2>1, <3>1, <3>2 DEF NoNewHolder, Starting
  <2>3. CASE RestartStop(t)
    <3>1. call' = [call EXCEPT ![t].pc = "reboot"]
      BY <2>3 DEF RestartStop
    <3>2. call'[t].pc = "reboot" /\ \A s \in Threads \ {t} : call'[s] = call[s]
      BY <3>1 DEF TypeOK, Frame
    <3> QED BY <2>1, <3>2 DEF NoNewHolder, Starting
  <2> QED BY <1>1, <2>2, <2>3
<1>2. ASSUME NEW t \in Threads, StartFail(t) \/ RestartStart(t) PROVE NoNewHolder(t)
  <2>1. /\ \E r : Return(t, r)
        /\ UNCHANGED <<instances, nextIndex>>
    BY <1>2 DEF StartFail, RestartStart
  <2>2. \A n \in Names : instances'[n] \in {instances[n], NoVM}
    BY <2>1
  <2> QED BY <2>1, <2>2, LeavingFrames
<1>3. ASSUME NEW t \in Threads, NEW n \in Names, Stop(t, n) PROVE NoNewHolder(t)
  BY <1>3, PopKeepsHolders DEF Stop
<1>4. ASSUME NEW t \in Threads, StopKill(t) \/ StopAll(t) PROVE NoNewHolder(t)
  <2>1. /\ \E rest : KeepSweeping(t, rest)
        /\ UNCHANGED <<instances, nextIndex>>
    BY <1>4 DEF StopKill, StopAll
  <2>2. \A n \in Names : instances'[n] \in {instances[n], NoVM}
    BY <2>1
  <2> QED BY <2>1, <2>2, LeavingFrames
<1>5. ASSUME NEW t \in Threads, Sweep(t) PROVE NoNewHolder(t)
  <2>1. PICK n \in call[t].todo : Pop(t, n, call[t].todo \ {n})
    BY <1>5 DEF Sweep
  <2>2. n \in Names
    BY DEF TypeOK, Frame
  <2> QED BY <2>1, <2>2, PopKeepsHolders
<1>6. ASSUME NEW t \in Threads, NEW n \in Names, Restart(t, n) \/ Lookup(t, n)
      PROVE NoNewHolder(t)
  <2>1. UNCHANGED <<instances, nextIndex>>
    BY <1>6 DEF Restart, Lookup
  <2>2. \/ \E r : Return(t, r)
        \/ Enter(t, "cycle", n, instances[n], {})
    BY <1>6 DEF Restart, Lookup
  <2>3. \A m \in Names : instances'[m] \in {instances[m], NoVM}
    BY <2>1
  <2> QED BY <2>1, <2>2, <2>3, LeavingFrames
<1>7. ASSUME NEW t \in Threads, Begin(t)
      PROVE (\E n \in Names : StartReserve(t, n)) \/ NoNewHolder(t)
  <2>1. NamesOf[t] \subseteq Names
    BY PoolAssumption
  <2> QED BY <1>7, <2>1, <1>3, <1>4, <1>6 DEF Begin
<1>8. ASSUME NEW t \in Threads, Continue(t) PROVE StartRegister(t) \/ NoNewHolder(t)
  BY <1>8, <1>1, <1>2, <1>4, <1>5 DEF Continue
<1> QED BY <1>7, <1>8 DEF PoolNext, Crash, poolVars

LEMMA NextIndexInv == IndexInv /\ [PoolNext]_poolVars => IndexInv'
<1> SUFFICES ASSUME IndexInv, [PoolNext]_poolVars PROVE IndexUnique' /\ BelowCounter'
  BY NextTypeOK DEF IndexInv
<1> USE DEF IndexInv
<1>1. CASE UNCHANGED <<instances, nextIndex, call>>
  BY <1>1 DEF IndexUnique, BelowCounter, Registered, Starting
<1> QED
  BY <1>1, StepKinds, ReserveKeepsUnique, RegisterKeepsUnique, NoNewHolderKeeps

(* No two VMs of the pool ever share an index, whatever the interleaving   *)
(* of any number of callers (multi_vm.py:113-126, 176-177): the CID, the   *)
(* TAP device and the subnet of every VM are its own.                      *)
THEOREM IndicesNeverShared == PoolSpec => []IndexUnique
<1>1. PoolInit => IndexInv
  BY InitTypeOK DEF IndexInv, PoolInit, IndexUnique, BelowCounter, Registered, Starting, Done
<1>2. IndexInv => IndexUnique
  BY DEF IndexInv
<1> QED BY <1>1, <1>2, NextIndexInv, PTL DEF PoolSpec

-----------------------------------------------------------------------------

LEMMA HoldersFinite ==
  /\ IsFiniteSet(Registered) /\ Cardinality(Registered) \in Nat
  /\ IsFiniteSet(Starting) /\ Cardinality(Starting) \in Nat
  /\ Cardinality(Starting) <= Cardinality(Threads)
  /\ Cardinality(Threads) \in Nat
<1>1. Registered \subseteq Names /\ Starting \subseteq Threads
  BY DEF Registered, Starting
<1> QED BY <1>1, PoolAssumption, FS_Subset, FS_CardinalityType

LEMMA ReserveBound ==
  ASSUME TypeOK, LimitSlack, NEW t \in Threads, NEW n \in Names, StartReserve(t, n)
  PROVE  LimitSlack'
<1>1. CASE NameTaken(n) \/ PoolFull
  <2>1. call' = [call EXCEPT ![t] = Done("value_error")] /\ call[t].pc = "idle"
        /\ instances' = instances
    BY <1>1 DEF StartReserve, Return, Idle
  <2>2. Registered' = Registered /\ Starting' = Starting
    BY <2>1 DEF Registered, Starting, Done, TypeOK
  <2> QED BY <2>2 DEF LimitSlack
<1>2. CASE ~(NameTaken(n) \/ PoolFull)
  <2>1. Cardinality(Registered) < MaxVMs
    BY <1>2, HoldersFinite, PoolAssumption DEF PoolFull
  <2>2. Registered' = Registered
    BY DEF StartReserve, Registered
  <2>3. Cardinality(Starting') <= Cardinality(Threads) /\ Cardinality(Starting') \in Nat
    <3>1. Starting' \subseteq Threads
      BY DEF Starting
    <3> QED BY <3>1, PoolAssumption, FS_Subset, FS_CardinalityType
  <2> QED BY <2>1, <2>2, <2>3, HoldersFinite, PoolAssumption DEF LimitSlack
<1> QED BY <1>1, <1>2

LEMMA RegisterBound ==
  ASSUME TypeOK, LimitSlack, NEW t \in Threads, StartRegister(t)
  PROVE  LimitSlack'
<1>1. call[t].name \in Names /\ t \in Starting
  BY DEF StartRegister, TypeOK, Starting
<1>2. Registered' \subseteq Registered \cup {call[t].name}
  BY <1>1 DEF StartRegister, Registered, TypeOK
<1>3. Starting' = Starting \ {t}
  BY DEF StartRegister, Return, Done, Starting, TypeOK
<1>4. Cardinality(Starting') = Cardinality(Starting) - 1
  BY <1>1, <1>3, HoldersFinite, FS_RemoveElement
<1>5. /\ IsFiniteSet(Registered \cup {call[t].name})
      /\ Cardinality(Registered \cup {call[t].name}) <= Cardinality(Registered) + 1
  <2>1. IsFiniteSet(Registered) /\ Cardinality(Registered) \in Nat
    BY HoldersFinite
  <2>2. /\ IsFiniteSet(Registered \cup {call[t].name})
        /\ Cardinality(Registered \cup {call[t].name})
             \in {Cardinality(Registered), Cardinality(Registered) + 1}
    BY <2>1, FS_AddElement, Zenon
  <2> QED BY <2>1, <2>2
<1>6. Cardinality(Registered') <= Cardinality(Registered) + 1
      /\ Cardinality(Registered') \in Nat
  BY <1>2, <1>5, HoldersFinite, FS_Subset, FS_CardinalityType
<1> QED BY <1>4, <1>6, HoldersFinite, PoolAssumption DEF LimitSlack

LEMMA NoNewHolderBound ==
  ASSUME LimitSlack, NEW t \in Threads, NoNewHolder(t)
  PROVE  LimitSlack'
<1>1. Registered' \subseteq Registered /\ Starting' \subseteq Starting
  BY DEF NoNewHolder, Registered, Starting
<1>2. /\ Cardinality(Registered') <= Cardinality(Registered) /\ Cardinality(Registered') \in Nat
      /\ Cardinality(Starting') <= Cardinality(Starting) /\ Cardinality(Starting') \in Nat
  BY <1>1, HoldersFinite, FS_Subset, FS_CardinalityType
<1> QED BY <1>2, HoldersFinite, PoolAssumption DEF LimitSlack

(* The pool exceeds max_vms by at most the number of concurrent callers    *)
(* less one: the check at multi_vm.py:119 and the registration at 176 are  *)
(* separate lock regions, and this is exactly what that costs.             *)
THEOREM PoolBound == PoolSpec => []LimitSlack
<1>1. PoolInit => LimitSlack
  <2> SUFFICES ASSUME PoolInit PROVE LimitSlack
    OBVIOUS
  <2>1. Registered = {} /\ Starting = {}
    BY DEF PoolInit, Registered, Starting, Done
  <2>2. Cardinality(Threads) >= 1
    BY PoolAssumption, FS_EmptySet, HoldersFinite
  <2> QED BY <2>1, <2>2, FS_EmptySet, HoldersFinite, PoolAssumption DEF LimitSlack
<1>2. TypeOK /\ LimitSlack /\ [PoolNext]_poolVars => LimitSlack'
  <2> SUFFICES ASSUME TypeOK, LimitSlack, [PoolNext]_poolVars PROVE LimitSlack'
    OBVIOUS
  <2>1. CASE UNCHANGED <<instances, nextIndex, call>>
    BY <2>1 DEF LimitSlack, Registered, Starting
  <2> QED BY <2>1, StepKinds, ReserveBound, RegisterBound, NoNewHolderBound
<1> QED BY <1>1, <1>2, PoolTypeCorrect, PTL DEF PoolSpec
=============================================================================
