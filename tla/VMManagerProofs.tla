--------------------------- MODULE VMManagerProofs ---------------------------
(***************************************************************************)
(* Theorems about VMManager for any number of boots, crashes and failing   *)
(* steps, when one thread at a time uses the manager.  (With two, OneVM    *)
(* does not hold: both may launch.)                                        *)
(*                                                                         *)
(* OneVM is not inductive by itself: launching overwrites _process, which  *)
(* is harmless only because no process lives from the check in start, or   *)
(* the kill in stop, to the launch.  NoVMBetween says so.  Equipped gives  *)
(* RunningVMEquipped at every step instead of between calls only.          *)
(***************************************************************************)
EXTENDS VMManager, TLAPS

OneThread == \A s, t \in Threads : s = t

StartPCs == {"network", "copy", "config", "launch", "wait", "load"}

(* A call on its way to a boot holds a launch id; stop never boots.        *)
IdInv ==
  \A t \in Threads :
    /\ call[t].pc # "idle" => call[t].op \in Ops
    /\ call[t].op # "stop" /\ call[t].pc # "idle" => call[t].id \in Launches
    /\ call[t].pc \in StartPCs \cup {"start"} => call[t].op # "stop"

TypeInv == TypeOK /\ IdInv

(* Between the check or the kill and the launch no process is alive.       *)
NoVMBetween ==
  \A t \in Threads :
    call[t].pc \in {"network", "copy", "config", "launch", "forget", "clean"} => live = {}

Equipped == IsRunning => sockets = process /\ (WorkPath => disk = process)

(* The working copy is the one made for the launch.                        *)
CopyMade ==
  \A t \in Threads :
    (call[t].pc \in {"config", "launch"} \/ (call[t].pc = "network" /\ call[t].op = "restore"))
      => (WorkPath => disk = call[t].id)

Stopped(t) == call[t].pc = "idle" /\ call[t].op = "stop" =>
  /\ live = {} /\ sockets = None
  /\ configPath = None /\ ~tapCreated
  /\ rootfsCopy # "work"

Inv ==
  /\ TypeInv
  /\ OneVM /\ NoVMBetween
  /\ Equipped /\ CopyMade
  /\ \A t \in Threads : Stopped(t)

-----------------------------------------------------------------------------
(* Type correctness needs no assumption on the number of threads.          *)

Frame == [op : Ops \cup {"none"}, pc : PCs, id : Launches \cup {None},
          result : {"none", "ok", "error"}]

LEMMA InitTypeInv == Init => TypeInv
<1> SUFFICES ASSUME Init PROVE TypeInv
  OBVIOUS
<1>1. call \in [Threads -> Frame] /\ IdInv
  BY DEF Init, NoCall, Frame, PCs, IdInv, StartPCs
<1> QED BY <1>1 DEF Init, TypeInv, TypeOK, Frame

(* Moving on, returning and raising keep the frames typed.                 *)
LEMMA GotoFrames ==
  ASSUME TypeInv, NEW t \in Threads, NEW pc \in PCs \ {"idle"}, call[t].pc # "idle",
         pc \in StartPCs \cup {"start"} => call[t].op # "stop",
         Goto(t, pc)
  PROVE  call' \in [Threads -> Frame] /\ IdInv'
<1>1. call' \in [Threads -> Frame]
  BY DEF TypeInv, TypeOK, Goto, Frame
<1>2. ASSUME NEW s \in Threads, s # t PROVE call'[s] = call[s]
  BY <1>2 DEF TypeInv, TypeOK, Goto
<1>3. /\ call'[t].pc = pc /\ call'[t].op = call[t].op /\ call'[t].id = call[t].id
  BY DEF TypeInv, TypeOK, Goto
<1> QED BY <1>1, <1>2, <1>3 DEF TypeInv, IdInv

LEMMA EndFrames ==
  ASSUME TypeInv, NEW t \in Threads, Return(t) \/ Raise(t)
  PROVE  call' \in [Threads -> Frame] /\ IdInv'
<1>1. call' \in [Threads -> Frame]
  BY DEF TypeInv, TypeOK, Return, Raise, NoCall, Frame, PCs
<1>2. ASSUME NEW s \in Threads, s # t PROVE call'[s] = call[s]
  BY <1>2 DEF TypeInv, TypeOK, Return, Raise
<1>3. call'[t].pc = "idle"
  BY DEF TypeInv, TypeOK, Return, Raise, NoCall
<1> QED BY <1>1, <1>2, <1>3 DEF TypeInv, IdInv, StartPCs

LEMMA NextTypeInv == TypeInv /\ [Next]_vars => TypeInv'
<1> SUFFICES ASSUME TypeInv, [Next]_vars PROVE TypeInv'
  OBVIOUS
<1> USE DEF TypeInv
<1>p. /\ {"start", "network", "copy", "config", "launch", "wait", "load", "stop", "forget", "clean"}
           \subseteq PCs \ {"idle"}
      /\ StartPCs = {"network", "copy", "config", "launch", "wait", "load"}
  BY DEF PCs, StartPCs
<1>i. ASSUME NEW t \in Threads, call[t].pc \in StartPCs \cup {"start"}
      PROVE  call[t].op # "stop" /\ call[t].pc # "idle" /\ call[t].id \in Launches
  BY <1>i DEF IdInv, StartPCs
<1>1. ASSUME NEW t \in Threads, Begin(t) PROVE TypeInv'
  <2>1. PICK op \in Ops, id \in (Launches \ Taken) \cup {None} :
          /\ (id = None) = (op = "stop")
          /\ call' = [call EXCEPT ![t] = [op |-> op, id |-> id, result |-> "none",
                                          pc |-> IF op = "start" THEN "start" ELSE "stop"]]
    BY <1>1 DEF Begin
  <2>2. call' \in [Threads -> Frame]
    BY <2>1 DEF TypeOK, Frame, PCs
  <2>3. call'[t].op = op /\ call'[t].id = id
        /\ call'[t].pc = (IF op = "start" THEN "start" ELSE "stop")
    BY <2>1 DEF TypeOK
  <2>4. ASSUME NEW s \in Threads, s # t PROVE call'[s] = call[s]
    BY <2>1, <2>4 DEF TypeOK
  <2>5. IdInv'
    BY <2>1, <2>3, <2>4 DEF IdInv, StartPCs
  <2> QED BY <1>1, <2>2, <2>5 DEF Begin, TypeOK, Frame
<1>2. ASSUME NEW t \in Threads, Start(t) \/ StartFromSnapshot(t) PROVE TypeInv'
  <2>1. call[t].pc = "start" /\ UNCHANGED <<process, live, sockets, configs, configPath,
                                             disk, rootfsCopy, tap, tapCreated, snapshot>>
    BY <1>2 DEF Start, StartFromSnapshot, At
  <2>2. Return(t) \/ Raise(t) \/ Goto(t, "network") \/ Goto(t, "copy")
    BY <1>2 DEF Start, StartFromSnapshot
  <2>3. call' \in [Threads -> Frame] /\ IdInv'
    BY <2>1, <2>2, <1>p, <1>i, GotoFrames, EndFrames
  <2> QED BY <2>1, <2>3 DEF TypeOK, Frame
<1>3. ASSUME NEW t \in Threads, SetupNetwork(t) PROVE TypeInv'
  <2>1. call[t].pc = "network" /\ UNCHANGED <<process, live, sockets, configs, configPath,
                                               disk, rootfsCopy, snapshot>>
        /\ tap' \in BOOLEAN /\ tapCreated' \in BOOLEAN
    BY <1>3 DEF SetupNetwork, At, TypeOK
  <2>2. Raise(t) \/ Goto(t, "launch") \/ Goto(t, "copy")
    BY <1>3 DEF SetupNetwork
  <2>3. call' \in [Threads -> Frame] /\ IdInv'
    BY <2>1, <2>2, <1>p, <1>i, GotoFrames, EndFrames
  <2> QED BY <2>1, <2>3 DEF TypeOK, Frame
<1>4. ASSUME NEW t \in Threads, CopyRootfs(t) \/ RestoreRootfs(t) PROVE TypeInv'
  <2>1. call[t].pc = "copy" /\ UNCHANGED <<process, live, sockets, configs, configPath,
                                            tap, tapCreated, snapshot>>
        /\ disk' \in {disk, call[t].id}
        /\ rootfsCopy' \in {rootfsCopy, "work", "snapshot", "image"}
    BY <1>4 DEF CopyRootfs, RestoreRootfs, At
  <2>2. Raise(t) \/ Goto(t, "config") \/ Goto(t, "network") \/ Goto(t, "launch")
    BY <1>4 DEF CopyRootfs, RestoreRootfs
  <2>3. call' \in [Threads -> Frame] /\ IdInv'
    BY <2>1, <2>2, <1>p, <1>i, GotoFrames, EndFrames
  <2>4. call[t].id \in Launches
    BY <2>1, <1>i DEF StartPCs
  <2> QED BY <2>1, <2>3, <2>4 DEF TypeOK, Frame
<1>5. ASSUME NEW t \in Threads, GenerateConfig(t) PROVE TypeInv'
  <2>1. call[t].pc = "config" /\ Goto(t, "launch")
    BY <1>5 DEF GenerateConfig, At
  <2>2. call' \in [Threads -> Frame] /\ IdInv' /\ call[t].id \in Launches
    BY <2>1, <1>p, <1>i, GotoFrames
  <2> QED BY <1>5, <2>2 DEF TypeOK, Frame, GenerateConfig
<1>6. ASSUME NEW t \in Threads, Launch(t) \/ LaunchEmpty(t) PROVE TypeInv'
  <2> USE DEF Launch, LaunchEmpty, Launched, NotLaunched
  <2>1. call[t].pc = "launch" /\ (Goto(t, "wait") \/ Goto(t, "load") \/ Raise(t))
    BY <1>6 DEF At
  <2>2. call' \in [Threads -> Frame] /\ IdInv' /\ call[t].id \in Launches
    BY <2>1, <1>p, <1>i, GotoFrames, EndFrames
  <2> QED BY <1>6, <2>2 DEF TypeOK, Frame
<1>7. ASSUME NEW t \in Threads, Wait(t) \/ LoadSnapshot(t) PROVE TypeInv'
  <2>1. Return(t) \/ Raise(t)
    BY <1>7 DEF Wait, LoadSnapshot
  <2>2. call' \in [Threads -> Frame] /\ IdInv'
    BY <2>1, EndFrames
  <2> QED BY <1>7, <2>2 DEF TypeOK, Frame, Wait, LoadSnapshot
<1>8. ASSUME NEW t \in Threads, Kill(t) PROVE TypeInv'
  <2>1. call[t].pc = "stop" /\ Goto(t, "forget")
    BY <1>8 DEF Kill, At
  <2>2. call' \in [Threads -> Frame] /\ IdInv'
    BY <2>1, <1>p, GotoFrames
  <2> QED BY <1>8, <2>2 DEF TypeOK, Frame, Kill
<1>9. ASSUME NEW t \in Threads, Forget(t) PROVE TypeInv'
  <2>1. call[t].pc = "forget" /\ Goto(t, "clean")
    BY <1>9 DEF Forget, At
  <2>2. call' \in [Threads -> Frame] /\ IdInv'
    BY <2>1, <1>p, GotoFrames
  <2> QED BY <1>9, <2>2 DEF TypeOK, Frame, Forget
<1>10. ASSUME NEW t \in Threads, Clean(t) PROVE TypeInv'
  <2>1. /\ call[t].pc = "clean"
        /\ \/ call[t].op = "stop" /\ Return(t)
           \/ call[t].op # "stop" /\ Goto(t, "start")
    BY <1>10 DEF Clean, At
  <2>2. call' \in [Threads -> Frame] /\ IdInv'
    BY <2>1, <1>p, GotoFrames, EndFrames
  <2>3. /\ process' = process /\ live' = live /\ sockets' = None
        /\ configs' \subseteq configs /\ configPath' = None
        /\ disk' \in {disk, None} /\ rootfsCopy' \in {rootfsCopy, "none"}
        /\ tap' \in BOOLEAN /\ tapCreated' = FALSE /\ snapshot' \in BOOLEAN
    BY <1>10 DEF Clean, TypeOK
  <2> QED BY <2>2, <2>3 DEF TypeOK, Frame
<1>11. ASSUME NEW l \in live, Crash(l) PROVE TypeInv'
  BY <1>11 DEF Crash, TypeOK, IdInv
<1>12. CASE UNCHANGED vars
  BY <1>12 DEF vars, TypeOK, IdInv
<1> QED
  BY <1>1, <1>2, <1>3, <1>4, <1>5, <1>6, <1>7, <1>8, <1>9, <1>10, <1>11, <1>12
  DEF Next, Step

(* The manager's fields stay well formed, whatever its threads do.         *)
THEOREM ManagerTypeCorrect == Spec => []TypeOK
<1>1. TypeInv => TypeOK
  BY DEF TypeInv
<1> QED BY <1>1, InitTypeInv, NextTypeInv, PTL DEF Spec

-----------------------------------------------------------------------------
(* One thread.                                                             *)

LEMMA FrameMoves ==
  ASSUME TypeInv, NEW t \in Threads
  PROVE  /\ \A pc : Goto(t, pc) => /\ call'[t].pc = pc /\ call'[t].op = call[t].op
                                   /\ call'[t].id = call[t].id
         /\ Return(t) \/ Raise(t) => call'[t].pc = "idle" /\ call'[t].op = call[t].op
BY DEF TypeInv, TypeOK, Goto, Return, Raise, NoCall

LEMMA InitInv == Init => Inv
BY InitTypeInv DEF Init, Inv, OneVM, NoVMBetween, Equipped, IsRunning, CopyMade, Stopped, NoCall

LEMMA NextInv ==
  ASSUME OneThread, Inv, [Next]_vars
  PROVE  Inv'
<1>t. TypeInv /\ TypeInv'
  BY NextTypeInv DEF Inv
<1>0. ASSUME NEW t \in Threads, NEW s \in Threads PROVE s = t
  BY DEF OneThread
<1>1. ASSUME NEW t \in Threads, Begin(t) PROVE Inv'
  <2>1. call'[t].pc \in {"start", "stop"}
    BY <1>1, <1>t DEF Begin, TypeInv, TypeOK
  <2>2. UNCHANGED <<process, live, sockets, configs, configPath, disk, rootfsCopy,
                    tap, tapCreated, snapshot>>
    BY <1>1 DEF Begin
  <2> QED BY <2>1, <2>2, <1>0, <1>t
    DEF Inv, OneVM, NoVMBetween, Equipped, IsRunning, CopyMade, Stopped
<1>2. ASSUME NEW t \in Threads, Start(t) \/ StartFromSnapshot(t) PROVE Inv'
  <2>1. UNCHANGED <<process, live, sockets, disk>> /\ call[t].pc = "start" /\ call[t].op # "stop"
    BY <1>2, <1>t DEF Start, StartFromSnapshot, At, TypeInv, IdInv
  <2>2. \/ call'[t].pc = "idle" /\ call'[t].op # "stop"
        \/ /\ live = {}
           /\ \/ call'[t].pc = "copy"
              \/ call'[t].pc = "network" /\ call'[t].op # "restore"
    <3>1. CASE Return(t) \/ Raise(t)
      BY <3>1, <2>1, <1>t, FrameMoves
    <3>2. CASE ~IsRunning /\ (Goto(t, "copy") \/ (Goto(t, "network") /\ call[t].op # "restore"))
      BY <3>2, <1>t, FrameMoves DEF Inv, OneVM, IsRunning
    <3> QED BY <3>1, <3>2, <1>2 DEF Start, StartFromSnapshot
  <2> QED BY <2>1, <2>2, <1>0, <1>t
    DEF Inv, OneVM, NoVMBetween, Equipped, IsRunning, CopyMade, Stopped
<1>3. ASSUME NEW t \in Threads, SetupNetwork(t) PROVE Inv'
  <2>1. /\ UNCHANGED <<process, live, sockets, disk>>
        /\ call[t].pc = "network" /\ call[t].op # "stop" /\ live = {}
    BY <1>3, <1>t DEF SetupNetwork, At, TypeInv, IdInv, StartPCs, Inv, NoVMBetween
  <2>2. \/ call'[t].pc = "idle" /\ call'[t].op # "stop"
        \/ call'[t].pc = "copy"
        \/ call'[t].pc = "launch" /\ call[t].op = "restore" /\ call'[t].id = call[t].id
    BY <1>3, <2>1, <1>t, FrameMoves DEF SetupNetwork
  <2> QED BY <2>1, <2>2, <1>0, <1>t
    DEF Inv, OneVM, NoVMBetween, Equipped, IsRunning, CopyMade, Stopped
<1>4. ASSUME NEW t \in Threads, CopyRootfs(t) \/ RestoreRootfs(t) PROVE Inv'
  <2>1. /\ UNCHANGED <<process, live, sockets>>
        /\ call[t].pc = "copy" /\ call[t].op # "stop" /\ live = {}
    BY <1>4, <1>t DEF CopyRootfs, RestoreRootfs, At, TypeInv, IdInv, StartPCs, Inv, NoVMBetween
  <2>2. \/ call'[t].pc = "idle" /\ call'[t].op # "stop"
        \/ /\ call'[t].pc \in {"config", "network", "launch"}
           /\ WorkPath => disk' = call'[t].id
    <3>1. CASE Raise(t)
      BY <3>1, <2>1, <1>t, FrameMoves
    <3>2. CASE /\ disk' = IF WorkPath THEN call[t].id ELSE disk
               /\ Goto(t, "config") \/ Goto(t, "network") \/ Goto(t, "launch")
      BY <3>2, <1>t, FrameMoves
    <3> QED BY <3>1, <3>2, <1>4 DEF CopyRootfs, RestoreRootfs
  <2> QED BY <2>1, <2>2, <1>0, <1>t
    DEF Inv, OneVM, NoVMBetween, Equipped, IsRunning, CopyMade, Stopped
<1>5. ASSUME NEW t \in Threads, GenerateConfig(t) PROVE Inv'
  <2>1. /\ UNCHANGED <<process, live, sockets, disk>>
        /\ call[t].pc = "config" /\ live = {}
        /\ call'[t].pc = "launch" /\ call'[t].id = call[t].id
    BY <1>5, <1>t, FrameMoves DEF GenerateConfig, At, Inv, NoVMBetween
  <2> QED BY <2>1, <1>0, <1>t
    DEF Inv, OneVM, NoVMBetween, Equipped, IsRunning, CopyMade, Stopped
<1>6. ASSUME NEW t \in Threads, Launch(t) \/ LaunchEmpty(t) PROVE Inv'
  <2> USE DEF Launch, LaunchEmpty, Launched, NotLaunched
  <2>1. /\ call[t].pc = "launch" /\ call[t].op # "stop" /\ live = {} /\ UNCHANGED disk
        /\ WorkPath => disk = call[t].id
    BY <1>6, <1>t DEF At, TypeInv, IdInv, StartPCs, Inv, NoVMBetween, CopyMade
  <2>2. \/ /\ process' = call[t].id /\ live' = {call[t].id} /\ sockets' = call[t].id
           /\ call'[t].pc \in {"wait", "load"}
        \/ /\ UNCHANGED <<process, live>>
           /\ call'[t].pc = "idle" /\ call'[t].op # "stop"
    BY <1>6, <2>1, <1>t, FrameMoves
  <2> QED BY <2>1, <2>2, <1>0, <1>t
    DEF Inv, OneVM, NoVMBetween, Equipped, IsRunning, CopyMade, Stopped
<1>7. ASSUME NEW t \in Threads, Wait(t) \/ LoadSnapshot(t) PROVE Inv'
  <2>1. /\ UNCHANGED <<process, live, sockets, disk>>
        /\ call'[t].pc = "idle" /\ call'[t].op # "stop"
    BY <1>7, <1>t, FrameMoves DEF Wait, LoadSnapshot, At, TypeInv, IdInv, StartPCs
  <2> QED BY <2>1, <1>0, <1>t
    DEF Inv, OneVM, NoVMBetween, Equipped, IsRunning, CopyMade, Stopped
<1>8. ASSUME NEW t \in Threads, Kill(t) PROVE Inv'
  <2>1. live' = {} /\ call'[t].pc = "forget"
    BY <1>8, <1>t, FrameMoves DEF Kill, Inv, OneVM
  <2> QED BY <2>1, <1>0, <1>t
    DEF Inv, OneVM, NoVMBetween, Equipped, IsRunning, CopyMade, Stopped
<1>9. ASSUME NEW t \in Threads, Forget(t) PROVE Inv'
  <2>1. live = {} /\ live' = {} /\ call'[t].pc = "clean"
    BY <1>9, <1>t, FrameMoves DEF Forget, At, Inv, NoVMBetween
  <2> QED BY <2>1, <1>0, <1>t
    DEF Inv, OneVM, NoVMBetween, Equipped, IsRunning, CopyMade, Stopped
<1>10. ASSUME NEW t \in Threads, Clean(t) PROVE Inv'
  <2>1. live = {} /\ live' = {} /\ call'[t].pc \in {"idle", "start"}
    BY <1>10, <1>t, FrameMoves DEF Clean, At, Inv, NoVMBetween
  <2>2. sockets' = None /\ configPath' = None /\ tapCreated' = FALSE /\ rootfsCopy' # "work"
    BY <1>10 DEF Clean
  <2> QED BY <2>1, <2>2, <1>0, <1>t
    DEF Inv, OneVM, NoVMBetween, Equipped, IsRunning, CopyMade, Stopped
<1>11. ASSUME NEW l \in live, Crash(l) PROVE Inv'
  BY <1>11, <1>t DEF Crash, Inv, OneVM, NoVMBetween, Equipped, IsRunning, CopyMade, Stopped
<1>12. CASE UNCHANGED vars
  BY <1>12, <1>t DEF vars, Inv, OneVM, NoVMBetween, Equipped, IsRunning, CopyMade, Stopped
<1> QED
  BY <1>1, <1>2, <1>3, <1>4, <1>5, <1>6, <1>7, <1>8, <1>9, <1>10, <1>11, <1>12
  DEF Next, Step

LEMMA InvHolds == ASSUME OneThread PROVE Spec => []Inv
<1>1. Inv /\ [Next]_vars => Inv'
  BY NextInv
<1> QED BY <1>1, InitInv, PTL DEF Spec

(* However start, stop, restart and restore follow each other and fail, no *)
(* Firecracker process is ever lost, if one thread calls them.             *)
THEOREM NoProcessLost == ASSUME OneThread PROVE Spec => []OneVM
<1>1. Inv => OneVM
  BY DEF Inv
<1> QED BY <1>1, InvHolds, PTL

(* A VM that runs between two calls has its own sockets and working copy.  *)
THEOREM RunningKeepsFiles == ASSUME OneThread PROVE Spec => []RunningVMEquipped
<1>1. Inv => RunningVMEquipped
  BY DEF Inv, Equipped, RunningVMEquipped
<1> QED BY <1>1, InvHolds, PTL

(* After stop nothing the manager remembers is left.                       *)
THEOREM StopForgetsAll == ASSUME OneThread PROVE Spec => []StopForgets
<1>1. Inv => StopForgets
  BY DEF Inv, Stopped, StopForgets, JustStopped, At
<1> QED BY <1>1, InvHolds, PTL
=============================================================================
