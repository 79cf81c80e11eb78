------------------------------ MODULE VMManager ------------------------------
(***************************************************************************)
(* bunkervm/vm_manager.py: one VMManager object and the threads that share *)
(* it.  The manager has no lock: the MCP tool sandbox_reset, every POST    *)
(* /api/reset of the dashboard and the atexit handler may be in it at the  *)
(* same time, each between two of its steps.                               *)
(*                                                                         *)
(* A launch identifies one attempt to boot: its Firecracker process and    *)
(* the configuration file written for it.                                  *)
(***************************************************************************)
EXTENDS FiniteSets

CONSTANTS
  Threads,
  Launches,  \* bound: attempts to boot
  None,
  Ops,       \* what the threads call: start, stop, restart, restore
  Network,   \* _network
  WorkPath   \* rootfs_work_path is set: VMs run on a copy of the image

ASSUME ManagerAssumption ==
  /\ IsFiniteSet(Threads) /\ IsFiniteSet(Launches) /\ None \notin Launches
  /\ Ops \subseteq {"start", "stop", "restart", "restore"}
  /\ Network \in BOOLEAN /\ WorkPath \in BOOLEAN

VARIABLES
  process,     \* _process
  live,        \* Firecracker processes that are alive
  sockets,     \* the launch whose API and vsock sockets are on disk, or None
  configs,     \* configuration files on disk
  configPath,  \* _config_path
  disk,        \* the launch the working copy was made for, or None
  rootfsCopy,  \* _rootfs_copy: the working copy, the image, a snapshot's file
  tap,         \* the TAP device exists
  tapCreated,  \* _tap_created
  snapshot,    \* the rootfs of the snapshot to restore is on disk
  call         \* the call of each thread: [op, pc, id, result]

vars == <<process, live, sockets, configs, configPath, disk, rootfsCopy,
          tap, tapCreated, snapshot, call>>

NoCall(result) == [op |-> "none", pc |-> "idle", id |-> None, result |-> result]

Init ==
  /\ process = None /\ live = {} /\ sockets = None
  /\ configs = {} /\ configPath = None
  /\ disk = None /\ rootfsCopy = "none"
  /\ tap = FALSE /\ tapCreated = FALSE
  /\ snapshot = TRUE
  /\ call = [t \in Threads |-> NoCall("none")]

IsRunning == process \in live

(* Bound: a launch id is taken when a call may need one.                   *)
Taken == {call[t].id : t \in Threads} \cup live \cup configs
           \cup {process, sockets, configPath, disk}

At(t, pc)      == call[t].pc = pc
Goto(t, pc)    == call' = [call EXCEPT ![t].pc = pc]
Return(t)      == call' = [call EXCEPT ![t] = [NoCall("ok") EXCEPT !.op = call[t].op]]
Raise(t)       == call' = [call EXCEPT ![t] = [NoCall("error") EXCEPT !.op = call[t].op]]

-----------------------------------------------------------------------------
(* start                                                                   *)

(* Mutant: start does not ask whether a VM is running.                     *)
StartAnyway(t) ==
  /\ At(t, "start") /\ call[t].op # "restore"
  /\ Goto(t, "copy")
  /\ UNCHANGED <<process, live, sockets, configs, configPath, disk, rootfsCopy,
                 tap, tapCreated, snapshot>>

(* is_running: the call returns; _validate raises.                         *)
Start(t) ==
  /\ At(t, "start") /\ call[t].op # "restore"
  /\ \/ IsRunning /\ Return(t)
     \/ ~IsRunning /\ Raise(t)
     \/ ~IsRunning /\ Goto(t, IF Network THEN "network" ELSE "copy")
  /\ UNCHANGED <<process, live, sockets, configs, configPath, disk, rootfsCopy,
                 tap, tapCreated, snapshot>>

(* _setup_network deletes the device and makes it again; any later command *)
(* may fail with the device made and _tap_created not yet set.             *)
SetupNetwork(t) ==
  /\ At(t, "network")
  /\ \/ /\ tap' = TRUE /\ tapCreated' = TRUE
        /\ Goto(t, IF call[t].op = "restore" THEN "launch" ELSE "copy")
     \/ /\ tap' \in BOOLEAN /\ UNCHANGED tapCreated
        /\ Raise(t)
  /\ UNCHANGED <<process, live, sockets, configs, configPath, disk, rootfsCopy, snapshot>>

(* The image is copied to the working path.  A copy that fails leaves a    *)
(* file _rootfs_copy does not know of.                                     *)
CopyRootfs(t) ==
  /\ At(t, "copy") /\ call[t].op # "restore"
  /\ \/ /\ disk' = IF WorkPath THEN call[t].id ELSE disk
        /\ rootfsCopy' = IF WorkPath THEN "work" ELSE "image"
        /\ Goto(t, "config")
     \/ WorkPath /\ disk' = call[t].id /\ UNCHANGED rootfsCopy /\ Raise(t)
  /\ UNCHANGED <<process, live, sockets, configs, configPath, tap, tapCreated, snapshot>>

GenerateConfig(t) ==
  /\ At(t, "config")
  /\ configs' = configs \cup {call[t].id}
  /\ configPath' = call[t].id
  /\ Goto(t, "launch")
  /\ UNCHANGED <<process, live, sockets, disk, rootfsCopy, tap, tapCreated, snapshot>>

(* Stale sockets are unlinked and Firecracker is launched.                 *)
Launched(t, pc) ==
  /\ process' = call[t].id
  /\ live' = live \cup {call[t].id}
  /\ sockets' = call[t].id
  /\ Goto(t, pc)

NotLaunched(t) == sockets' = None /\ UNCHANGED <<process, live>> /\ Raise(t)

Launch(t) ==
  /\ At(t, "launch") /\ call[t].op # "restore"
  /\ Launched(t, "wait") \/ NotLaunched(t)
  /\ UNCHANGED <<configs, configPath, disk, rootfsCopy, tap, tapCreated, snapshot>>

(* After half a second the process must be alive.                          *)
Wait(t) ==
  /\ At(t, "wait")
  /\ IF IsRunning THEN Return(t) ELSE Raise(t)
  /\ UNCHANGED <<process, live, sockets, configs, configPath, disk, rootfsCopy,
                 tap, tapCreated, snapshot>>

-----------------------------------------------------------------------------
(* start_from_snapshot                                                     *)

(* As start, and a snapshot that is not there raises.                      *)
StartFromSnapshot(t) ==
  /\ At(t, "start") /\ call[t].op = "restore"
  /\ \/ IsRunning /\ Return(t)
     \/ ~IsRunning /\ Raise(t)
     \/ ~IsRunning /\ snapshot /\ Goto(t, "copy")
  /\ UNCHANGED <<process, live, sockets, configs, configPath, disk, rootfsCopy,
                 tap, tapCreated, snapshot>>

(* The snapshot's rootfs goes to the path the block device had; without a  *)
(* working path the VM runs on the snapshot's own file.                    *)
RestoreRootfs(t) ==
  /\ At(t, "copy") /\ call[t].op = "restore"
  /\ \/ /\ disk' = IF WorkPath THEN call[t].id ELSE disk
        /\ rootfsCopy' = IF WorkPath THEN "work" ELSE "snapshot"
        /\ Goto(t, IF Network THEN "network" ELSE "launch")
     \/ WorkPath /\ disk' = call[t].id /\ UNCHANGED rootfsCopy /\ Raise(t)
  /\ UNCHANGED <<process, live, sockets, configs, configPath, tap, tapCreated, snapshot>>

(* Launched without a configuration; the process may be gone before its    *)
(* API socket is there.                                                    *)
LaunchEmpty(t) ==
  /\ At(t, "launch") /\ call[t].op = "restore"
  /\ Launched(t, "load") \/ NotLaunched(t)
  /\ UNCHANGED <<configs, configPath, disk, rootfsCopy, tap, tapCreated, snapshot>>

(* Loading and resuming through the API: any of the calls may fail, with   *)
(* the process alive.                                                      *)
LoadSnapshot(t) ==
  /\ At(t, "load")
  /\ (IsRunning /\ Return(t)) \/ Raise(t)
  /\ UNCHANGED <<process, live, sockets, configs, configPath, disk, rootfsCopy,
                 tap, tapCreated, snapshot>>

-----------------------------------------------------------------------------
(* stop                                                                    *)

(* Mutant: a process that ignores SIGTERM is forgotten without a kill.     *)
KillGently(t) ==
  /\ At(t, "stop")
  /\ live' \in {live, live \ {process}}
  /\ Goto(t, "forget")
  /\ UNCHANGED <<process, sockets, configs, configPath, disk, rootfsCopy,
                 tap, tapCreated, snapshot>>

(* terminate, wait five seconds, kill; the process is taken to be dead     *)
(* within the three seconds the code waits after that.                     *)
Kill(t) ==
  /\ At(t, "stop")
  /\ live' = live \ {process}
  /\ Goto(t, "forget")
  /\ UNCHANGED <<process, sockets, configs, configPath, disk, rootfsCopy,
                 tap, tapCreated, snapshot>>

(* Whatever process _process holds by now.                                 *)
Forget(t) ==
  /\ At(t, "forget")
  /\ process' = None
  /\ Goto(t, "clean")
  /\ UNCHANGED <<live, sockets, configs, configPath, disk, rootfsCopy,
                 tap, tapCreated, snapshot>>

(* Mutant: the working copy stays where it is.                             *)
CleanNotCopy(t) ==
  /\ At(t, "clean")
  /\ sockets' = None
  /\ configs' = configs \ {configPath} /\ configPath' = None
  /\ tap' = (tap /\ ~tapCreated) /\ tapCreated' = FALSE
  /\ IF call[t].op = "stop" THEN Return(t) ELSE Goto(t, "start")
  /\ UNCHANGED <<process, live, disk, rootfsCopy, snapshot>>

(* Mutant: stop goes on to start a VM like restart.                        *)
CleanThenStart(t) ==
  /\ At(t, "clean")
  /\ sockets' = None
  /\ configs' = configs \ {configPath} /\ configPath' = None
  /\ Goto(t, "start")
  /\ UNCHANGED <<process, live, disk, rootfsCopy, tap, tapCreated, snapshot>>

(* Sockets, configuration, rootfs copy (unless it is the image) and TAP    *)
(* device go; restart sleeps a second and starts.                          *)
Clean(t) ==
  /\ At(t, "clean")
  /\ sockets' = None
  /\ configs' = configs \ {configPath} /\ configPath' = None
  /\ disk' = IF rootfsCopy = "work" THEN None ELSE disk
  /\ snapshot' = (snapshot /\ rootfsCopy # "snapshot")
  /\ rootfsCopy' = IF rootfsCopy = "image" THEN rootfsCopy ELSE "none"
  /\ tap' = (tap /\ ~tapCreated) /\ tapCreated' = FALSE
  /\ IF call[t].op = "stop" THEN Return(t) ELSE Goto(t, "start")
  /\ UNCHANGED <<process, live>>

-----------------------------------------------------------------------------

(* restore is runtime.Sandbox.restore: stop, then start_from_snapshot.     *)
Begin(t) ==
  /\ At(t, "idle")
  /\ \E op \in Ops, id \in (Launches \ Taken) \cup {None} :
       /\ (id = None) = (op = "stop")
       /\ call' = [call EXCEPT ![t] = [op |-> op, id |-> id, result |-> "none",
                                       pc |-> IF op = "start" THEN "start" ELSE "stop"]]
  /\ UNCHANGED <<process, live, sockets, configs, configPath, disk, rootfsCopy,
                 tap, tapCreated, snapshot>>

(* Firecracker exits by itself.                                            *)
Crash(l) ==
  /\ l \in live
  /\ live' = live \ {l}
  /\ UNCHANGED <<process, sockets, configs, configPath, disk, rootfsCopy,
                 tap, tapCreated, snapshot, call>>

Step(t) ==
  \/ Start(t) \/ SetupNetwork(t) \/ CopyRootfs(t) \/ GenerateConfig(t)
  \/ Launch(t) \/ Wait(t)
  \/ StartFromSnapshot(t) \/ RestoreRootfs(t) \/ LaunchEmpty(t) \/ LoadSnapshot(t)
  \/ Kill(t) \/ Forget(t) \/ Clean(t)

Next == (\E t \in Threads : Begin(t) \/ Step(t)) \/ (\E l \in live : Crash(l))

Spec == Init /\ [][Next]_vars

-----------------------------------------------------------------------------
(* Properties                                                              *)

PCs == {"idle", "start", "network", "copy", "config", "launch", "wait", "load",
        "stop", "forget", "clean"}

(* Type invariant of the manager and its callers.                          *)
TypeOK ==
  /\ {process, sockets, configPath, disk} \subseteq Launches \cup {None}
  /\ live \cup configs \subseteq Launches
  /\ rootfsCopy \in {"none", "work", "image", "snapshot"}
  /\ tap \in BOOLEAN /\ tapCreated \in BOOLEAN /\ snapshot \in BOOLEAN
  /\ call \in [Threads -> [op : Ops \cup {"none"}, pc : PCs, id : Launches \cup {None},
                           result : {"none", "ok", "error"}]]

Quiet == \A t \in Threads : At(t, "idle")
JustStopped(t) == At(t, "idle") /\ call[t].op = "stop"

(* mcp_server.py:531: "Destroys the current VM and boots a fresh one from  *)
(* the base rootfs image.": the manager never has a Firecracker process    *)
(* running that it does not know of and so can never stop.                 *)
OneVM == live \subseteq {process}

(* A running VM keeps its sockets and its working copy until it is being   *)
(* stopped (vm_manager.py:92-101, 252-274).                                *)
RunningVMEquipped ==
  Quiet /\ IsRunning => sockets = process /\ (WorkPath => disk = process)

(* After stop, however the calls before it failed, no VM runs, its sockets *)
(* are gone, and nothing the manager still remembers is on disk.           *)
StopForgets ==
  Quiet /\ (\E t \in Threads : JustStopped(t)) =>
    /\ live = {} /\ sockets = None
    /\ configPath = None /\ ~tapCreated
    /\ rootfsCopy # "work"

=============================================================================
