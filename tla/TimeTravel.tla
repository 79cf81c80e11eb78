------------------------------ MODULE TimeTravel ------------------------------
(***************************************************************************)
(* bunkervm/runtime.py, class Sandbox: start, run, exec, checkpoint,       *)
(* restore and stop, with the snapshots of its three backends: a VM of its *)
(* own (snapshot.py), a directory (local_backend.py), and the engine,      *)
(* which has none.                                                         *)
(*                                                                         *)
(* The state of a guest is the commands whose effect is in it: mem, what   *)
(* lives in the Python namespace and in memory, and disk.  Snapshots are   *)
(* shared by all sandboxes of a user: a snapshot's name is its directory.  *)
(* A checkpoint has one field the code does not keep: was, the state of    *)
(* the guest at the time.  A call that changes nothing (start when started,*)
(* run without a guest, restore of an unknown step) is left out.           *)
(***************************************************************************)
EXTENDS Integers, Sequences, FiniteSets

CONSTANTS
  Sandboxes,   \* Sandbox objects, each used by one thread
  Backends,    \* of direct, engine and local, those a start may use
  Record,      \* the record argument
  Python,      \* commands that are Python code
  Shell,       \* commands that are not
  UserNames,   \* names passed to checkpoint()
  None,
  Failures,    \* starts and snapshots fail
  MaxCommands, \* bound: commands in the state of a guest
  MaxSteps,    \* bound: the counter of a sandbox
  MaxStarts    \* bound: starts of a sandbox

Commands == Python \cup Shell
States   == Seq(Commands)

(* Names of snapshots.  dir: a directory of the local backend, which are   *)
(* kept apart.                                                             *)
Names ==
  [kind : {"step", "cp", "user"}, of : UserNames \cup {None} \cup (Sandboxes \X Nat),
   n : Nat, dir : BOOLEAN]

ASSUME TimeTravelAssumption ==
  /\ Backends \subseteq {"direct", "engine", "local"}
  /\ Record \in BOOLEAN /\ Failures \in BOOLEAN
  /\ Python \cap Shell = {} /\ None \notin Commands \cup UserNames \cup Backends \cup States \cup Names
  /\ MaxCommands \in Nat /\ MaxSteps \in Nat /\ MaxStarts \in Nat

VARIABLES
  client,       \* _client is set
  backend,      \* the backend of the last start, or None
  guest,        \* of each sandbox: [up, runner, mem, disk]
  record,       \* _record
  session,      \* _session_id: the number of the start that made it, or None
  starts,       \* starts so far
  checkpoints,  \* _checkpoints
  counter,      \* _step_counter
  store         \* snapshots on disk: name -> [mem, disk, meta]

vars == <<client, backend, guest, record, session, starts, checkpoints, counter, store>>

NoGuest  == [up |-> "off", runner |-> FALSE, mem |-> <<>>, disk |-> <<>>]
Fresh    == [up |-> "up", runner |-> TRUE, mem |-> <<>>, disk |-> <<>>]
Missing  == [mem |-> None, disk |-> None, meta |-> FALSE]

Init ==
  /\ client = [s \in Sandboxes |-> FALSE]
  /\ backend = [s \in Sandboxes |-> None]
  /\ guest = [s \in Sandboxes |-> NoGuest]
  /\ record = [s \in Sandboxes |-> Record]
  /\ session = [s \in Sandboxes |-> None]
  /\ starts = [s \in Sandboxes |-> 0]
  /\ checkpoints = [s \in Sandboxes |-> <<>>]
  /\ counter = [s \in Sandboxes |-> 0]
  /\ store = << >>

-----------------------------------------------------------------------------
(* start and stop                                                          *)

(* "local" is asked for when the sandbox is made; otherwise every start    *)
(* uses the engine if it finds one and else a VM of its own.               *)
Chooses(s, b) ==
  /\ backend[s] # None => (backend[s] = "local") = (b = "local")
  /\ backend' = [backend EXCEPT ![s] = b]

NewSession(s) ==
  /\ ~client[s] /\ starts[s] < MaxStarts
  /\ starts' = [starts EXCEPT ![s] = @ + 1]
  /\ IF record[s]
     THEN /\ session' = [session EXCEPT ![s] = <<s, starts[s] + 1>>]
          /\ checkpoints' = [checkpoints EXCEPT ![s] = <<>>]
          /\ counter' = [counter EXCEPT ![s] = 0]
     ELSE UNCHANGED <<session, checkpoints, counter>>

Start(s, b) ==
  /\ NewSession(s) /\ Chooses(s, b)
  /\ client' = [client EXCEPT ![s] = TRUE]
  /\ guest' = [guest EXCEPT ![s] = Fresh]
  /\ UNCHANGED <<record, store>>

(* start raises: before there is a client; because a VM is not healthy, and*)
(* it is stopped but the client stays; or because the runner cannot be     *)
(* written, and everything stays.                                          *)
StartFails(s, b) ==
  /\ Failures
  /\ NewSession(s) /\ Chooses(s, b)
  /\ \/ UNCHANGED <<client, guest>>
     \/ /\ b = "direct"
        /\ client' = [client EXCEPT ![s] = TRUE]
        /\ UNCHANGED guest
     \/ /\ client' = [client EXCEPT ![s] = TRUE]
        /\ guest' = [guest EXCEPT ![s] = [Fresh EXCEPT !.runner = FALSE]]
  /\ UNCHANGED <<record, store>>

(* Mutant: the guest's files and namespace stay.                           *)
StopKeepsState(s) ==
  /\ client[s]
  /\ record' = [record EXCEPT ![s] = @ /\ checkpoints[s] = <<>>]
  /\ client' = [client EXCEPT ![s] = guest[s].up = "off"]
  /\ guest' = [guest EXCEPT ![s].up = "off"]
  /\ UNCHANGED <<backend, session, starts, checkpoints, counter, store>>

(* The session is saved and recording ends.  A sandbox without a guest     *)
(* keeps its client.                                                       *)
Stop(s) ==
  /\ client[s]
  /\ record' = [record EXCEPT ![s] = @ /\ checkpoints[s] = <<>>]
  /\ client' = [client EXCEPT ![s] = guest[s].up = "off"]
  /\ guest' = [guest EXCEPT ![s] = NoGuest]
  /\ UNCHANGED <<backend, session, starts, checkpoints, counter, store>>

-----------------------------------------------------------------------------
(* Snapshots: SnapshotManager.create and LocalClient.create_snapshot       *)

Entry(name)     == IF name \in DOMAIN store THEN store[name] ELSE Missing
Stored(name, e) == [n \in DOMAIN store \cup {name} |-> IF n = name THEN e ELSE store[n]]

(* SnapshotManager.get wants all files, restore_snapshot the directory.    *)
Restorable(name) ==
  LET e == Entry(name)
  IN  e.disk # None /\ (name.dir \/ (e.mem # None /\ e.meta))

(* Firecracker writes the memory, the rootfs is copied, then meta.json is  *)
(* written; all of it while the VM is paused.  Of a directory, the old     *)
(* snapshot is removed and a copy made.                                    *)
Snapshot(g) == [mem |-> g.mem, disk |-> g.disk, meta |-> TRUE]

(* Mutant: a snapshot that exists is not replaced.                         *)
SaveOnce(g, name) == store' = IF Restorable(name) THEN store ELSE Stored(name, Snapshot(g))

Save(g, name) == store' = Stored(name, Snapshot(g))

(* What a snapshot that failed left: of a VM, the first none, one or two of*)
(* its files are new; of a directory, nothing, a copy that lacks files, for*)
(* which an empty one stands here, or a copy without its meta.json.        *)
Torn(g, name) ==
  LET old == Entry(name) IN
  IF ~name.dir
  THEN {old, [old EXCEPT !.mem = g.mem], [old EXCEPT !.mem = g.mem, !.disk = g.disk]}
  ELSE {Missing, [mem |-> <<>>, disk |-> <<>>, meta |-> FALSE],
        [Snapshot(g) EXCEPT !.meta = FALSE]}

SaveFails(g, name) == \E e \in Torn(g, name) : store' = Stored(name, e)

(* The VM was paused for the snapshot and only a success resumes it.       *)
AfterFailure(s, g) ==
  IF backend[s] = "direct" THEN {[g EXCEPT !.up = up] : up \in {g.up, "paused"}} ELSE {g}

-----------------------------------------------------------------------------
(* run, exec and checkpoint                                                *)

Name(s, kind, of, n) == [kind |-> kind, of |-> of, n |-> n, dir |-> backend[s] = "local"]

StepName(s)   == Name(s, "step", session[s], counter[s] + 1)
ManualName(s) == Name(s, "cp", session[s], counter[s] + 1)
NamedBy(s, n) == Name(s, "user", n, 0)

(* Python runs in the runner, which keeps the namespace.                   *)
Effect(g, c) ==
  IF c \in Shell THEN [g EXCEPT !.disk = Append(@, c)]
  ELSE IF g.runner THEN [g EXCEPT !.mem = Append(@, c), !.disk = Append(@, c)]
  ELSE g

CanRun(s) == client[s] /\ guest[s].up = "up" /\ Len(guest[s].disk) < MaxCommands
               /\ counter[s] < MaxSteps

Checkpointed(s, c, name, g) ==
  checkpoints' = [checkpoints EXCEPT ![s] =
    Append(@, [step |-> counter[s] + 1, command |-> c, snapshot |-> name,
               was |-> [mem |-> g.mem, disk |-> g.disk]])]

Count(s) == counter' = [counter EXCEPT ![s] = @ + 1]

RunUnrecorded(s, c) ==
  /\ CanRun(s) /\ ~record[s]
  /\ guest' = [guest EXCEPT ![s] = Effect(@, c)]
  /\ UNCHANGED <<client, backend, record, session, starts, checkpoints, counter, store>>

(* The command has its effect, then _auto_checkpoint records it, with a    *)
(* snapshot unless the backend has none.                                   *)
Run(s, c) ==
  /\ CanRun(s) /\ record[s]
  /\ LET g == Effect(guest[s], c) IN
     /\ guest' = [guest EXCEPT ![s] = g]
     /\ IF backend[s] = "engine"
        THEN Checkpointed(s, c, None, g) /\ UNCHANGED store
        ELSE Checkpointed(s, c, StepName(s), g) /\ Save(g, StepName(s))
  /\ Count(s)
  /\ UNCHANGED <<client, backend, record, session, starts>>

(* A snapshot that fails is logged, and the checkpoint has none.           *)
RunSnapshotFails(s, c) ==
  /\ Failures /\ backend[s] # "engine"
  /\ CanRun(s) /\ record[s]
  /\ LET g == Effect(guest[s], c) IN
     /\ Checkpointed(s, c, None, g)
     /\ SaveFails(g, StepName(s))
     /\ \E after \in AfterFailure(s, g) : guest' = [guest EXCEPT ![s] = after]
  /\ Count(s)
  /\ UNCHANGED <<client, backend, record, session, starts>>

(* The answer of a VM is lost or late: exec raises after the effect.       *)
RunUnanswered(s, c) ==
  /\ Failures /\ backend[s] # "local" /\ CanRun(s)
  /\ guest' = [guest EXCEPT ![s] = Effect(@, c)]
  /\ UNCHANGED <<client, backend, record, session, starts, checkpoints, counter, store>>

CanCheckpoint(s) ==
  /\ client[s] /\ guest[s].up # "off" /\ backend[s] # "engine"
  /\ counter[s] < MaxSteps

(* checkpoint(name); a VM that was left paused is resumed.                 *)
Checkpoint(s, name) ==
  /\ CanCheckpoint(s) /\ guest[s].up \in {"up", "paused"}
  /\ Save(guest[s], name)
  /\ Checkpointed(s, None, name, guest[s])
  /\ Count(s)
  /\ guest' = [guest EXCEPT ![s].up = "up"]
  /\ UNCHANGED <<client, backend, record, session, starts>>

(* The counter has moved before the snapshot is tried.                     *)
CheckpointFails(s, name) ==
  /\ CanCheckpoint(s)
  /\ \/ /\ guest[s].up = "down"
        /\ UNCHANGED <<guest, store>>
     \/ /\ Failures /\ guest[s].up # "down"
        /\ SaveFails(guest[s], name)
        /\ \E after \in AfterFailure(s, guest[s]) : guest' = [guest EXCEPT ![s] = after]
  /\ Count(s)
  /\ UNCHANGED <<client, backend, record, session, starts, checkpoints>>

-----------------------------------------------------------------------------
(* restore                                                                 *)

(* The elements of q at the indices I, in their order.                     *)
Rank(I, i)   == Cardinality({m \in I : m <= i})
Picked(q, I) == [j \in 1 .. Cardinality(I) |-> q[CHOOSE i \in I : Rank(I, i) = j]]

(* The checkpoints of step k: restore takes the first; and those up to k.  *)
AtStep(s, k) == {i \in DOMAIN checkpoints[s] : checkpoints[s][i].step = k}
Found(s, k)  == checkpoints[s][CHOOSE i \in AtStep(s, k) : \A j \in AtStep(s, k) : i <= j]
UpTo(s, k)   == {i \in DOMAIN checkpoints[s] : checkpoints[s][i].step <= k}

(* A snapshot is of use only to the backend that made it.                  *)
HasSnapshot(s, k) == Found(s, k).snapshot # None /\ backend[s] # "engine"

(* Mutant: the counter becomes the number of checkpoints left.             *)
TrimByLength(s, k) ==
  /\ checkpoints' = [checkpoints EXCEPT ![s] = Picked(@, UpTo(s, k))]
  /\ counter' = [counter EXCEPT ![s] = Cardinality(UpTo(s, k))]

TrimTo(s, k) ==
  /\ checkpoints' = [checkpoints EXCEPT ![s] = Picked(@, UpTo(s, k))]
  /\ counter' = [counter EXCEPT ![s] = k]

(* Mutant: only the memory is put back.                                    *)
LoadMemory(s, k) ==
  /\ client[s] /\ guest[s].up # "off"
  /\ AtStep(s, k) # {} /\ HasSnapshot(s, k)
  /\ LET name == Found(s, k).snapshot IN
     /\ Restorable(name)
     /\ guest' = [guest EXCEPT ![s].up = "up", ![s].mem = Entry(name).mem]
  /\ TrimTo(s, k)
  /\ UNCHANGED <<client, backend, record, session, starts, store>>

(* A VM is stopped and started from the snapshot, a directory removed and  *)
(* copied from it.  The runner is a file, in the snapshot like any other.  *)
Load(s, k) ==
  /\ client[s] /\ guest[s].up # "off"
  /\ AtStep(s, k) # {} /\ HasSnapshot(s, k)
  /\ LET name == Found(s, k).snapshot IN
     /\ Restorable(name)
     /\ guest' = [guest EXCEPT ![s].up = "up", ![s].mem = Entry(name).mem,
                               ![s].disk = Entry(name).disk]
  /\ TrimTo(s, k)
  /\ UNCHANGED <<client, backend, record, session, starts, store>>

(* Half way the VM is down, or the directory gone; without the snapshot the*)
(* VM has been stopped all the same, and the directory is left alone.      *)
LoadFails(s, k) ==
  /\ client[s] /\ guest[s].up # "off"
  /\ AtStep(s, k) # {} /\ HasSnapshot(s, k)
  /\ LET there == Restorable(Found(s, k).snapshot) IN
     /\ there => Failures
     /\ guest' = [guest EXCEPT ![s].up = IF there \/ backend[s] = "direct" THEN "down" ELSE @]
  /\ UNCHANGED <<client, backend, record, session, starts, checkpoints, counter, store>>

(* The Python commands of the checkpoints up to step k.                    *)
Recorded(s, k) ==
  LET kept == Picked(checkpoints[s], {i \in UpTo(s, k) : checkpoints[s][i].command \in Python})
  IN  [i \in DOMAIN kept |-> kept[i].command]

(* Mutant: the namespace is not removed.                                   *)
ReplayedOnTop(s, k) ==
  [guest[s] EXCEPT !.mem = @ \o Recorded(s, k), !.disk = @ \o Recorded(s, k)]

(* The namespace's file /tmp/_ns.pkl is removed, a path that is not the    *)
(* sandbox's own on the local backend; then every recorded command is run  *)
(* as Python, and one that is not Python just fails.                       *)
Replayed(s, k) ==
  LET cmds == IF guest[s].runner THEN Recorded(s, k) ELSE <<>>
      base == IF backend[s] = "local" THEN guest[s].mem ELSE <<>>
  IN  [guest[s] EXCEPT !.mem = base \o cmds, !.disk = @ \o cmds]

Replay(s, k) ==
  /\ client[s] /\ guest[s].up = "up"
  /\ AtStep(s, k) # {} /\ ~HasSnapshot(s, k)
  /\ Len(guest[s].disk) + k <= MaxCommands + MaxSteps
  /\ guest' = [guest EXCEPT ![s] = Replayed(s, k)]
  /\ TrimTo(s, k)
  /\ UNCHANGED <<client, backend, record, session, starts, store>>

-----------------------------------------------------------------------------

(* Assumed of callers: no name is given to two checkpoints of a list.  A   *)
(* name may be given again after a failure, or when a restore dropped it.  *)
Held(name) == \E s \in Sandboxes : \E i \in DOMAIN checkpoints[s] :
                checkpoints[s][i].snapshot = name
Free(s)    == {name \in {NamedBy(s, n) : n \in UserNames} : ~Held(name)} \cup {ManualName(s)}

Next ==
  \E s \in Sandboxes :
    \/ \E b \in Backends : Start(s, b) \/ StartFails(s, b)
    \/ Stop(s)
    \/ \E c \in Commands :
         RunUnrecorded(s, c) \/ Run(s, c) \/ RunSnapshotFails(s, c) \/ RunUnanswered(s, c)
    \/ \E name \in Free(s) :
         Checkpoint(s, name) \/ CheckpointFails(s, name)
    \/ \E k \in 1 .. counter[s] : Load(s, k) \/ LoadFails(s, k) \/ Replay(s, k)

Spec == Init /\ [][Next]_vars

-----------------------------------------------------------------------------
(* Properties                                                              *)

(* Type invariant; a sandbox without a guest has neither files nor a       *)
(* namespace (runtime.py:557-587).                                         *)
TypeOK ==
  \A s \in Sandboxes :
    /\ client[s] \in BOOLEAN /\ record[s] \in BOOLEAN
    /\ guest[s].up \in {"off", "up", "paused", "down"}
    /\ guest[s].up = "off" => guest[s] = NoGuest
    /\ guest[s].mem \in States /\ guest[s].disk \in States
    /\ counter[s] \in Nat
    /\ \A i \in DOMAIN checkpoints[s] : checkpoints[s][i].command \in Commands \cup {None}

(* Steps increase along the list and none is ahead of the counter, whatever*)
(* was restored and whatever failed, so restore's first match is the only  *)
(* one (runtime.py:703, 757, 797-800, 854-855).                            *)
StepsIncrease ==
  \A s \in Sandboxes :
    /\ \A i, j \in DOMAIN checkpoints[s] :
         i < j => checkpoints[s][i].step < checkpoints[s][j].step
    /\ \A i \in DOMAIN checkpoints[s] : checkpoints[s][i].step <= counter[s]

(* Every checkpoint with a snapshot can be returned to, exactly: what is   *)
(* stored under the name is the state it recorded (runtime.py:705, 758).   *)
CheckpointsRestorable ==
  \A s \in Sandboxes : \A i \in DOMAIN checkpoints[s] :
    LET cp == checkpoints[s][i]
    IN  cp.snapshot # None =>
          Restorable(cp.snapshot) /\ Entry(cp.snapshot).mem = cp.was.mem
            /\ Entry(cp.snapshot).disk = cp.was.disk

(* README.md:145: "everything reverts to exactly what it was after step 2. *)
(* Not a re-run.  An actual restore from a Firecracker snapshot.": a       *)
(* restore that loads a snapshot puts back the state the step recorded.    *)
LoadExact ==
  [][\A s \in Sandboxes, k \in 1 .. MaxSteps :
       Load(s, k) =>
         LET was == Found(s, k).was
         IN  guest'[s].mem = was.mem /\ guest'[s].disk = was.disk]_vars

(* runtime.py:789: "replays commands 1..step in a fresh Python namespace   *)
(* to reconstruct variable state": after a replay the namespace is the one *)
(* of the step, if the sandbox still records or the step is a recorded one,*)
(* not a checkpoint taken by hand after recording had ended.               *)
RestoresNamespace ==
  [][\A s \in Sandboxes, k \in 1 .. MaxSteps :
       Replay(s, k) /\ (record[s] \/ Found(s, k).command # None)
         => guest'[s].mem = Found(s, k).was.mem]_vars
=============================================================================
