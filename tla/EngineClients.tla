--------------------------- MODULE EngineClients ---------------------------
(***************************************************************************)
(* The programs that share one engine over its REST API: MCP servers with  *)
(* an EngineSandboxClient each (engine_client.py), which all use the name  *)
(* Shared; scripts in run_code (runtime.py), which take an unnamed sandbox *)
(* of their own through an EngineClient (engine/client.py).  Users of the  *)
(* command line or the dashboard destroy sandboxes.                        *)
(*                                                                         *)
(* A request becomes a handler thread in the engine, which goes on when    *)
(* its client has lost the connection or has stopped waiting.  What the    *)
(* module Engine does in many steps is one or two here: a sandbox is found *)
(* and served at once, made in two steps.                                  *)
(***************************************************************************)
EXTENDS Naturals, FiniteSets

CONSTANTS Agents, Scripts,   \* the clients of each kind
          Ids,        \* bound: the sandbox ids that can be generated
          Shared,     \* "mcp-sandbox"
          None,
          MaxFaults   \* bound on lost answers, kills and ends of the engine

Clients == Agents \cup Scripts
Names == {Shared} \cup Ids          \* the default name is the id

ASSUME ClientsAssumption ==
  /\ IsFiniteSet(Clients) /\ IsFiniteSet(Ids)
  /\ Agents \cap Scripts = {} /\ None \notin Clients
  /\ None \notin Names /\ Shared \notin Ids
  /\ MaxFaults \in Nat

VARIABLES listed,  \* id -> name of the sandbox in the engine's table, or None
          origin,  \* id -> the request that took it: by whom, which, under what name
          wire,    \* the handler threads of the engine
          at,      \* client -> where in its program it is
          goal,    \* client -> what an EngineSandboxClient needs its sandbox for
          own,     \* client -> the id it keeps (_sandbox_id, sandbox_id)
          ran,     \* <<client, id>>: what ran in which sandbox
          faults   \* faults so far

engine == <<listed, origin, ran>>
client == <<at, goal, own>>
vars == <<engine, client, wire, faults>>

Unused == [by |-> None, op |-> "none", name |-> None]
Up == {id \in Ids : listed[id] # None}
Fresh == {id \in Ids : origin[id] = Unused}
Namesakes(n) == {id \in Up : listed[id] = n}

Init ==
  /\ listed = [id \in Ids |-> None] /\ origin = [id \in Ids |-> Unused]
  /\ wire = {} /\ ran = {}
  /\ at = [c \in Clients |-> "off"] /\ goal = [c \in Clients |-> "none"]
  /\ own = [c \in Clients |-> None]
  /\ faults = 0

-----------------------------------------------------------------------------
(* What a client does: it sends a request and is at pc until the reply.    *)
(* rest are the handlers of the other requests, st and id the reply: "ok", *)
(* "error" (an error status, or the connection broke) or "late" (nothing   *)
(* came within the time limit, an exception of its own kind).              *)

Send(c, op, arg, pc, rest) ==
  /\ wire' = rest \cup {[by |-> c, op |-> op, arg |-> arg, id |-> None,
                         stage |-> "find", lost |-> 0]}
  /\ at' = [at EXCEPT ![c] = pc]

Goto(c, pc, rest) ==
  /\ wire' = rest
  /\ at' = [at EXCEPT ![c] = pc] /\ goal' = [goal EXCEPT ![c] = "none"]

Keep(c, id) == own' = [own EXCEPT ![c] = id]

-----------------------------------------------------------------------------
(* EngineSandboxClient                                                     *)

(* _ensure_sandbox: verify the id, else look for the name, else create.    *)
Goals == {"init", "use", "reset"}

Look(c, rest) == Send(c, "list", None, "list", rest)

(* Mutant: the id is not asked for again, the name decides.                *)
EnsureByName(c, for) ==
  /\ goal' = [goal EXCEPT ![c] = for]
  /\ Look(c, wire)
  /\ UNCHANGED own

Ensure(c, for) ==
  /\ goal' = [goal EXCEPT ![c] = for]
  /\ IF own[c] # None THEN Send(c, "get", own[c], "verify", wire) ELSE Look(c, wire)
  /\ UNCHANGED own

(* The call returns, or raises.                                            *)
Return(c, rest) == Goto(c, "idle", rest) /\ UNCHANGED own

(* The sandbox is there: the request itself, or nothing.                   *)
Ensured(c, id, rest) ==
  /\ Keep(c, id)
  /\ IF goal[c] = "use" THEN Send(c, "run", id, "used", rest) /\ UNCHANGED goal
     ELSE Goto(c, "idle", rest)

Verified(c, st, rest) ==
  /\ at[c] = "verify"
  /\ \/ st = "ok" /\ Ensured(c, own[c], rest)
     \/ st = "error" /\ Keep(c, None) /\ Look(c, rest) /\ UNCHANGED goal
     \/ st = "late" /\ Return(c, rest)

Create(c, rest) == Send(c, "create", Shared, "create", rest) /\ UNCHANGED <<own, goal>>

(* Mutant: any sandbox of the list will do.                                *)
FoundAny(c, st, id, rest) ==
  /\ at[c] = "list"
  /\ \/ st = "ok" /\ \E x \in Up : Ensured(c, x, rest)
     \/ st # "late" /\ (st = "error" \/ Up = {}) /\ Create(c, rest)
     \/ st = "late" /\ Return(c, rest)

Found(c, st, id, rest) ==
  /\ at[c] = "list"
  /\ \/ st = "ok" /\ id # None /\ Ensured(c, id, rest)
     \/ st # "late" /\ id = None /\ Create(c, rest)
     \/ st = "late" /\ Return(c, rest)

Created(c, st, id, rest) ==
  /\ at[c] = "create" /\ c \in Agents
  /\ IF st = "ok" THEN Ensured(c, id, rest) ELSE Return(c, rest)

Used(c, rest) == at[c] = "used" /\ Return(c, rest)

(* The server starts; errors of the eager creation are swallowed.          *)
Start(c) == at[c] = "off" /\ Ensure(c, "init")

(* exec, read_file, write_file, list_dir.                                  *)
Use(c) == at[c] = "idle" /\ Ensure(c, "use")

(* The engine recreates under a new id; the client keeps the old one.      *)
Reset(c) ==
  /\ at[c] = "idle"
  /\ IF own[c] = None THEN Ensure(c, "reset")
     ELSE /\ Send(c, "reset", own[c], "reset", wire)
          /\ goal' = [goal EXCEPT ![c] = "reset"] /\ UNCHANGED own

WasReset(c, st, rest) ==
  /\ at[c] = "reset"
  /\ IF st = "error" THEN Send(c, "delete", own[c], "drop", rest) /\ UNCHANGED <<own, goal>>
     ELSE Return(c, rest)

Dropped(c, st, rest) ==
  /\ at[c] = "drop"
  /\ IF st = "late" THEN Return(c, rest)
     ELSE Keep(c, None) /\ Look(c, rest) /\ UNCHANGED goal

(* atexit: client.destroy.                                                 *)
Exit(c) ==
  /\ at[c] = "idle"
  /\ IF own[c] = None THEN Goto(c, "off", wire)
     ELSE Send(c, "delete", own[c], "exit", wire) /\ UNCHANGED goal
  /\ UNCHANGED own

Exited(c, rest) == at[c] = "exit" /\ Goto(c, "off", rest) /\ Keep(c, None)

AgentCalls(c) == (Start(c) \/ Use(c) \/ Reset(c) \/ Exit(c)) /\ UNCHANGED <<engine, faults>>

AgentGoesOn(c, st, id, rest) ==
  \/ Verified(c, st, rest) \/ Found(c, st, id, rest) \/ Created(c, st, id, rest)
  \/ Used(c, rest) \/ WasReset(c, st, rest) \/ Dropped(c, st, rest) \/ Exited(c, rest)

-----------------------------------------------------------------------------
(* _run_code_via_engine                                                    *)

RunCode(c) ==
  /\ at[c] = "off"
  /\ Send(c, "create", None, "create", wire)
  /\ UNCHANGED <<engine, goal, own, faults>>

(* Without an answer there is no id, and nothing to destroy.               *)
ScriptCreated(c, st, id, rest) ==
  /\ at[c] = "create" /\ c \in Scripts
  /\ IF st = "ok" THEN Keep(c, id) /\ Send(c, "run", id, "write", rest) /\ UNCHANGED goal
     ELSE Goto(c, "done", rest) /\ UNCHANGED own

(* Mutant: a code that cannot be written ends the call at once.            *)
WroteOrLeft(c, st, rest) ==
  /\ at[c] = "write"
  /\ IF st = "ok" THEN Send(c, "run", own[c], "exec", rest) /\ UNCHANGED <<own, goal>>
     ELSE Goto(c, "done", rest) /\ Keep(c, None)

(* Whatever fails, the sandbox is destroyed at the end.                    *)
Wrote(c, st, rest) ==
  /\ at[c] = "write"
  /\ IF st = "ok" THEN Send(c, "run", own[c], "exec", rest)
     ELSE Send(c, "delete", own[c], "destroy", rest)
  /\ UNCHANGED <<own, goal>>

Executed(c, rest) ==
  /\ at[c] = "exec"
  /\ Send(c, "delete", own[c], "destroy", rest) /\ UNCHANGED <<own, goal>>

Destroyed(c, rest) == at[c] = "destroy" /\ Goto(c, "done", rest) /\ Keep(c, None)

GoesOn(c, st, id, rest) ==
  \/ AgentGoesOn(c, st, id, rest)
  \/ ScriptCreated(c, st, id, rest) \/ Wrote(c, st, rest)
  \/ Executed(c, rest) \/ Destroyed(c, rest)

-----------------------------------------------------------------------------
(* The handlers of the engine                                              *)

(* Nobody waits for h any more.                                            *)
Unheard(h) == [h EXCEPT !.lost = faults + 1]

Answer(h, st, id) ==
  IF h.lost = 0 THEN GoesOn(h.by, st, id, wire \ {h})
  ELSE wire' = wire \ {h} /\ UNCHANGED client

Step(h, g) == wire' = (wire \ {h}) \cup {g} /\ UNCHANGED client

(* _find_sandbox: by id, else by name.                                     *)
Matches(x) == IF x \in Up THEN {x} ELSE Namesakes(x)

NotFound(h) ==
  /\ h.op \in {"get", "run", "delete", "reset"} /\ h.stage = "find"
  /\ Matches(h.arg) = {}
  /\ Answer(h, "error", None)
  /\ UNCHANGED engine

(* GET /sandboxes and GET /sandboxes/id; of the list a client takes the    *)
(* first of its name.                                                      *)
Get(h) ==
  /\ h.stage = "find"
  /\ \/ h.op = "get" /\ \E id \in Matches(h.arg) : Answer(h, "ok", id)
     \/ h.op = "list" /\ \E id \in Namesakes(Shared) : Answer(h, "ok", id)
     \/ h.op = "list" /\ Namesakes(Shared) = {} /\ Answer(h, "ok", None)
  /\ UNCHANGED engine

(* exec and the file requests: 500 when the VM does not answer, before or  *)
(* after the command ran.                                                  *)
Run(h) ==
  /\ h.op = "run" /\ h.stage = "find"
  /\ \E id \in Matches(h.arg) :
       \/ /\ ran' = ran \cup {<<h.by, id>>}
          /\ \E st \in {"ok", "error"} : Answer(h, st, id)
       \/ Answer(h, "error", id) /\ UNCHANGED ran
  /\ UNCHANGED <<listed, origin>>

Delete(h) ==
  /\ h.op = "delete" /\ h.stage = "find"
  /\ \E id \in Matches(h.arg) :
       listed' = [listed EXCEPT ![id] = None] /\ Answer(h, "ok", id)
  /\ UNCHANGED <<origin, ran>>

(* destroy, then a create of the same name.                                *)
ResetPop(h) ==
  /\ h.op = "reset" /\ h.stage = "find"
  /\ \E id \in Matches(h.arg) :
       /\ listed' = [listed EXCEPT ![id] = None]
       /\ Step(h, [h EXCEPT !.stage = "create", !.arg = listed[id]])
  /\ UNCHANGED <<origin, ran>>

Creating(h) == h.stage = "create" \/ (h.stage = "find" /\ h.op = "create")

(* Mutant: no default name.                                                *)
BootUnnamed(h) ==
  \E id \in Fresh :
    /\ origin' = [origin EXCEPT ![id] = [by |-> h.by, op |-> h.op, name |-> h.arg]]
    /\ Step(h, [h EXCEPT !.stage = "boot", !.id = id])

(* An id is taken and the VM boots.                                        *)
Boot(h) ==
  \E id \in Fresh :
    /\ origin' = [origin EXCEPT ![id] =
                   [by |-> h.by, op |-> h.op, name |-> IF h.arg = None THEN id ELSE h.arg]]
    /\ Step(h, [h EXCEPT !.stage = "boot", !.id = id])

(* The name exists, the pool is full or the VM does not boot.              *)
Conflict(h) == Answer(h, "error", None) /\ UNCHANGED origin

(* The name is looked up under the lock, the entry made after the boot.    *)
CheckName(h) ==
  /\ Creating(h)
  /\ Conflict(h) \/ (Namesakes(h.arg) = {} /\ Boot(h))
  /\ UNCHANGED <<listed, ran>>

Insert(h) ==
  /\ h.stage = "boot"
  /\ listed' = [listed EXCEPT ![h.id] = origin[h.id].name]
  /\ Answer(h, "ok", h.id)
  /\ UNCHANGED <<origin, ran>>

Handle(h) ==
  /\ NotFound(h) \/ Get(h) \/ Run(h) \/ Delete(h) \/ ResetPop(h) \/ CheckName(h) \/ Insert(h)
  /\ UNCHANGED faults

-----------------------------------------------------------------------------
(* Faults, and what others do                                              *)

Fault == faults < MaxFaults /\ faults' = faults + 1

(* The connection breaks, or nothing comes in time; the handler goes on,   *)
(* unless the request has never reached the engine.                        *)
Lose(h) ==
  /\ Fault /\ h.lost = 0 /\ h.stage # "gone"
  /\ \E st \in {"error", "late"} :
       \/ GoesOn(h.by, st, None, (wire \ {h}) \cup {Unheard(h)})
       \/ h.stage = "find" /\ GoesOn(h.by, st, None, wire \ {h})
  /\ UNCHANGED engine

(* A client is killed, before or after its request was sent.               *)
Kill(c) ==
  /\ Fault /\ at[c] \notin {"off", "done"}
  /\ LET mine == {h \in wire : h.by = c /\ h.lost = 0}
     IN \/ wire' = (wire \ mine) \cup {Unheard(h) : h \in mine}
        \/ wire' = wire \ {h \in mine : h.stage = "find"} /\ \A h \in mine : h.stage = "find"
  /\ at' = [at EXCEPT ![c] = IF c \in Agents THEN "off" ELSE "done"]
  /\ goal' = [goal EXCEPT ![c] = "none"] /\ Keep(c, None)
  /\ UNCHANGED engine

(* The engine ends, with every sandbox, and is started again; requests in  *)
(* progress are lost.                                                      *)
EngineEnds ==
  /\ Fault
  /\ listed' = [id \in Ids |-> None]
  /\ wire' = {[h EXCEPT !.stage = "gone"] : h \in {g \in wire : g.lost = 0}}
  /\ UNCHANGED <<origin, ran, client>>

(* The reset connection of a request the ended engine had.                 *)
Broken(h) ==
  /\ h.stage = "gone"
  /\ Answer(h, "error", None)
  /\ UNCHANGED <<engine, faults>>

(* cmd_sandbox_destroy, or the button of the desktop, for any sandbox.     *)
UserDestroys(id) ==
  /\ id \in Up
  /\ listed' = [listed EXCEPT ![id] = None]
  /\ UNCHANGED <<origin, ran, client, wire, faults>>

-----------------------------------------------------------------------------

Next ==
  \/ \E c \in Agents : AgentCalls(c)
  \/ \E c \in Scripts : RunCode(c)
  \/ \E h \in wire : Handle(h) \/ Lose(h) \/ Broken(h)
  \/ \E c \in Clients : Kill(c)
  \/ EngineEnds
  \/ \E id \in Ids : UserDestroys(id)

Spec == Init /\ [][Next]_vars

-----------------------------------------------------------------------------
(* Properties                                                              *)

Pcs == {"off", "idle", "used", "reset", "drop", "exit", "create", "write", "exec",
        "destroy", "done", "verify", "list"}

(* Type invariant of the engine's table and of its clients.                *)
TypeOK ==
  /\ listed \in [Ids -> Names \cup {None}]
  /\ origin \in [Ids -> [by : Clients, op : {"create", "reset"}, name : Names] \cup {Unused}]
  /\ \A h \in wire :
       h \in [by : Clients, op : {"get", "list", "run", "create", "delete", "reset"},
              arg : Names \cup {None}, id : Ids \cup {None},
              stage : {"find", "create", "boot", "gone"}, lost : 0..MaxFaults]
  /\ at \in [Clients -> Pcs] /\ goal \in [Clients -> Goals \cup {"none"}]
  /\ own \in [Clients -> Ids \cup {None}]
  /\ ran \subseteq Clients \X Ids /\ faults \in 0..MaxFaults

(* Programs that share the engine do not meet in a sandbox they did not    *)
(* agree on (engine_client.py:107-113, runtime.py:143 "disposable"): what  *)
(* an MCP server runs, runs in a sandbox made under the shared name; what  *)
(* run_code runs, in the one made for this call, where nothing else ever   *)
(* ran.                                                                    *)
SandboxesApart ==
  \A r, q \in ran :
    /\ r[1] \in Agents => origin[r[2]].name = Shared
    /\ r[1] \in Scripts => /\ origin[r[2]].by = r[1]
                           /\ q[2] = r[2] => q[1] = r[1]

(* The files and processes a client left in its sandbox are there at its   *)
(* next call (engine_client.py:95-104), and it is the one to destroy it    *)
(* (runtime.py:173): a client lets go of a sandbox that is still there     *)
(* only when an answer or its process is lost at that very step; not       *)
(* because another has the same name, nor at its end.                      *)
KeepsSandbox ==
  [][\A c \in Clients : own[c] \in Up' /\ own'[c] # own[c] => faults' # faults]_vars

(* runtime.py:173 "Always destroy the disposable sandbox", __main__.py:203 *)
(* client.destroy at exit: when every MCP server has ended and every       *)
(* run_code has returned, there is at most one sandbox of theirs left for  *)
(* each answer, connection or process lost on the way.  What a reset made  *)
(* is not theirs: no client knows its id.                                  *)
Quiet == wire = {} /\ \A c \in Clients : at[c] \in {"off", "done"}
Left == {id \in Up : origin[id].op = "create"}
LeaksBounded == Quiet => Cardinality(Left) <= faults

=============================================================================
