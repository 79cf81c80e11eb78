----------------------------- MODULE MCPServer -----------------------------
(***************************************************************************)
(* The MCP server process when it boots a VM of its own: __main__.main,    *)
(* the tools of mcp_server.py, the dashboard thread (dashboard.py) and the *)
(* audit log (audit.py) that outlives the process, over the transport of   *)
(* SandboxClient.                                                          *)
(*                                                                         *)
(* FastMCP calls the tools one at a time, in the thread Mcp; every other   *)
(* caller is a thread of the dashboard's HTTP server.  The process may be  *)
(* killed at any point and another one started: it appends to the same     *)
(* log and takes over the same socket path.                                *)
(***************************************************************************)
EXTENDS SandboxClient, Sequences

CONSTANTS Mcp,       \* the thread of the tools
          MaxProcs,  \* bound on server processes, one after the other
          MaxLost    \* bound on audit writes that fail

ASSUME McpAssumption == Mcp \in Callers /\ MaxProcs \in Nat /\ MaxLost \in Nat

VARIABLES phase,  \* how far the process has come: off, boot, health, ready, exit
          proc,   \* its number
          seq,    \* process |-> AuditLogger._sequence
          log,    \* the entries of audit.jsonl
          tool,   \* caller |-> the tool or request it is in
          begun   \* caller |-> how many it has begun, bounded by MaxCalls

vars == <<clientVars, phase, proc, seq, log, tool, begun>>

Procs == 1..MaxProcs
NoTool == [op |-> "none", pc |-> "idle", id |-> None]

Init == /\ ClientInit
        /\ phase = "off" /\ proc = 0
        /\ seq = [p \in Procs |-> 0]
        /\ log = <<>>
        /\ tool = [c \in Callers |-> NoTool]
        /\ begun = [c \in Callers |-> 0]

At(c, pc) == tool[c].pc = pc
Goto(c, pc) == tool' = [tool EXCEPT ![c].pc = pc]
Return(c) == tool' = [tool EXCEPT ![c] = NoTool]

-----------------------------------------------------------------------------
(* AuditLogger                                                             *)

(* The numbers that were taken and are not in the log.                     *)
Taken == UNION {{p} \X (1..seq[p]) : p \in Procs}
Lost == Taken \ {<<log[i].proc, log[i].seq>> : i \in DOMAIN log}

(* The number is taken before the write, and a write that fails is only    *)
(* logged: the number is gone.  id is the request the entry is about.      *)
LogAs(p, event, id, res) ==
  /\ seq' = [seq EXCEPT ![p] = @ + 1]
  /\ \/ log' = Append(log, [proc |-> p, seq |-> seq[p] + 1, event |-> event,
                            id |-> id, res |-> res, vm |-> vm])
     \/ Cardinality(Lost) < MaxLost /\ UNCHANGED log

Log(event, id, res) == LogAs(proc, event, id, res)

-----------------------------------------------------------------------------
(* __main__                                                                *)

ServerStart ==
  /\ phase = "off" /\ proc < MaxProcs
  /\ proc' = proc + 1 /\ phase' = "boot"
  /\ LogAs(proc + 1, "server_start", None, "none")
  /\ UNCHANGED <<clientVars, tool, begun>>

(* The bundle may be missing and the VM may not start: exit(1), with no    *)
(* exit handler registered yet.  The manager is new: it knows nothing of a *)
(* VM left by an earlier process.                                          *)
ServerBoot ==
  /\ phase = "boot"
  /\ \/ Boot /\ phase' = "health"
     \/ phase' = "off" /\ UNCHANGED clientVars
  /\ UNCHANGED <<proc, seq, log, tool, begun>>

(* wait_for_health; without an answer exit(1), whose handler stops the VM. *)
ServerHealth ==
  /\ phase = "health"
  /\ \/ /\ vm # 0 /\ phase' = "ready"
        /\ Log("server_ready", None, "none")
        /\ UNCHANGED clientVars
     \/ phase' = "exit" /\ Drop /\ UNCHANGED <<seq, log>>
  /\ UNCHANGED <<proc, tool, begun>>

(* The transport ends between two tools; vm.cleanup runs while the threads *)
(* of the dashboard go on.                                                 *)
ServerExit ==
  /\ phase = "ready" /\ At(Mcp, "idle")
  /\ phase' = "exit" /\ Drop
  /\ UNCHANGED <<proc, seq, log, tool, begun>>

(* The end of the process, or a SIGTERM or SIGKILL at any point: its       *)
(* threads are gone, its VM is not.                                        *)
ServerGone ==
  /\ phase # "off"
  /\ phase' = "off" /\ HostDies
  /\ tool' = [c \in Callers |-> NoTool]
  /\ UNCHANGED <<proc, seq, log, begun>>

-----------------------------------------------------------------------------
(* Tools and dashboard requests that go to the guest                       *)

Alive == phase \in {"ready", "exit"}

(* The next request of c.                                                  *)
Enter(c, op, pc) ==
  /\ At(c, "idle") /\ begun[c] < MaxCalls
  /\ begun' = [begun EXCEPT ![c] = @ + 1]
  /\ tool' = [tool EXCEPT ![c] = [op |-> op, pc |-> pc, id |-> [by |-> c, n |-> begun[c] + 1]]]

(* A tool notes what it is asked for before it asks the guest.             *)
AuditedTool(op, pc) ==
  /\ phase = "ready"
  /\ Enter(Mcp, op, pc)
  /\ Log(op, tool'[Mcp].id, "none")
  /\ UNCHANGED <<clientVars, phase, proc>>

(* Mutant: a command is noted when it is over, with its result.            *)
ExecUnaudited ==
  /\ phase = "ready"
  /\ Enter(Mcp, "exec", "check")
  /\ UNCHANGED <<clientVars, phase, proc, seq, log>>

SandboxExec == AuditedTool("exec", "check")

(* sandbox_read_file, sandbox_write_file                                   *)
FileTool == AuditedTool("file", "issue")

(* sandbox_upload_file: without the local file there is no request.        *)
UploadTool ==
  \/ AuditedTool("file", "issue")
  \/ /\ phase = "ready" /\ At(Mcp, "idle") /\ begun[Mcp] < MaxCalls
     /\ begun' = [begun EXCEPT ![Mcp] = @ + 1]
     /\ Log("file", [by |-> Mcp, n |-> begun[Mcp] + 1], "none")
     /\ UNCHANGED <<clientVars, phase, proc, tool>>

(* sandbox_download_file: the data is written on the host at the end.      *)
DownloadTool == AuditedTool("file", "issue")

(* sandbox_list_dir and sandbox_status are not audited.                    *)
LookTool ==
  /\ phase = "ready"
  /\ Enter(Mcp, "look", "issue")
  /\ UNCHANGED <<clientVars, phase, proc, seq, log>>

(* A command classified as blocked is refused when safety is enforced.     *)
ToolCheck ==
  /\ phase = "ready" /\ At(Mcp, "check")
  /\ \/ Return(Mcp) /\ Log("exec_blocked", tool[Mcp].id, "none")
     \/ Goto(Mcp, "issue") /\ UNCHANGED <<seq, log>>
  /\ UNCHANGED <<clientVars, phase, proc, begun>>

(* A request of the dashboard is neither audited nor checked.              *)
DashboardBegin(c, op) ==
  /\ phase = "ready" /\ c # Mcp
  /\ Enter(c, op, "issue")
  /\ UNCHANGED <<clientVars, phase, proc, seq, log>>

(* /api/exec                                                               *)
ApiExec(c) == DashboardBegin(c, "exec")

(* /api/status, /api/health and /api/vms                                   *)
ApiLook(c) == DashboardBegin(c, "look")

Send(c) ==
  /\ Alive /\ At(c, "issue")
  /\ Issue(c, tool[c].op, tool[c].id)
  /\ Goto(c, "called")
  /\ UNCHANGED <<phase, proc, seq, log, begun>>

(* An error body has no exit_code: it is noted as -1, like a timeout but   *)
(* without its flag.                                                       *)
ExitOf(res) == IF res \in {"refused", "failed"} THEN "no_code" ELSE res

(* Mutant: an error raised by the client is noted like any other result.   *)
ResultAlways(c, res) == Log("exec_result", tool[c].id, "ok")

ExecResult(c, res) ==
  IF res \in Errors THEN Log("exec_error", tool[c].id, "none")
  ELSE Log("exec_result", tool[c].id, ExitOf(res))

Finish(c) ==
  /\ Alive /\ At(c, "called") /\ call[c].pc = "idle"
  /\ Collect(c) /\ Return(c)
  /\ IF c = Mcp /\ tool[c].op = "exec" THEN ExecResult(c, call[c].res)
     ELSE UNCHANGED <<seq, log>>
  /\ UNCHANGED <<phase, proc, begun>>

-----------------------------------------------------------------------------
(* sandbox_reset and /api/reset: VMManager.restart, then wait_for_health   *)

Audit(c, event) ==
  IF c = Mcp THEN Log(event, None, "none") ELSE UNCHANGED <<seq, log>>

ResetBegin(c) ==
  /\ phase = "ready"
  /\ Enter(c, "reset", "stop")
  /\ Audit(c, "sandbox_reset")
  /\ UNCHANGED <<clientVars, phase, proc>>

(* Mutant: a VM that runs is not stopped.                                  *)
ResetKeeps(c) ==
  /\ Alive /\ At(c, "stop")
  /\ Goto(c, "start")
  /\ UNCHANGED <<clientVars, phase, proc, seq, log, begun>>

ResetStop(c) ==
  /\ Alive /\ At(c, "stop")
  /\ Drop /\ Goto(c, "start")
  /\ UNCHANGED <<phase, proc, seq, log, begun>>

(* start returns when a VM is already running.                             *)
ResetStart(c) ==
  /\ Alive /\ At(c, "start")
  /\ Goto(c, IF vm # 0 THEN "health" ELSE "launch")
  /\ UNCHANGED <<clientVars, phase, proc, seq, log, begun>>

ResetLaunch(c) ==
  /\ Alive /\ At(c, "launch")
  /\ \/ Boot /\ Goto(c, "health") /\ UNCHANGED <<seq, log>>
     \/ Return(c) /\ Audit(c, "sandbox_reset_error") /\ UNCHANGED clientVars
  /\ UNCHANGED <<phase, proc, begun>>

(* The guest answers a probe, or thirty seconds pass.                      *)
ResetHealth(c) ==
  /\ Alive /\ At(c, "health")
  /\ \/ vm # 0 /\ Audit(c, "sandbox_reset_complete")
     \/ Audit(c, "sandbox_reset_timeout")
  /\ Return(c)
  /\ UNCHANGED <<clientVars, phase, proc, begun>>

Reset(c) == ResetStop(c) \/ ResetStart(c) \/ ResetLaunch(c) \/ ResetHealth(c)

-----------------------------------------------------------------------------

Begin(c) ==
  \/ c = Mcp /\ (SandboxExec \/ FileTool \/ UploadTool \/ DownloadTool \/ LookTool)
  \/ ApiExec(c) \/ ApiLook(c)
  \/ ResetBegin(c)

Proceed(c) ==
  \/ c = Mcp /\ ToolCheck
  \/ Send(c) \/ Finish(c) \/ Reset(c)
  \/ ClientStep(c) /\ UNCHANGED <<phase, proc, seq, log, tool, begun>>

Guest == (GuestStep \/ (vm # 0 /\ Drop)) /\ UNCHANGED <<phase, proc, seq, log, tool, begun>>

Next ==
  \/ ServerStart \/ ServerBoot \/ ServerHealth \/ ServerExit \/ ServerGone
  \/ \E c \in Callers : Begin(c) \/ Proceed(c)
  \/ Guest

Spec == Init /\ [][Next]_vars

-----------------------------------------------------------------------------
(* Properties                                                              *)

Events == {"server_start", "server_ready", "exec", "file", "exec_blocked", "exec_result",
           "exec_error", "sandbox_reset", "sandbox_reset_complete",
           "sandbox_reset_timeout", "sandbox_reset_error"}
PCs == {"idle", "check", "issue", "called", "stop", "start", "launch", "health"}

(* Type invariant of the process, its threads and the log.                 *)
TypeOK ==
  /\ ClientTypeOK
  /\ phase \in {"off", "boot", "health", "ready", "exit"}
  /\ proc \in 0..MaxProcs /\ seq \in [Procs -> Nat]
  /\ \A i \in DOMAIN log :
       log[i] \in [proc : Procs, seq : Nat, event : Events, id : Requests \cup {None},
                   res : {"none", "no_code"} \cup Statuses, vm : 0..MaxBoots]
  /\ tool \in [Callers -> [op : Ops \cup {"none", "reset"}, pc : PCs,
                           id : Requests \cup {None}]]
  /\ begun \in [Callers -> 0..MaxCalls]

Ran(id) == \E r \in ran : r.id = id

(* The log tells the truth about the guest (mcp_server.py:137-174): a      *)
(* command noted with an exit code, or as timed out, did run; one noted as *)
(* blocked never ran, not in an attempt made later either.                 *)
AuditTruthful ==
  \A i \in DOMAIN log :
    /\ log[i].event = "exec_result" /\ log[i].res # "no_code" => Ran(log[i].id)
    /\ log[i].event = "exec_blocked" => ~Ran(log[i].id)

(* Nothing an MCP client asks of the guest takes effect unnoted: its entry *)
(* is in the log before the effect, over any number of processes, or a     *)
(* number is missing from the log (mcp_server.py:128, 280; audit.py:60).   *)
EffectsAudited ==
  \A r \in ran : r.id.by = Mcp /\ r.op # "look" =>
    Lost # {} \/ \E i \in DOMAIN log : log[i].event = r.op /\ log[i].id = r.id

(* mcp_server.py:531 "boots a fresh one": a reset that is noted as complete*)
(* has a VM younger than any that an earlier entry is about, whoever else  *)
(* resets, boots or loses one meanwhile.                                   *)
ResetFresh ==
  \A i, k \in DOMAIN log :
    i < k /\ log[k].event = "sandbox_reset_complete" => log[i].vm < log[k].vm

=============================================================================
