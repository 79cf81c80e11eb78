--------------------------- MODULE SandboxClient ---------------------------
(***************************************************************************)
(* The request path from the host into the guest: SandboxClient._request   *)
(* (sandbox_client.py) on one side, the thread-per-request exec agent      *)
(* (rootfs/bunkervm/exec_agent.py) on the other.                           *)
(*                                                                         *)
(* A request is sent at most MaxRetries times.  Every attempt that reaches *)
(* the guest becomes a thread of its own there, which runs on whether or   *)
(* not the client still listens: the client stops listening when the       *)
(* connection breaks or a read times out.  A thread ends with its answer   *)
(* or with its virtual machine.                                            *)
(***************************************************************************)
EXTENDS Naturals, FiniteSets

CONSTANTS Callers,      \* host threads that share the client
          MaxRetries,   \* _MAX_RETRIES
          MaxCalls,     \* bound on the requests of one thread
          MaxBoots      \* bound on the incarnations of the VM

ASSUME RetriesAssumption == MaxRetries \in Nat \ {0}
ASSUME BoundsAssumption == MaxCalls \in Nat /\ MaxBoots \in Nat

VARIABLES call,   \* caller |-> the request it is making, or made last
          calls,  \* the requests made so far
          jobs,   \* the handler threads of the guest
          ran,    \* the attempts that had their effect in a guest
          vm,     \* the incarnation the socket leads to, 0 for none
          boots   \* incarnations so far

clientVars == <<call, calls, jobs, ran, vm, boots>>

(* exec runs a command; file stands for the requests about files; look for *)
(* list_dir, status and health, which change nothing.                      *)
Ops == {"exec", "file", "look"}

(* 200; 200 with timed_out; 4xx; 5xx.                                      *)
Statuses == {"ok", "timed_out", "refused", "failed"}

(* What _request raises: SandboxConnectionError, SandboxTimeoutError,      *)
(* SandboxError for a body that is no JSON, SandboxError for the rest.     *)
Errors == {"unreachable", "timeout", "invalid", "error"}

(* A request is known by who made it and a number.                         *)
Requests == [by : Callers, n : 1..MaxCalls]
None == [by |-> "none", n |-> 0]

Attempt == [id : Requests, op : Ops, att : 1..MaxRetries]
Job == [run : Attempt, vm : 1..MaxBoots]

NoCall == [id |-> None, op |-> "look", pc |-> "idle", att |-> 0, res |-> "none"]

ClientInit ==
  /\ call = [c \in Callers |-> NoCall]
  /\ calls = {}
  /\ jobs = {} /\ ran = {}
  /\ vm = 0 /\ boots = 0

-----------------------------------------------------------------------------
(* SandboxClient                                                           *)

Issue(c, op, id) ==
  /\ call[c].pc = "idle" /\ id \notin calls
  /\ calls' = calls \cup {id}
  /\ call' = [call EXCEPT ![c] = [id |-> id, op |-> op, pc |-> "connect",
                                  att |-> 1, res |-> "none"]]
  /\ UNCHANGED <<jobs, ran, vm, boots>>

End(c, res) == call' = [call EXCEPT ![c].pc = "idle", ![c].res = res]

(* The result is taken and the request forgotten.                          *)
Collect(c) ==
  /\ call[c].pc = "idle"
  /\ call' = [call EXCEPT ![c] = NoCall]
  /\ UNCHANGED <<calls, jobs, ran, vm, boots>>

Again(c) == call' = [call EXCEPT ![c].pc = "connect", ![c].att = @ + 1]

(* Mutant: one attempt too many.                                           *)
RetryOnceMore(c, err) ==
  IF call[c].att <= MaxRetries THEN Again(c) ELSE End(c, err)

Retry(c, err) ==
  IF call[c].att < MaxRetries THEN Again(c) ELSE End(c, err)

(* Connected and sent: the guest has a thread for the request.             *)
Connect(c) ==
  /\ call[c].pc = "connect" /\ vm # 0
  /\ jobs' = jobs \cup {[run |-> [id |-> call[c].id, op |-> call[c].op, att |-> call[c].att],
                         vm |-> vm]}
  /\ call' = [call EXCEPT ![c].pc = "wait"]
  /\ UNCHANGED <<calls, ran, vm, boots>>

(* No socket file, refused, closed in the vsock handshake or while the     *)
(* request is being sent.                                                  *)
ConnectFails(c) ==
  /\ call[c].pc = "connect"
  /\ Retry(c, "unreachable")
  /\ UNCHANGED <<calls, jobs, ran, vm, boots>>

(* A handshake that times out is no OSError of connect: it is not retried. *)
HandshakeTimeout(c) ==
  /\ call[c].pc = "connect" /\ vm # 0
  /\ End(c, "timeout")
  /\ UNCHANGED <<calls, jobs, ran, vm, boots>>

(* The connection is reset, or ends before the headers do.                 *)
ConnectionLost(c) ==
  /\ call[c].pc = "wait"
  /\ \E err \in {"unreachable", "error"} : Retry(c, err)
  /\ UNCHANGED <<calls, jobs, ran, vm, boots>>

(* The body is cut short, or nothing comes for the read timeout.           *)
GiveUp(c) ==
  /\ call[c].pc = "wait"
  /\ \E err \in {"invalid", "timeout"} : End(c, err)
  /\ UNCHANGED <<calls, jobs, ran, vm, boots>>

ClientStep(c) ==
  Connect(c) \/ ConnectFails(c) \/ HandshakeTimeout(c) \/ ConnectionLost(c) \/ GiveUp(c)

-----------------------------------------------------------------------------
(* ExecHandler                                                             *)

(* Mutant: an answer to an earlier attempt is taken too.                   *)
ListeningLong(c, j) == call[c].pc = "wait" /\ call[c].id = j.run.id

Listening(c, j) == call[c].pc = "wait" /\ call[c].id = j.run.id /\ call[c].att = j.run.att

(* The answer reaches whoever still listens for it, or is lost on the way. *)
(* An answer below 500 is returned, also when it is an error; a 5xx is     *)
(* returned only when there is no attempt left.                            *)
Receive(j, st) ==
  \/ \E c \in Callers :
       /\ Listening(c, j)
       /\ IF st = "failed" /\ call[c].att < MaxRetries THEN Again(c) ELSE End(c, st)
  \/ UNCHANGED call

(* The thread of j ends with status st; done says whether the request has  *)
(* taken effect.                                                           *)
Answer(j, st, done) ==
  /\ jobs' = jobs \ {j}
  /\ ran' = IF done THEN ran \cup {j.run} ELSE ran
  /\ Receive(j, st)
  /\ UNCHANGED <<calls, vm, boots>>

(* No command, no such file or directory, no permission, too large.        *)
Refuse(j) == Answer(j, "refused", FALSE)

(* The shell cannot be started, or its output is no UTF-8, which raises    *)
(* when the command is over.  A command that overruns its limit is         *)
(* answered for; its children live on.                                     *)
HandleExec(j) ==
  /\ j.run.op = "exec"
  /\ \/ Refuse(j)
     \/ \E st \in {"ok", "timed_out", "failed"} : Answer(j, st, TRUE)
     \/ Answer(j, "failed", FALSE)

(* A write may fail when a part of it is on the disk.                      *)
HandleFile(j) ==
  /\ j.run.op = "file"
  /\ \/ Refuse(j)
     \/ Answer(j, "ok", TRUE)
     \/ \E done \in BOOLEAN : Answer(j, "failed", done)

HandleLook(j) ==
  /\ j.run.op = "look"
  /\ Refuse(j) \/ \E st \in {"ok", "failed"} : Answer(j, st, TRUE)

GuestStep == \E j \in jobs : HandleExec(j) \/ HandleFile(j) \/ HandleLook(j)

-----------------------------------------------------------------------------
(* The virtual machine under the guest                                     *)

(* A VM that goes takes its threads with it, in the middle of a command.   *)
Drop == /\ vm' = 0
        /\ jobs' = {j \in jobs : j.vm # vm}
        /\ UNCHANGED <<call, calls, ran, boots>>

(* A VM takes the socket path of the one before it, which may still run.   *)
Boot == /\ boots < MaxBoots
        /\ boots' = boots + 1 /\ vm' = boots + 1
        /\ UNCHANGED <<call, calls, jobs, ran>>

(* The process of the callers ends; what it asked for goes on in the guest.*)
HostDies == /\ call' = [c \in Callers |-> NoCall]
            /\ UNCHANGED <<calls, jobs, ran, vm, boots>>

-----------------------------------------------------------------------------

ClientNext ==
  \/ \E c \in Callers : ClientStep(c) \/ Collect(c)
  \/ \E c \in Callers, op \in Ops, n \in 1..MaxCalls : Issue(c, op, [by |-> c, n |-> n])
  \/ GuestStep \/ Drop \/ Boot \/ HostDies

ClientSpec == ClientInit /\ [][ClientNext]_clientVars

-----------------------------------------------------------------------------
(* Properties                                                              *)

Call == [id : Requests \cup {None}, op : Ops, pc : {"idle", "connect", "wait"},
         att : 0..MaxRetries, res : {"none"} \cup Statuses \cup Errors]

(* Type invariant of the client, the guest and the machine.                *)
ClientTypeOK ==
  /\ call \in [Callers -> Call]
  /\ calls \subseteq Requests
  /\ boots \in 0..MaxBoots /\ vm \in 0..boots
  /\ jobs \subseteq Job
  /\ ran \subseteq Attempt

(* sandbox_client.py:33 "retry on transient failures": however connections *)
(* break, answers are lost and machines go, no thread of the guest ever    *)
(* runs a request in an attempt beyond the last, and the attempts of one   *)
(* request never run twice.                                                *)
AttemptsBounded ==
  /\ \A r \in ran : r.att <= MaxRetries
  /\ \A j \in jobs : j.run.att <= MaxRetries /\ j.run \notin ran

(* A 200 is never made up: the request did take effect in a guest, in the  *)
(* attempt whose answer it is, and no other request's answer is taken for  *)
(* it (sandbox_client.py:319-350, exec_agent.py:205-276).                  *)
AnswerIsOwn ==
  \A c \in Callers : call[c].res \in {"ok", "timed_out"} =>
    [id |-> call[c].id, op |-> call[c].op, att |-> call[c].att] \in ran

=============================================================================
