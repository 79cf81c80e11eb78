-------------------------- MODULE MCPServerProofs --------------------------
(***************************************************************************)
(* Theorems about SandboxClient and MCPServer for any number of threads,   *)
(* retries, requests, machines and server processes.                       *)
(*                                                                         *)
(* The transport comes first.  That an answer is the request's own, and    *)
(* that an attempt runs once, are not inductive: they need that an attempt *)
(* about to be sent has never been sent (Past), which in turn needs that a *)
(* request number is used by one thread and once (OwnRequest).             *)
(*                                                                         *)
(* Seen from the transport, the server is one of the programs that use     *)
(* SandboxClient as its specification says: Spec implements ClientSpec, so *)
(* what was shown of it holds here.  What the log says of the guest needs, *)
(* besides, that the numbers of requests only grow (Numbered) and that a   *)
(* thread waits for the request of its tool (Called).  That the log misses *)
(* no effect needs that every request on its way was noted before          *)
(* (EffectInv), and that no entry and no gap goes away.  That a reset gives*)
(* a fresh VM needs that what runs is younger than every entry (FreshInv). *)
(***************************************************************************)
EXTENDS MCPServer, SequenceTheorems, TLAPS

(* --------------------- The transport: SandboxClient -------------------- *)

(* The attempts that reached a guest.                                      *)
Sent == ran \cup {j.run : j \in jobs}

(* What a thread waits for is a request of its own, without a result yet;  *)
(* what it has ended has one.                                              *)
OwnRequest ==
  \A c \in Callers :
    /\ call[c].id # None => call[c].id \in calls /\ call[c].id.by = c
    /\ call[c].pc # "idle" =>
         call[c].id # None /\ call[c].res = "none" /\ call[c].att \in 1..MaxRetries
    /\ call[c].id # None /\ call[c].pc = "idle" => call[c].res # "none"

(* An attempt in a guest belongs to an issued request, asks what the       *)
(* request asks, and is behind the one that is about to be sent.           *)
Past ==
  \A r \in Sent :
    /\ r.id \in calls
    /\ \A c \in Callers : call[c].id = r.id =>
         /\ r.op = call[c].op
         /\ call[c].pc = "connect" => r.att < call[c].att
         /\ call[c].pc = "wait" => r.att <= call[c].att

(* An attempt has one thread.                                              *)
OneJob ==
  /\ \A j, k \in jobs : j.run = k.run => j = k
  /\ \A j \in jobs : j.run \notin ran

Inv == ClientTypeOK /\ OwnRequest /\ Past /\ OneJob /\ AnswerIsOwn

-----------------------------------------------------------------------------

LEMMA NoneIsNoRequest == None \notin Requests
BY DEF None, Requests

LEMMA InitInv == ClientInit => Inv
<1> SUFFICES ASSUME ClientInit PROVE Inv
  OBVIOUS
<1>1. ClientTypeOK
  BY RetriesAssumption, BoundsAssumption
     DEF ClientInit, ClientTypeOK, NoCall, Call, Ops, Statuses, Errors
<1>2. OwnRequest
  BY DEF ClientInit, OwnRequest, NoCall
<1>3. Past /\ OneJob
  BY DEF ClientInit, Past, OneJob, Sent
<1>4. AnswerIsOwn
  BY DEF ClientInit, AnswerIsOwn, NoCall
<1> QED
  BY <1>1, <1>2, <1>3, <1>4 DEF Inv

(* The call of one thread ends with an error, or turns to its next         *)
(* attempt, and the guest is not concerned.                                *)
Failed(c, err) == End(c, err) \/ (call[c].att < MaxRetries /\ Again(c))

LEMMA FailedInv ==
  ASSUME Inv, NEW c \in Callers, call[c].pc # "idle", NEW err \in Errors, Failed(c, err),
         UNCHANGED <<calls, jobs, ran, vm, boots>>
  PROVE  Inv'
<1> USE RetriesAssumption, BoundsAssumption
<1>1. ClientTypeOK /\ OwnRequest
  BY DEF Inv
<1>2. ClientTypeOK'
  BY <1>1 DEF ClientTypeOK, OwnRequest, Failed, End, Again, Call, Errors
<1>3. OwnRequest'
  BY <1>1 DEF ClientTypeOK, OwnRequest, Failed, End, Again, Call, Errors
<1>4. Past'
  <2> SUFFICES ASSUME NEW r \in Sent
      PROVE  /\ r.id \in calls'
             /\ \A b \in Callers : call'[b].id = r.id =>
                  /\ r.op = call'[b].op
                  /\ call'[b].pc = "connect" => r.att < call'[b].att
                  /\ call'[b].pc = "wait" => r.att <= call'[b].att
    BY DEF Past, Sent
  <2>1. r.id \in calls /\ r \in Attempt
    BY DEF Inv, Past, ClientTypeOK, Sent, Job
  <2>2. ASSUME NEW b \in Callers, call'[b].id = r.id
        PROVE  /\ r.op = call'[b].op
               /\ call'[b].pc = "connect" => r.att < call'[b].att
               /\ call'[b].pc = "wait" => r.att <= call'[b].att
    <3>1. call[b].id = r.id /\ call'[b].op = call[b].op
      BY <1>1, <2>2 DEF ClientTypeOK, Call, Failed, End, Again
    <3>2. /\ r.op = call[b].op
          /\ call[b].pc = "connect" => r.att < call[b].att
          /\ call[b].pc = "wait" => r.att <= call[b].att
      BY <3>1 DEF Inv, Past
    <3>3. r.att \in Nat /\ call[b].att \in Nat
      BY <1>1, <2>1 DEF ClientTypeOK, Call, Attempt
    <3>4. CASE b # c
      BY <1>1, <3>2, <3>4 DEF ClientTypeOK, Failed, End, Again
    <3>5. CASE b = c
      BY <1>1, <3>2, <3>3, <3>5 DEF ClientTypeOK, Call, Failed, End, Again
    <3> QED
      BY <3>4, <3>5
  <2> QED
    BY <2>1, <2>2
<1>5. OneJob'
  BY DEF Inv, OneJob
<1>6. AnswerIsOwn'
  BY <1>1 DEF Inv, AnswerIsOwn, OwnRequest, ClientTypeOK, Call, Errors, Failed, End, Again
<1> QED
  BY <1>2, <1>3, <1>4, <1>5, <1>6 DEF Inv

-----------------------------------------------------------------------------
(* Steps of the client                                                     *)

LEMMA IssueInv ==
  ASSUME Inv, NEW c \in Callers, NEW op \in Ops, NEW n \in 1..MaxCalls,
         Issue(c, op, [by |-> c, n |-> n])
  PROVE  Inv'
<1> USE RetriesAssumption, BoundsAssumption
<1> DEFINE id == [by |-> c, n |-> n]
<1>1. ClientTypeOK /\ OwnRequest
  BY DEF Inv
<1>2. id \in Requests /\ id \notin calls /\ id # None
  BY NoneIsNoRequest DEF Issue, Requests
<1>3. /\ call' = [call EXCEPT ![c] = [id |-> id, op |-> op, pc |-> "connect",
                                      att |-> 1, res |-> "none"]]
      /\ calls' = calls \cup {id}
      /\ UNCHANGED <<jobs, ran, vm, boots>>
  BY DEF Issue
<1> HIDE DEF id
<1>4. ClientTypeOK'
  BY <1>1, <1>2, <1>3 DEF ClientTypeOK, Call
<1>5. OwnRequest'
  <2>1. id.by = c
    BY DEF id
  <2> QED
    BY <1>1, <1>2, <1>3, <2>1 DEF ClientTypeOK, OwnRequest
<1>6. Past'
  <2>1. \A r \in Sent : r.id \in calls /\ r.id # id
    BY <1>2 DEF Inv, Past
  <2> QED
    BY <1>1, <1>3, <2>1 DEF Inv, Past, Sent, ClientTypeOK
<1>7. OneJob'
  BY <1>3 DEF Inv, OneJob
<1>8. AnswerIsOwn'
  BY <1>1, <1>3 DEF Inv, AnswerIsOwn, ClientTypeOK
<1> QED
  BY <1>4, <1>5, <1>6, <1>7, <1>8 DEF Inv

LEMMA CollectInv == ASSUME Inv, NEW c \in Callers, Collect(c) PROVE Inv'
<1> USE RetriesAssumption, BoundsAssumption
<1>1. ClientTypeOK'
  BY DEF Inv, ClientTypeOK, Collect, NoCall, Call, Ops
<1>2. OwnRequest'
  BY DEF Inv, ClientTypeOK, OwnRequest, Collect, NoCall
<1>3. Past'
  <2>1. \A r \in Sent : r.id # None
    BY NoneIsNoRequest DEF Inv, ClientTypeOK, Past
  <2> QED
    BY <2>1 DEF Inv, ClientTypeOK, Past, Sent, Collect, NoCall
<1>4. OneJob' /\ AnswerIsOwn'
  BY DEF Inv, ClientTypeOK, OneJob, AnswerIsOwn, Collect, NoCall
<1> QED
  BY <1>1, <1>2, <1>3, <1>4 DEF Inv

LEMMA ConnectInv == ASSUME Inv, NEW c \in Callers, Connect(c) PROVE Inv'
<1> USE RetriesAssumption, BoundsAssumption
<1> DEFINE new == [id |-> call[c].id, op |-> call[c].op, att |-> call[c].att]
<1>1. ClientTypeOK /\ OwnRequest
  BY DEF Inv
<1>2. /\ call[c].pc = "connect" /\ vm # 0
      /\ jobs' = jobs \cup {[run |-> new, vm |-> vm]}
      /\ call' = [call EXCEPT ![c].pc = "wait"]
      /\ UNCHANGED <<calls, ran, vm, boots>>
  BY DEF Connect
<1>3. /\ call[c].id # None /\ call[c].id \in calls /\ call[c].id.by = c
      /\ call[c].res = "none" /\ call[c].att \in 1..MaxRetries
  BY <1>1, <1>2 DEF OwnRequest
<1>4. new \in Attempt
  BY <1>1, <1>3 DEF ClientTypeOK, Call, Attempt
<1>5. new \notin Sent
  <2> SUFFICES ASSUME new \in Sent PROVE FALSE
    OBVIOUS
  <2>1. new.att < call[c].att
    BY <1>2 DEF Inv, Past
  <2> QED
    BY <1>3, <2>1
<1>6. Sent' = Sent \cup {new}
  <2>1. jobs' = jobs \cup {[run |-> new, vm |-> vm]} /\ ran' = ran
    BY <1>2
  <2> HIDE DEF new
  <2>2. [run |-> new, vm |-> vm].run = new
    OBVIOUS
  <2>3. {j.run : j \in jobs'} = {j.run : j \in jobs} \cup {new}
    BY <2>1, <2>2
  <2> QED
    BY <2>1, <2>3 DEF Sent
<1>7. ClientTypeOK'
  BY <1>1, <1>2, <1>4 DEF ClientTypeOK, Call, Job
<1>8. OwnRequest'
  BY <1>1, <1>2 DEF ClientTypeOK, OwnRequest
<1>9. Past'
  <2>1. ASSUME NEW b \in Callers, call[b].id = call[c].id
        PROVE  b = c
    BY <1>1, <1>3, <2>1 DEF OwnRequest
  <2>2. ASSUME NEW r \in Sent', NEW b \in Callers, call'[b].id = r.id
        PROVE  /\ r.op = call'[b].op
               /\ call'[b].pc = "connect" => r.att < call'[b].att
               /\ call'[b].pc = "wait" => r.att <= call'[b].att
    <3>1. call'[b].id = call[b].id /\ call'[b].op = call[b].op /\ call'[b].att = call[b].att
          /\ call'[b].pc = (IF b = c THEN "wait" ELSE call[b].pc)
      BY <1>1, <1>2 DEF ClientTypeOK, Call
    <3>2. CASE r = new
      <4>1. /\ r.id = call[c].id /\ r.op = call[c].op /\ r.att = call[c].att
            /\ call[c].att \in Nat
        BY <1>3, <3>2
      <4>2. b = c
        BY <2>1, <2>2, <3>1, <4>1
      <4> QED
        BY <3>1, <4>1, <4>2
    <3>3. CASE r \in Sent
      <4>1. /\ r.op = call[b].op
            /\ call[b].pc = "connect" => r.att < call[b].att
            /\ call[b].pc = "wait" => r.att <= call[b].att
        BY <2>2, <3>1, <3>3 DEF Inv, Past
      <4>2. r.att \in Nat /\ call[b].att \in Nat
        BY <1>1, <3>3 DEF ClientTypeOK, Call, Sent, Job, Attempt
      <4> QED
        BY <1>2, <3>1, <4>1, <4>2
    <3> QED
      BY <1>6, <3>2, <3>3
  <2>3. \A r \in Sent' : r.id \in calls'
    BY <1>2, <1>3, <1>6 DEF Inv, Past
  <2> QED
    BY <2>2, <2>3 DEF Past
<1>10. OneJob'
  BY <1>2, <1>5 DEF Inv, OneJob, Sent
<1>11. AnswerIsOwn'
  BY <1>1, <1>2 DEF Inv, AnswerIsOwn, ClientTypeOK, Call
<1> QED
  BY <1>7, <1>8, <1>9, <1>10, <1>11 DEF Inv

LEMMA ClientStepInv == ASSUME Inv, NEW c \in Callers, ClientStep(c) PROVE Inv'
<1>1. CASE Connect(c)
  BY <1>1, ConnectInv
<1>2. CASE ConnectFails(c)
  BY <1>2, FailedInv DEF ConnectFails, Retry, Failed, Errors
<1>3. CASE HandshakeTimeout(c)
  BY <1>3, FailedInv DEF HandshakeTimeout, Failed, Errors
<1>4. CASE ConnectionLost(c)
  BY <1>4, FailedInv DEF ConnectionLost, Retry, Failed, Errors
<1>5. CASE GiveUp(c)
  BY <1>5, FailedInv DEF GiveUp, Failed, Errors
<1> QED
  BY <1>1, <1>2, <1>3, <1>4, <1>5 DEF ClientStep

-----------------------------------------------------------------------------
(* Steps of the guest                                                      *)

(* Whatever the answer, if a good one means that the request was done.     *)
LEMMA AnswerInv ==
  ASSUME Inv, NEW j \in jobs, NEW st \in Statuses, NEW done \in BOOLEAN,
         st \in {"ok", "timed_out"} => done, Answer(j, st, done)
  PROVE  Inv'
<1> USE RetriesAssumption, BoundsAssumption
<1>1. ClientTypeOK /\ OwnRequest /\ j \in Job /\ j.run \in Attempt
  BY DEF Inv, ClientTypeOK, Job
<1>2. /\ jobs' = jobs \ {j}
      /\ ran' = IF done THEN ran \cup {j.run} ELSE ran
      /\ UNCHANGED <<calls, vm, boots>>
  BY DEF Answer
<1>3. Sent' \subseteq Sent
  BY <1>2 DEF Sent
<1>4. OneJob'
  BY <1>2 DEF Inv, OneJob
<1>5. CASE UNCHANGED call
  <2>1. ClientTypeOK'
    BY <1>1, <1>2, <1>5 DEF ClientTypeOK
  <2>2. OwnRequest' /\ Past' /\ AnswerIsOwn'
    BY <1>2, <1>3, <1>5 DEF Inv, OwnRequest, Past, AnswerIsOwn
  <2> QED
    BY <1>4, <2>1, <2>2 DEF Inv
<1>6. ASSUME NEW c \in Callers, Listening(c, j),
             IF st = "failed" /\ call[c].att < MaxRetries THEN Again(c) ELSE End(c, st)
      PROVE  Inv'
  <2>1. /\ call[c].pc = "wait" /\ call[c].id = j.run.id /\ call[c].att = j.run.att
        /\ call[c].op = j.run.op
    BY <1>6 DEF Listening, Inv, Past, Sent
  <2>2. \/ call' = [call EXCEPT ![c].pc = "connect", ![c].att = @ + 1] /\ call[c].att < MaxRetries
        \/ call' = [call EXCEPT ![c].pc = "idle", ![c].res = st]
    BY <1>6 DEF Again, End
  <2>3. ClientTypeOK'
    BY <1>1, <1>2, <2>2 DEF ClientTypeOK, Call
  <2>4. OwnRequest'
    BY <1>1, <1>2, <2>1, <2>2 DEF ClientTypeOK, OwnRequest, Call, Statuses
  <2>5. Past'
    <3>1. ASSUME NEW r \in Sent', NEW b \in Callers, call'[b].id = r.id
          PROVE  /\ r.op = call'[b].op
                 /\ call'[b].pc = "connect" => r.att < call'[b].att
                 /\ call'[b].pc = "wait" => r.att <= call'[b].att
      <4>1. r \in Sent /\ call[b].id = r.id /\ call'[b].op = call[b].op
        BY <1>1, <1>3, <2>2, <3>1 DEF ClientTypeOK, Call
      <4>2. /\ r.op = call[b].op
            /\ call[b].pc = "connect" => r.att < call[b].att
            /\ call[b].pc = "wait" => r.att <= call[b].att
        BY <4>1 DEF Inv, Past
      <4>3. r.att \in Nat /\ call[b].att \in Nat
        BY <1>1, <4>1 DEF ClientTypeOK, Call, Sent, Job, Attempt
      <4>4. CASE b # c
        BY <1>1, <2>2, <4>1, <4>2, <4>4 DEF ClientTypeOK
      <4>5. CASE b = c
        BY <1>1, <2>1, <2>2, <4>1, <4>2, <4>3, <4>5 DEF ClientTypeOK, Call
      <4> QED
        BY <4>4, <4>5
    <3>2. \A r \in Sent' : r.id \in calls'
      BY <1>2, <1>3 DEF Inv, Past
    <3> QED
      BY <3>1, <3>2 DEF Past
  <2>6. AnswerIsOwn'
    <3>1. ASSUME NEW b \in Callers, call'[b].res \in {"ok", "timed_out"}
          PROVE  [id |-> call'[b].id, op |-> call'[b].op, att |-> call'[b].att] \in ran'
      <4>1. CASE b # c
        <5>1. call'[b] = call[b]
          BY <1>1, <2>2, <4>1 DEF ClientTypeOK
        <5> QED
          BY <1>2, <3>1, <5>1 DEF Inv, AnswerIsOwn
      <4>2. CASE b = c
        <5>1. call[c].res = "none"
          BY <1>1, <2>1 DEF OwnRequest
        <5>2. /\ call'[c].res = st /\ call'[c].id = call[c].id
              /\ call'[c].op = call[c].op /\ call'[c].att = call[c].att
          BY <1>1, <2>2, <3>1, <4>2, <5>1 DEF ClientTypeOK, Call
        <5>3. j.run \in ran'
          BY <1>2, <3>1, <4>2, <5>2
        <5>4. j.run = [id |-> j.run.id, op |-> j.run.op, att |-> j.run.att]
          BY <1>1 DEF Attempt
        <5> QED
          BY <2>1, <4>2, <5>2, <5>3, <5>4
      <4> QED
        BY <4>1, <4>2
    <3> QED
      BY <3>1 DEF AnswerIsOwn
  <2> QED
    BY <1>4, <2>3, <2>4, <2>5, <2>6 DEF Inv
<1> QED
  BY <1>5, <1>6 DEF Answer, Receive

LEMMA GuestStepInv == ASSUME Inv, GuestStep PROVE Inv'
<1>1. PICK j \in jobs : HandleExec(j) \/ HandleFile(j) \/ HandleLook(j)
  BY DEF GuestStep
<1>2. PICK st \in Statuses, done \in BOOLEAN :
        (st \in {"ok", "timed_out"} => done) /\ Answer(j, st, done)
  <2>1. CASE HandleExec(j)
    BY <2>1 DEF HandleExec, Refuse, Statuses
  <2>2. CASE HandleFile(j)
    BY <2>2 DEF HandleFile, Refuse, Statuses
  <2>3. CASE HandleLook(j)
    BY <2>3 DEF HandleLook, Refuse, Statuses
  <2> QED
    BY <1>1, <2>1, <2>2, <2>3
<1> QED
  BY <1>2, AnswerInv

-----------------------------------------------------------------------------
(* Steps of the machine and of the host process                            *)

LEMMA DropInv == ASSUME Inv, Drop PROVE Inv'
<1> USE RetriesAssumption, BoundsAssumption
<1>1. ClientTypeOK'
  BY DEF Inv, ClientTypeOK, Drop
<1>2. Sent' \subseteq Sent
  BY DEF Drop, Sent
<1>3. OwnRequest' /\ Past' /\ OneJob' /\ AnswerIsOwn'
  BY <1>2 DEF Inv, OwnRequest, Past, OneJob, AnswerIsOwn, Drop
<1> QED
  BY <1>1, <1>3 DEF Inv

LEMMA BootInv == ASSUME Inv, Boot PROVE Inv'
<1> USE RetriesAssumption, BoundsAssumption
<1>1. ClientTypeOK'
  BY DEF Inv, ClientTypeOK, Boot
<1>2. OwnRequest' /\ Past' /\ OneJob' /\ AnswerIsOwn'
  BY DEF Inv, OwnRequest, Past, OneJob, AnswerIsOwn, Sent, Boot
<1> QED
  BY <1>1, <1>2 DEF Inv

LEMMA HostDiesInv == ASSUME Inv, HostDies PROVE Inv'
<1> USE RetriesAssumption, BoundsAssumption
<1>1. ClientTypeOK'
  BY DEF Inv, ClientTypeOK, HostDies, NoCall, Call, Ops
<1>2. OwnRequest'
  BY DEF Inv, OwnRequest, HostDies, NoCall
<1>3. Past'
  <2>1. \A r \in Sent : r.id # None
    BY NoneIsNoRequest DEF Inv, ClientTypeOK, Past
  <2> QED
    BY <2>1 DEF Inv, Past, Sent, HostDies, NoCall
<1>4. OneJob' /\ AnswerIsOwn'
  BY DEF Inv, OneJob, AnswerIsOwn, HostDies, NoCall
<1> QED
  BY <1>1, <1>2, <1>3, <1>4 DEF Inv

-----------------------------------------------------------------------------

LEMMA NextInv == ASSUME Inv, [ClientNext]_clientVars PROVE Inv'
<1>1. CASE \E c \in Callers : ClientStep(c) \/ Collect(c)
  BY <1>1, ClientStepInv, CollectInv
<1>2. CASE \E c \in Callers, op \in Ops, n \in 1..MaxCalls : Issue(c, op, [by |-> c, n |-> n])
  BY <1>2, IssueInv
<1>3. CASE GuestStep
  BY <1>3, GuestStepInv
<1>4. CASE Drop \/ Boot \/ HostDies
  BY <1>4, DropInv, BootInv, HostDiesInv
<1>5. CASE UNCHANGED clientVars
  BY <1>5 DEF clientVars, Inv, ClientTypeOK, OwnRequest, Past, Sent, OneJob, AnswerIsOwn
<1> QED
  BY <1>1, <1>2, <1>3, <1>4, <1>5 DEF ClientNext

(* sandbox_client.py:319-350, exec_agent.py:205-276: for any number of     *)
(* threads, retries, requests and machines, and whatever is lost or late,  *)
(* a 200 is the answer to this request, which took effect in the attempt   *)
(* that was answered.                                                      *)
THEOREM AnswersAreOwn == ClientSpec => []AnswerIsOwn
<1>1. Inv => AnswerIsOwn
  BY DEF Inv
<1> QED
  BY InitInv, NextInv, <1>1, PTL DEF ClientSpec

(* sandbox_client.py:33 "retry on transient failures": an attempt beyond   *)
(* the last never reaches a guest, and no attempt runs twice, so a request *)
(* runs at most MaxRetries times.                                          *)
THEOREM AttemptsAreBounded == ClientSpec => []AttemptsBounded
<1>1. Inv => AttemptsBounded
  BY RetriesAssumption DEF Inv, ClientTypeOK, OneJob, AttemptsBounded, Attempt, Job
<1> QED
  BY InitInv, NextInv, <1>1, PTL DEF ClientSpec

(* --------------------- The server: MCPServer ---------------------------- *)

Tool == [op : Ops \cup {"none", "reset"}, pc : PCs, id : Requests \cup {None}]
Entry == [proc : Procs, seq : Nat, event : Events, id : Requests \cup {None},
          res : {"none", "no_code"} \cup Statuses, vm : 0..MaxBoots]

(* A tool on its way to the guest has a request of its thread.             *)
OwnTool ==
  \A c \in Callers : tool[c].pc \in {"check", "issue", "called"} =>
    tool[c].op \in Ops /\ tool[c].id \in Requests /\ tool[c].id.by = c

ToolInv ==
  /\ tool \in [Callers -> Tool]
  /\ begun \in [Callers -> 0..MaxCalls]
  /\ OwnTool

-----------------------------------------------------------------------------

LEMMA InitToolInv == Init => ToolInv
<1> SUFFICES ASSUME Init PROVE ToolInv
  OBVIOUS
<1> QED
  BY BoundsAssumption DEF Init, ToolInv, OwnTool, Tool, NoTool, PCs

(* The steps of a thread that do not begin a tool.                         *)
LEMMA GotoToolInv ==
  ASSUME ToolInv, NEW c \in Callers, begun' = begun,
         \/ Return(c)
         \/ \E pc \in PCs : Goto(c, pc) /\ (pc \in {"check", "issue", "called"} =>
                                tool[c].pc \in {"check", "issue", "called"})
  PROVE  ToolInv'
<1>1. CASE Return(c)
  BY <1>1 DEF ToolInv, OwnTool, Return, NoTool, Tool, PCs
<1>2. ASSUME NEW pc \in PCs, Goto(c, pc),
             pc \in {"check", "issue", "called"} => tool[c].pc \in {"check", "issue", "called"}
      PROVE  ToolInv'
  <2>1. tool' = [tool EXCEPT ![c].pc = pc]
    BY <1>2 DEF Goto
  <2>2. tool' \in [Callers -> Tool] /\ begun' \in [Callers -> 0..MaxCalls]
    BY <2>1 DEF ToolInv, Tool
  <2>3. OwnTool'
    BY <1>2, <2>1 DEF ToolInv, OwnTool, Tool
  <2> QED
    BY <2>2, <2>3 DEF ToolInv
<1> QED
  BY <1>1, <1>2

LEMMA EnterToolInv ==
  ASSUME ToolInv, NEW c \in Callers, NEW op \in Ops \cup {"reset"}, NEW pc \in PCs,
         op = "reset" => pc = "stop", Enter(c, op, pc)
  PROVE  ToolInv'
<1> DEFINE id == [by |-> c, n |-> begun[c] + 1]
<1>1. id \in Requests /\ id.by = c
  BY BoundsAssumption DEF Enter, ToolInv, Requests
<1>2. /\ begun' = [begun EXCEPT ![c] = @ + 1] /\ begun[c] < MaxCalls
      /\ tool' = [tool EXCEPT ![c] = [op |-> op, pc |-> pc, id |-> id]]
  BY DEF Enter
<1> HIDE DEF id
<1>3. tool' \in [Callers -> Tool]
  BY <1>1, <1>2 DEF ToolInv, Tool
<1>4. begun' \in [Callers -> 0..MaxCalls]
  BY <1>2, BoundsAssumption DEF ToolInv
<1>5. OwnTool'
  BY <1>1, <1>2 DEF ToolInv, OwnTool, Tool
<1> QED
  BY <1>3, <1>4, <1>5 DEF ToolInv

(* Every step of a thread of the process is one of these.                  *)
LEMMA BeginToolInv ==
  ASSUME ToolInv, NEW c \in Callers, Begin(c)
  PROVE  ToolInv' /\ UNCHANGED clientVars
<1> USE McpAssumption
<1>1. CASE c = Mcp /\ (SandboxExec \/ FileTool \/ DownloadTool \/ LookTool)
  BY <1>1, EnterToolInv DEF SandboxExec, FileTool, DownloadTool, LookTool, AuditedTool, Ops, PCs
<1>2. CASE c = Mcp /\ UploadTool
  <2>1. CASE AuditedTool("file", "issue")
    BY <2>1, EnterToolInv DEF AuditedTool, Ops, PCs
  <2>2. CASE ~AuditedTool("file", "issue")
    BY <1>2, <2>2, BoundsAssumption DEF UploadTool, ToolInv, OwnTool
  <2> QED
    BY <2>1, <2>2
<1>3. CASE ApiExec(c) \/ ApiLook(c)
  BY <1>3, EnterToolInv DEF ApiExec, ApiLook, DashboardBegin, Ops, PCs
<1>4. CASE ResetBegin(c)
  BY <1>4, EnterToolInv DEF ResetBegin, PCs
<1> QED
  BY <1>1, <1>2, <1>3, <1>4 DEF Begin

LEMMA ProceedToolInv == ASSUME ToolInv, NEW c \in Callers, Proceed(c) PROVE ToolInv'
<1> USE McpAssumption
<1>1. CASE c = Mcp /\ ToolCheck
  BY <1>1, GotoToolInv DEF ToolCheck, At, PCs
<1>2. CASE Send(c)
  BY <1>2, GotoToolInv DEF Send, At, PCs
<1>3. CASE Finish(c)
  BY <1>3, GotoToolInv DEF Finish
<1>4. CASE Reset(c)
  <2>1. CASE ResetStop(c)
    BY <2>1, GotoToolInv DEF ResetStop, PCs
  <2>2. CASE ResetStart(c)
    BY <2>2, GotoToolInv DEF ResetStart, PCs
  <2>3. CASE ResetLaunch(c)
    BY <2>3, GotoToolInv DEF ResetLaunch, PCs
  <2>4. CASE ResetHealth(c)
    BY <2>4, GotoToolInv DEF ResetHealth
  <2> QED
    BY <1>4, <2>1, <2>2, <2>3, <2>4 DEF Reset
<1>5. CASE ClientStep(c) /\ UNCHANGED <<phase, proc, seq, log, tool, begun>>
  BY <1>5 DEF ToolInv, OwnTool
<1> QED
  BY <1>1, <1>2, <1>3, <1>4, <1>5 DEF Proceed

LEMMA NextToolInv == ToolInv /\ [Next]_vars => ToolInv'
<1> SUFFICES ASSUME ToolInv, [Next]_vars PROVE ToolInv'
  OBVIOUS
<1>1. CASE ServerStart \/ ServerBoot \/ ServerHealth \/ ServerExit \/ Guest \/ UNCHANGED vars
  BY <1>1 DEF ServerStart, ServerBoot, ServerHealth, ServerExit, Guest, vars, ToolInv, OwnTool
<1>2. CASE ServerGone
  BY <1>2 DEF ServerGone, ToolInv, OwnTool, NoTool, Tool, PCs
<1>3. CASE \E c \in Callers : Begin(c) \/ Proceed(c)
  BY <1>3, BeginToolInv, ProceedToolInv
<1> QED
  BY <1>1, <1>2, <1>3 DEF Next

-----------------------------------------------------------------------------
(* The refinement                                                          *)

LEMMA ProceedClient ==
  ASSUME ToolInv, NEW c \in Callers, Proceed(c)
  PROVE  [ClientNext]_clientVars
<1>1. CASE c = Mcp /\ ToolCheck
  BY <1>1 DEF ToolCheck
<1>2. CASE Send(c)
  <2>1. /\ tool[c].op \in Ops
        /\ tool[c].id.n \in 1..MaxCalls /\ tool[c].id = [by |-> c, n |-> tool[c].id.n]
    BY <1>2 DEF Send, At, ToolInv, OwnTool, Requests
  <2>2. Issue(c, tool[c].op, [by |-> c, n |-> tool[c].id.n])
    BY <1>2, <2>1 DEF Send
  <2> QED
    BY <2>1, <2>2 DEF ClientNext
<1>3. CASE Finish(c)
  BY <1>3 DEF Finish, ClientNext
<1>4. CASE Reset(c)
  BY <1>4 DEF Reset, ResetStop, ResetStart, ResetLaunch, ResetHealth, ClientNext
<1>5. CASE ClientStep(c)
  BY <1>5 DEF ClientNext
<1> QED
  BY <1>1, <1>2, <1>3, <1>4, <1>5 DEF Proceed

LEMMA NextClient == ToolInv /\ [Next]_vars => [ClientNext]_clientVars
<1> SUFFICES ASSUME ToolInv, [Next]_vars PROVE [ClientNext]_clientVars
  OBVIOUS
<1>1. CASE ServerStart \/ UNCHANGED vars
  BY <1>1 DEF ServerStart, vars
<1>2. CASE ServerBoot \/ ServerHealth \/ ServerExit \/ ServerGone \/ Guest
  BY <1>2 DEF ServerBoot, ServerHealth, ServerExit, ServerGone, Guest, ClientNext
<1>3. CASE \E c \in Callers : Begin(c) \/ Proceed(c)
  BY <1>3, BeginToolInv, ProceedClient
<1> QED
  BY <1>1, <1>2, <1>3 DEF Next

(* Whatever tools, dashboard, resets, ends and restarts of the server do,  *)
(* the client and the guest only ever make steps of SandboxClient.         *)
THEOREM ServerImplementsClient == Spec => ClientSpec
<1>1. Init => ClientInit
  BY DEF Init
<1> QED
  BY <1>1, InitToolInv, NextToolInv, NextClient, PTL DEF Spec, ClientSpec

(* mcp_server.py:137-174: no tool and no dashboard request takes another's *)
(* answer, in any number of server processes, resets and retries.          *)
THEOREM ServerAnswersAreOwn == Spec => []AnswerIsOwn
BY ServerImplementsClient, AnswersAreOwn, PTL

-----------------------------------------------------------------------------
(* Types of the process and the log                                        *)

ServerTypes ==
  /\ phase \in {"off", "boot", "health", "ready", "exit"}
  /\ proc \in 0..MaxProcs /\ (phase # "off" => proc \in Procs)
  /\ seq \in [Procs -> Nat]
  /\ log \in Seq(Entry)

(* The entries that are new after a step.                                  *)
Old(i) == i \in DOMAIN log /\ log'[i] = log[i]
Plain(i) == log'[i].event \notin {"exec_blocked", "exec_result"}
Blocked(i) == /\ ToolCheck /\ Return(Mcp) /\ tool[Mcp].pc = "check"
              /\ log'[i].event = "exec_blocked" /\ log'[i].id = tool[Mcp].id
Result(i) == /\ Finish(Mcp) /\ call[Mcp].res \notin Errors
             /\ log'[i].event = "exec_result" /\ log'[i].id = tool[Mcp].id
             /\ log'[i].res = ExitOf(call[Mcp].res)

Grows == \A i \in DOMAIN log' : Old(i) \/ Plain(i) \/ Blocked(i) \/ Result(i)

LEMMA LogAsEffect ==
  ASSUME ClientTypeOK, seq \in [Procs -> Nat], log \in Seq(Entry),
         NEW p \in Procs, NEW event \in Events, NEW id \in Requests \cup {None},
         NEW res \in {"none", "no_code"} \cup Statuses, LogAs(p, event, id, res)
  PROVE  /\ seq' \in [Procs -> Nat] /\ log' \in Seq(Entry)
         /\ \A i \in DOMAIN log' :
              Old(i) \/ (log'[i].event = event /\ log'[i].id = id /\ log'[i].res = res)
<1> DEFINE e == [proc |-> p, seq |-> seq[p] + 1, event |-> event, id |-> id, res |-> res, vm |-> vm]
<1>1. seq' = [seq EXCEPT ![p] = @ + 1] /\ (log' = Append(log, e) \/ log' = log)
  BY DEF LogAs
<1>2. vm \in 0..MaxBoots
  BY BoundsAssumption DEF ClientTypeOK
<1>3. e \in Entry /\ e.event = event /\ e.id = id /\ e.res = res
  BY <1>2 DEF Entry
<1> HIDE DEF e
<1>4. seq' \in [Procs -> Nat]
  BY <1>1
<1>5. log' \in Seq(Entry)
  <2>1. e \in Entry
    BY <1>3
  <2>2. Append(log, e) \in Seq(Entry)
    BY <2>1, AppendProperties
  <2> QED
    BY <1>1, <2>2
<1>6. ASSUME NEW i \in DOMAIN log'
      PROVE  Old(i) \/ (log'[i].event = event /\ log'[i].id = id /\ log'[i].res = res)
  <2>1. CASE log' = log
    BY <1>6, <2>1 DEF Old
  <2>2. CASE log' = Append(log, e)
    <3>1. /\ DOMAIN log = 1..Len(log) /\ DOMAIN log' = 1..(Len(log) + 1)
          /\ \A k \in 1..Len(log) : log'[k] = log[k]
          /\ log'[Len(log) + 1] = e /\ Len(log) \in Nat
      BY <2>2, <1>3, AppendProperties, LenProperties
    <3>2. i \in 1..Len(log) \/ i = Len(log) + 1
      BY <3>1
    <3> QED
      BY <1>3, <3>1, <3>2 DEF Old
  <2> QED
    BY <1>1, <2>1, <2>2
<1> QED
  BY <1>4, <1>5, <1>6

(* A step that writes a plain entry, or none.                              *)
LEMMA PlainEntry ==
  ASSUME ClientTypeOK, ServerTypes, NEW p \in Procs,
         NEW event \in Events \ {"exec_blocked", "exec_result"}, NEW id \in Requests \cup {None},
         LogAs(p, event, id, "none") \/ UNCHANGED <<seq, log>>
  PROVE  seq' \in [Procs -> Nat] /\ log' \in Seq(Entry) /\ Grows
<1>1. CASE LogAs(p, event, id, "none")
  <2>1. /\ seq' \in [Procs -> Nat] /\ log' \in Seq(Entry)
        /\ \A i \in DOMAIN log' : Old(i) \/ log'[i].event = event
    BY <1>1, LogAsEffect DEF ServerTypes
  <2> QED
    BY <2>1 DEF Grows, Plain
<1>2. CASE UNCHANGED <<seq, log>>
  BY <1>2 DEF ServerTypes, Grows, Old
<1> QED
  BY <1>1, <1>2

LEMMA BeginTypes ==
  ASSUME ClientTypeOK, ToolInv, ServerTypes, NEW c \in Callers, Begin(c)
  PROVE  ServerTypes' /\ Grows
<1> USE McpAssumption
<1>1. phase = "ready" /\ UNCHANGED <<phase, proc>> /\ proc \in Procs
  BY DEF Begin, SandboxExec, FileTool, UploadTool, DownloadTool, LookTool, AuditedTool,
         ApiExec, ApiLook, DashboardBegin, ResetBegin, ServerTypes
<1>2. \/ UNCHANGED <<seq, log>>
      \/ \E event \in Events \ {"exec_blocked", "exec_result"}, id \in Requests \cup {None} :
           LogAs(proc, event, id, "none")
  <2>1. ASSUME NEW op \in {"exec", "file"}, NEW pc \in PCs, AuditedTool(op, pc)
        PROVE  \E id \in Requests \cup {None} : LogAs(proc, op, id, "none")
    <3>1. ToolInv'
      BY <2>1, EnterToolInv DEF AuditedTool, Ops
    <3>2. tool'[Mcp].id \in Requests \cup {None}
      BY <3>1 DEF ToolInv, Tool
    <3> QED
      BY <2>1, <3>2 DEF AuditedTool, Log
  <2>2. CASE c = Mcp /\ UploadTool /\ ~AuditedTool("file", "issue")
    <3>1. [by |-> Mcp, n |-> begun[Mcp] + 1] \in Requests
      BY <2>2, BoundsAssumption DEF UploadTool, ToolInv, Requests
    <3> QED
      BY <2>2, <3>1 DEF UploadTool, Log, Events
  <2>3. CASE ResetBegin(c)
    BY <2>3 DEF ResetBegin, Audit, Log, Events
  <2> QED
    BY <2>1, <2>2, <2>3 DEF Begin, SandboxExec, FileTool, UploadTool, DownloadTool, LookTool,
       ApiExec, ApiLook, DashboardBegin, Events, PCs
<1>3. seq' \in [Procs -> Nat] /\ log' \in Seq(Entry) /\ Grows
  <2>1. "exec" \in Events \ {"exec_blocked", "exec_result"}
    BY DEF Events
  <2> QED
    BY <1>1, <1>2, <2>1, PlainEntry
<1> QED
  BY <1>1, <1>3 DEF ServerTypes

LEMMA ToolCheckTypes ==
  ASSUME ClientTypeOK, ToolInv, ServerTypes, ToolCheck
  PROVE  ServerTypes' /\ Grows
<1> USE McpAssumption
<1>1. phase = "ready" /\ UNCHANGED <<phase, proc>> /\ proc \in Procs
  BY DEF ToolCheck, ServerTypes
<1>2. CASE UNCHANGED <<seq, log>>
  BY <1>1, <1>2 DEF ServerTypes, Grows, Old
<1>3. CASE Return(Mcp) /\ Log("exec_blocked", tool[Mcp].id, "none")
  <2>1. tool[Mcp].id \in Requests \cup {None} /\ tool[Mcp].pc = "check"
    BY DEF ToolInv, Tool, ToolCheck, At
  <2>2. /\ seq' \in [Procs -> Nat] /\ log' \in Seq(Entry)
        /\ \A i \in DOMAIN log' :
             Old(i) \/ (log'[i].event = "exec_blocked" /\ log'[i].id = tool[Mcp].id)
    <3>1. "exec_blocked" \in Events
      BY DEF Events
    <3>2. LogAs(proc, "exec_blocked", tool[Mcp].id, "none")
      BY <1>3 DEF Log
    <3>3. /\ seq \in [Procs -> Nat] /\ log \in Seq(Entry)
          /\ "none" \in {"none", "no_code"} \cup Statuses
      BY DEF ServerTypes
    <3> DEFINE id == tool[Mcp].id
    <3>4. LogAs(proc, "exec_blocked", id, "none") /\ id \in Requests \cup {None}
      BY <2>1, <3>2
    <3> HIDE DEF id
    <3>5. /\ seq' \in [Procs -> Nat] /\ log' \in Seq(Entry)
          /\ \A i \in DOMAIN log' :
               Old(i) \/ (log'[i].event = "exec_blocked" /\ log'[i].id = id)
      BY <1>1, <3>1, <3>3, <3>4, LogAsEffect
    <3> QED
      BY <3>5 DEF id
  <2> QED
    BY <1>1, <1>3, <2>1, <2>2 DEF ServerTypes, Grows, Blocked
<1> QED
  BY <1>2, <1>3 DEF ToolCheck

LEMMA FinishTypes ==
  ASSUME ClientTypeOK, ToolInv, ServerTypes, NEW c \in Callers, Finish(c)
  PROVE  ServerTypes' /\ Grows
<1> USE McpAssumption
<1>1. phase # "off" /\ UNCHANGED <<phase, proc>> /\ proc \in Procs
  BY DEF Finish, Alive, ServerTypes
<1>2. CASE UNCHANGED <<seq, log>>
  BY <1>1, <1>2 DEF ServerTypes, Grows, Old
<1>3. CASE c = Mcp /\ ExecResult(Mcp, call[Mcp].res)
  <2>1. tool[Mcp].id \in Requests \cup {None}
    BY DEF ToolInv, Tool
  <2>2. CASE call[Mcp].res \in Errors
    <3>1. LogAs(proc, "exec_error", tool[Mcp].id, "none")
      BY <1>3, <2>2 DEF ExecResult, Log
    <3>2. "exec_error" \in Events \ {"exec_blocked", "exec_result"}
      BY DEF Events
    <3> QED
      BY <1>1, <2>1, <3>1, <3>2, PlainEntry DEF ServerTypes
  <2>3. CASE call[Mcp].res \notin Errors
    <3>1. LogAs(proc, "exec_result", tool[Mcp].id, ExitOf(call[Mcp].res))
      BY <1>3, <2>3 DEF ExecResult, Log
    <3>2. ExitOf(call[Mcp].res) \in {"none", "no_code"} \cup Statuses
      BY <2>3 DEF ClientTypeOK, Call, ExitOf
    <3>3. "exec_result" \in Events
      BY DEF Events
    <3>4. /\ seq' \in [Procs -> Nat] /\ log' \in Seq(Entry)
          /\ \A i \in DOMAIN log' :
               Old(i) \/ (/\ log'[i].event = "exec_result" /\ log'[i].id = tool[Mcp].id
                          /\ log'[i].res = ExitOf(call[Mcp].res))
      BY <1>1, <2>1, <3>1, <3>2, <3>3, LogAsEffect DEF ServerTypes
    <3>5. ASSUME NEW i \in DOMAIN log', ~Old(i) PROVE Result(i)
      BY <1>3, <2>3, <3>4, <3>5 DEF Result
    <3>6. Grows
      BY <3>5 DEF Grows
    <3>7. ServerTypes'
      BY <1>1, <3>4 DEF ServerTypes
    <3> QED
      BY <3>6, <3>7
  <2> QED
    BY <2>2, <2>3
<1> QED
  BY <1>2, <1>3 DEF Finish

LEMMA ResetTypes ==
  ASSUME ClientTypeOK, ServerTypes, NEW c \in Callers, Reset(c)
  PROVE  ServerTypes' /\ Grows
<1>1. phase # "off" /\ UNCHANGED <<phase, proc>> /\ proc \in Procs
  BY DEF Reset, ResetStop, ResetStart, ResetLaunch, ResetHealth, Alive, ServerTypes
<1>2. \E event \in Events \ {"exec_blocked", "exec_result"} :
        LogAs(proc, event, None, "none") \/ UNCHANGED <<seq, log>>
  BY DEF Reset, ResetStop, ResetStart, ResetLaunch, ResetHealth, Audit, Log, Events
<1>3. seq' \in [Procs -> Nat] /\ log' \in Seq(Entry) /\ Grows
  BY <1>1, <1>2, PlainEntry
<1> QED
  BY <1>1, <1>3 DEF ServerTypes

LEMMA ServerStepTypes ==
  ASSUME ClientTypeOK, ServerTypes,
         ServerStart \/ ServerBoot \/ ServerHealth \/ ServerExit \/ ServerGone
  PROVE  ServerTypes' /\ Grows
<1> USE McpAssumption
<1>1. CASE ServerStart
  <2>1. proc + 1 \in Procs /\ proc' = proc + 1 /\ phase' = "boot"
    BY <1>1 DEF ServerStart, ServerTypes, Procs
  <2>2. LogAs(proc + 1, "server_start", None, "none")
    BY <1>1 DEF ServerStart
  <2>3. "server_start" \in Events \ {"exec_blocked", "exec_result"}
    BY DEF Events
  <2>4. seq' \in [Procs -> Nat] /\ log' \in Seq(Entry) /\ Grows
    BY <2>1, <2>2, <2>3, PlainEntry
  <2> QED
    BY <2>1, <2>4 DEF ServerTypes, Procs
<1>2. CASE ServerHealth
  <2>1. proc \in Procs /\ proc' = proc /\ phase' \in {"ready", "exit"}
    BY <1>2 DEF ServerHealth, ServerTypes
  <2>2. LogAs(proc, "server_ready", None, "none") \/ UNCHANGED <<seq, log>>
    BY <1>2 DEF ServerHealth, Log
  <2>3. "server_ready" \in Events \ {"exec_blocked", "exec_result"}
    BY DEF Events
  <2>4. seq' \in [Procs -> Nat] /\ log' \in Seq(Entry) /\ Grows
    BY <2>1, <2>2, <2>3, PlainEntry
  <2> QED
    BY <2>1, <2>4 DEF ServerTypes
<1>3. CASE ServerBoot \/ ServerExit \/ ServerGone
  BY <1>3 DEF ServerBoot, ServerExit, ServerGone, ServerTypes, Grows, Old
<1> QED
  BY <1>1, <1>2, <1>3

LEMMA NextTypes ==
  ASSUME ClientTypeOK, ToolInv, ServerTypes, [Next]_vars
  PROVE  ServerTypes' /\ Grows
<1>1. CASE ServerStart \/ ServerBoot \/ ServerHealth \/ ServerExit \/ ServerGone
  BY <1>1, ServerStepTypes
<1>2. ASSUME NEW c \in Callers, Begin(c) PROVE ServerTypes' /\ Grows
  BY <1>2, BeginTypes
<1>3. ASSUME NEW c \in Callers, Proceed(c) PROVE ServerTypes' /\ Grows
  <2>1. CASE ToolCheck
    BY <2>1, ToolCheckTypes
  <2>2. CASE Finish(c)
    BY <2>2, FinishTypes
  <2>3. CASE Reset(c)
    BY <2>3, ResetTypes
  <2>4. CASE Send(c) \/ UNCHANGED <<phase, proc, seq, log, tool, begun>>
    BY <2>4 DEF Send, ServerTypes, Grows, Old
  <2> QED
    BY <1>3, <2>1, <2>2, <2>3, <2>4 DEF Proceed
<1>4. CASE Guest \/ UNCHANGED vars
  BY <1>4 DEF Guest, vars, ServerTypes, Grows, Old
<1> QED
  BY <1>1, <1>2, <1>3, <1>4 DEF Next

-----------------------------------------------------------------------------
(* What the log says of the guest                                          *)

(* A thread waits for the request of its tool.                             *)
Called == \A c \in Callers : tool[c].pc = "called" => call[c].id = tool[c].id

(* The numbers of a thread's requests only grow.                           *)
Numbered ==
  /\ \A id \in calls : id.n <= begun[id.by]
  /\ \A c \in Callers : tool[c].pc \in {"check", "issue"} =>
       tool[c].id \notin calls /\ tool[c].id.n <= begun[c]

(* A request that was begun, has not been sent, and that no tool has.      *)
Gone(id) ==
  /\ id \in Requests \ calls /\ id.n <= begun[id.by]
  /\ \A c \in Callers : tool[c].pc \in {"check", "issue"} => tool[c].id # id

BlockedForGood ==
  \A i \in DOMAIN log : log[i].event = "exec_blocked" => Gone(log[i].id)

Noted ==
  \A i \in DOMAIN log :
    log[i].event = "exec_result" /\ log[i].res # "no_code" => Ran(log[i].id)

ServerInv == Inv /\ ToolInv /\ ServerTypes
AuditInv == Called /\ Numbered /\ BlockedForGood /\ Noted

LEMMA NextServerInv == ServerInv /\ [Next]_vars => ServerInv' /\ Grows
BY NextInv, NextClient, NextToolInv, NextTypes DEF ServerInv, Inv

(* Steps of the transport other than Issue, Collect and HostDies.          *)
SameRequests ==
  /\ calls' = calls
  /\ \A c \in Callers : call'[c].id = call[c].id /\ call'[c].op = call[c].op

LEMMA TransportKeepsRequests ==
  ASSUME ClientTypeOK,
         (\E c \in Callers : ClientStep(c)) \/ GuestStep \/ Drop \/ Boot \/ UNCHANGED clientVars
  PROVE  SameRequests
<1> DEFINE Moves(c) == \/ Again(c) \/ \E res : End(c, res)
                      \/ call' = [call EXCEPT ![c].pc = "wait"]
<1>0. ASSUME NEW c \in Callers, calls' = calls, Moves(c) PROVE SameRequests
  BY <1>0 DEF ClientTypeOK, Call, Again, End, SameRequests
<1>1. ASSUME NEW c \in Callers, ClientStep(c) PROVE SameRequests
  <2>1. calls' = calls /\ Moves(c)
    BY <1>1 DEF ClientStep, Connect, ConnectFails, HandshakeTimeout, ConnectionLost, GiveUp, Retry
  <2> QED
    BY <1>0, <2>1
<1>2. CASE GuestStep
  <2>1. calls' = calls /\ (UNCHANGED call \/ \E c \in Callers : Moves(c))
    <3>1. PICK j \in jobs : \E st, done : Answer(j, st, done)
      BY <1>2 DEF GuestStep, HandleExec, HandleFile, HandleLook, Refuse
    <3> QED
      BY <3>1 DEF Answer, Receive
  <2> QED
    BY <1>0, <2>1 DEF SameRequests
<1>3. CASE Drop \/ Boot \/ UNCHANGED clientVars
  BY <1>3 DEF Drop, Boot, clientVars, SameRequests
<1> QED
  BY <1>1, <1>2, <1>3

(* What ran stays so.                                                      *)
LEMMA RanGrows == ASSUME [ClientNext]_clientVars PROVE ran \subseteq ran'
<1>1. CASE GuestStep
  BY <1>1 DEF GuestStep, HandleExec, HandleFile, HandleLook, Refuse, Answer
<1>2. CASE ~GuestStep
  BY <1>2 DEF ClientNext, clientVars, ClientStep, Connect, ConnectFails, HandshakeTimeout,
              ConnectionLost, GiveUp, Collect, Issue, Drop, Boot, HostDies
<1> QED
  BY <1>1, <1>2

(* A step in which no thread begins, sends or has returned to its tool.    *)
Steady ==
  /\ SameRequests /\ begun' = begun
  /\ \A c \in Callers :
       /\ tool'[c].pc \in {"check", "issue", "called"} =>
            tool'[c].id = tool[c].id /\ tool'[c].op = tool[c].op
       /\ tool'[c].pc = "called" => tool[c].pc = "called"
       /\ tool'[c].pc \in {"check", "issue"} => tool[c].pc \in {"check", "issue"}

LEMMA SteadyNumbers ==
  ASSUME Called, Numbered, Steady
  PROVE  Called' /\ Numbered'
BY DEF Called, Numbered, Steady, SameRequests

LEMMA BeginNumbers ==
  ASSUME ServerInv, Called, Numbered, NEW c \in Callers, Begin(c)
  PROVE  /\ Called' /\ Numbered' /\ calls' = calls
         /\ \A id \in Requests : id.by \in Callers => begun[id.by] <= begun'[id.by]
         /\ \A b \in Callers : tool'[b].pc \in {"check", "issue"} =>
              \/ tool[b].pc \in {"check", "issue"} /\ tool'[b].id = tool[b].id
              \/ tool'[b].id.by = b /\ tool'[b].id.n > begun[b]
<1> USE McpAssumption
<1>1. UNCHANGED <<call, calls>>
  BY BeginToolInv DEF ServerInv, clientVars
<1>2. /\ tool \in [Callers -> Tool] /\ begun \in [Callers -> 0..MaxCalls]
      /\ \A id \in calls : id \in Requests
  BY DEF ServerInv, ToolInv, Inv, ClientTypeOK
<1>3. \/ \E op, pc : pc # "called" /\ Enter(c, op, pc)
      \/ tool' = tool /\ begun' = [begun EXCEPT ![c] = @ + 1]
  BY DEF Begin, SandboxExec, FileTool, UploadTool, DownloadTool, LookTool, AuditedTool,
         ApiExec, ApiLook, DashboardBegin, ResetBegin
<1>4. /\ begun' = [begun EXCEPT ![c] = @ + 1]
      /\ \A b \in Callers \ {c} : tool'[b] = tool[b]
      /\ \/ tool'[c] = tool[c]
         \/ tool'[c].pc # "called" /\ tool'[c].id = [by |-> c, n |-> begun[c] + 1]
  BY <1>2, <1>3 DEF Enter
<1>5. \A b \in Callers : begun[b] \in Nat /\ begun'[b] \in Nat /\ begun[b] <= begun'[b]
  BY <1>2, <1>4, BoundsAssumption
<1>6. begun'[c] = begun[c] + 1
  BY <1>2, <1>4
<1>7. Called'
  BY <1>1, <1>4 DEF Called
<1>8. \A id \in Requests : id.by \in Callers /\ id.n \in Nat
  BY DEF Requests
<1>9. ASSUME NEW b \in Callers, tool'[b].pc \in {"check", "issue"}
      PROVE  /\ \/ tool[b].pc \in {"check", "issue"} /\ tool'[b].id = tool[b].id
                \/ tool'[b].id.by = b /\ tool'[b].id.n > begun[b]
             /\ tool'[b].id \notin calls /\ tool'[b].id.n <= begun'[b]
  <2>1. CASE tool'[b] = tool[b]
    <3>1. tool[b].id \notin calls /\ tool[b].id.n <= begun[b] /\ tool[b].id \in Requests
      BY <1>9, <2>1 DEF Numbered, ServerInv, ToolInv, OwnTool
    <3> QED
      BY <1>5, <1>8, <1>9, <2>1, <3>1
  <2>2. CASE b = c /\ tool'[c].id = [by |-> c, n |-> begun[c] + 1]
    BY <1>5, <1>6, <2>2 DEF Numbered
  <2> QED
    BY <1>4, <2>1, <2>2
<1>10. Numbered'
  <2>1. \A id \in calls : id.n <= begun'[id.by]
    BY <1>2, <1>5, <1>8 DEF Numbered
  <2> QED
    BY <1>1, <1>9, <2>1 DEF Numbered
<1> QED
  BY <1>1, <1>5, <1>7, <1>9, <1>10

LEMMA SendNumbers ==
  ASSUME ServerInv, Called, Numbered, NEW c \in Callers, Send(c)
  PROVE  /\ Called' /\ Numbered' /\ begun' = begun
         /\ tool[c].pc = "issue" /\ calls' = calls \cup {tool[c].id}
         /\ \A b \in Callers : tool'[b].pc \in {"check", "issue"} => tool'[b] = tool[b]
<1>1. /\ tool[c].pc = "issue" /\ calls' = calls \cup {tool[c].id} /\ begun' = begun
      /\ tool' = [tool EXCEPT ![c].pc = "called"]
      /\ call' = [call EXCEPT ![c] = [id |-> tool[c].id, op |-> tool[c].op, pc |-> "connect",
                                      att |-> 1, res |-> "none"]]
  BY DEF Send, At, Goto, Issue
<1>2. /\ tool \in [Callers -> Tool] /\ call \in [Callers -> Call]
      /\ \A b \in Callers : tool[b].pc \in {"check", "issue"} => tool[b].id.by = b
  BY DEF ServerInv, ToolInv, OwnTool, Inv, ClientTypeOK
<1>3. /\ tool'[c].pc = "called" /\ tool'[c].id = tool[c].id
      /\ \A b \in Callers \ {c} : tool'[b] = tool[b]
  BY <1>1, <1>2 DEF Tool
<1>4. Called'
  BY <1>1, <1>2, <1>3 DEF Called
<1>5. Numbered'
  BY <1>1, <1>2, <1>3 DEF Numbered
<1> QED
  BY <1>1, <1>3, <1>4, <1>5

LEMMA SteadyCases ==
  ASSUME ServerInv, [Next]_vars,
         \A c \in Callers : ~Begin(c) /\ ~Send(c) /\ ~Finish(c), ~ServerGone
  PROVE  Steady
<1>1. ClientTypeOK /\ tool \in [Callers -> Tool]
  BY DEF ServerInv, Inv, ToolInv
<1>2. CASE ServerStart \/ ServerBoot \/ ServerHealth \/ ServerExit \/ Guest \/ UNCHANGED vars
  <2>1. tool' = tool /\ begun' = begun
    BY <1>2 DEF ServerStart, ServerBoot, ServerHealth, ServerExit, Guest, vars
  <2>2. SameRequests
    <3>1. GuestStep \/ Drop \/ Boot \/ UNCHANGED clientVars
      BY <1>2 DEF ServerStart, ServerBoot, ServerHealth, ServerExit, Guest, vars
    <3> QED
      BY <1>1, <3>1, TransportKeepsRequests
  <2> QED
    BY <2>1, <2>2 DEF Steady
<1>3. ASSUME NEW c \in Callers, Proceed(c) PROVE Steady
  <2>1. begun' = begun /\ SameRequests
    <3>1. /\ begun' = begun
          /\ (\E b \in Callers : ClientStep(b)) \/ Drop \/ Boot \/ UNCHANGED clientVars
      BY <1>3 DEF Proceed, ToolCheck, Reset, ResetStop, ResetStart, ResetLaunch, ResetHealth
    <3> QED
      BY <1>1, <3>1, TransportKeepsRequests
  <2>2. \/ tool' = tool
        \/ \E b \in Callers : Return(b)
        \/ \E b \in Callers, pc \in PCs : Goto(b, pc) /\ pc # "called" /\
               (pc \in {"check", "issue"} => tool[b].pc \in {"check", "issue"})
    BY <1>3, McpAssumption
       DEF Proceed, ToolCheck, At, Reset, ResetStop, ResetStart, ResetLaunch, ResetHealth, PCs
  <2>3. ASSUME NEW b \in Callers, Return(b) PROVE Steady
    BY <1>1, <2>1, <2>3 DEF Return, NoTool, Steady
  <2>4. ASSUME NEW b \in Callers, NEW pc \in PCs, Goto(b, pc), pc # "called",
               pc \in {"check", "issue"} => tool[b].pc \in {"check", "issue"}
        PROVE  Steady
    BY <1>1, <2>1, <2>4 DEF Goto, Tool, Steady
  <2>5. CASE tool' = tool
    BY <2>1, <2>5 DEF Steady
  <2> QED
    BY <2>2, <2>3, <2>4, <2>5
<1> QED
  BY <1>2, <1>3 DEF Next

(* Without a result left to take, Finish and the end of the process.       *)
LEMMA EndNumbers ==
  ASSUME ServerInv, Called, Numbered, ServerGone \/ \E c \in Callers : Finish(c)
  PROVE  /\ Called' /\ Numbered' /\ calls' = calls /\ begun' = begun
         /\ \A b \in Callers : tool'[b].pc \in {"check", "issue"} => tool'[b] = tool[b]
<1>1. tool \in [Callers -> Tool] /\ call \in [Callers -> Call]
  BY DEF ServerInv, ToolInv, Inv, ClientTypeOK
<1>2. CASE ServerGone
  BY <1>2 DEF ServerGone, HostDies, NoTool, Called, Numbered
<1>3. ASSUME NEW c \in Callers, Finish(c)
      PROVE  /\ Called' /\ Numbered' /\ calls' = calls /\ begun' = begun
             /\ \A b \in Callers : tool'[b].pc \in {"check", "issue"} => tool'[b] = tool[b]
  <2>1. /\ calls' = calls /\ begun' = begun
        /\ tool' = [tool EXCEPT ![c] = NoTool] /\ call' = [call EXCEPT ![c] = NoCall]
    BY <1>3 DEF Finish, Collect, Return
  <2> QED
    BY <1>1, <2>1 DEF Called, Numbered, NoTool
<1> QED
  BY <1>2, <1>3

LEMMA GoneStays ==
  ASSUME ServerInv, Called, Numbered, [Next]_vars
  PROVE  Called' /\ Numbered' /\ \A id \in Requests : Gone(id) => Gone(id)'
<1>1. ASSUME NEW c \in Callers, Begin(c)
      PROVE  Called' /\ Numbered' /\ \A id \in Requests : Gone(id) => Gone(id)'
  <2>1. /\ Called' /\ Numbered' /\ calls' = calls
        /\ \A id \in Requests : id.by \in Callers => begun[id.by] <= begun'[id.by]
        /\ \A b \in Callers : tool'[b].pc \in {"check", "issue"} =>
             \/ tool[b].pc \in {"check", "issue"} /\ tool'[b].id = tool[b].id
             \/ tool'[b].id.by = b /\ tool'[b].id.n > begun[b]
    BY <1>1, BeginNumbers
  <2>2. ASSUME NEW id \in Requests, Gone(id) PROVE Gone(id)'
    <3>1. id.by \in Callers /\ id.n \in Nat
      BY DEF Requests
    <3>2. begun[id.by] \in Nat /\ begun'[id.by] \in Nat
      <4>1. ToolInv /\ ToolInv'
        BY NextToolInv DEF ServerInv
      <4> QED
        BY <3>1, <4>1, BoundsAssumption DEF ToolInv
    <3>3. id.n <= begun[id.by] /\ id.n <= begun'[id.by]
      BY <2>1, <2>2, <3>1, <3>2 DEF Gone
    <3>4. ASSUME NEW b \in Callers, tool'[b].pc \in {"check", "issue"} PROVE tool'[b].id # id
      BY <2>1, <2>2, <3>1, <3>2, <3>3, <3>4 DEF Gone
    <3> QED
      BY <2>1, <2>2, <3>3, <3>4 DEF Gone
  <2> QED
    BY <2>1, <2>2
<1>2. ASSUME NEW c \in Callers, Send(c)
      PROVE  Called' /\ Numbered' /\ \A id \in Requests : Gone(id) => Gone(id)'
  BY <1>2, SendNumbers DEF Gone
<1>3. CASE ServerGone \/ \E c \in Callers : Finish(c)
  BY <1>3, EndNumbers DEF Gone
<1>4. CASE /\ \A c \in Callers : ~Begin(c) /\ ~Send(c) /\ ~Finish(c)
           /\ ~ServerGone
  <2>1. Steady
    BY <1>4, SteadyCases
  <2> QED
    BY <2>1, SteadyNumbers DEF Gone, Steady, SameRequests
<1> QED
  BY <1>1, <1>2, <1>3, <1>4

LEMMA InitServerInv == Init => ServerInv /\ AuditInv
<1> SUFFICES ASSUME Init PROVE ServerInv /\ AuditInv
  OBVIOUS
<1>1. Inv /\ ToolInv
  BY InitInv, InitToolInv DEF Init
<1>2. ServerTypes
  BY McpAssumption DEF Init, ServerTypes
<1>3. AuditInv
  BY DEF Init, ClientInit, NoTool, AuditInv, Called, Numbered, BlockedForGood, Noted
<1> QED
  BY <1>1, <1>2, <1>3 DEF ServerInv

LEMMA NextBlocked ==
  ASSUME ServerInv, AuditInv, [Next]_vars
  PROVE  BlockedForGood'
<1> SUFFICES ASSUME NEW i \in DOMAIN log', log'[i].event = "exec_blocked",
                    NEW id, id = log'[i].id
             PROVE  Gone(id)'
  BY DEF BlockedForGood, Gone
<1>1. Grows /\ \A x \in Requests : Gone(x) => Gone(x)'
  BY NextServerInv, GoneStays DEF AuditInv
<1>2. CASE Old(i)
  <2>1. Gone(id)
    BY <1>2 DEF AuditInv, BlockedForGood, Old
  <2>2. id \in Requests
    BY <2>1 DEF Gone
  <2> QED
    BY <1>1, <2>1, <2>2
<1>3. CASE Blocked(i)
  <2> USE McpAssumption
  <2>1. /\ tool[Mcp].pc = "check" /\ id = tool[Mcp].id
        /\ tool' = [tool EXCEPT ![Mcp] = NoTool] /\ UNCHANGED <<calls, begun>>
    BY <1>3 DEF Blocked, Return, ToolCheck, clientVars
  <2>2. /\ tool[Mcp].id \in Requests \ calls
        /\ tool[Mcp].id.by = Mcp /\ tool[Mcp].id.n <= begun[Mcp]
    BY <2>1 DEF AuditInv, Numbered, ServerInv, ToolInv, OwnTool
  <2>3. ASSUME NEW c \in Callers, tool'[c].pc \in {"check", "issue"}
        PROVE  tool'[c].id # tool[Mcp].id
    <3>1. c # Mcp /\ tool'[c] = tool[c]
      BY <2>1, <2>3 DEF NoTool, ServerInv, ToolInv
    <3>2. tool[c].id.by = c
      BY <2>3, <3>1 DEF ServerInv, ToolInv, OwnTool
    <3> QED
      BY <2>2, <3>1, <3>2
  <2> QED
    BY <2>1, <2>2, <2>3 DEF Gone
<1>4. CASE Plain(i) \/ Result(i)
  BY <1>4 DEF Plain, Result
<1> QED
  BY <1>1, <1>2, <1>3, <1>4 DEF Grows

LEMMA NextNoted ==
  ASSUME ServerInv, AuditInv, [Next]_vars
  PROVE  Noted'
<1> SUFFICES ASSUME NEW i \in DOMAIN log', log'[i].event = "exec_result",
                    log'[i].res # "no_code", NEW id, id = log'[i].id
             PROVE  Ran(id)'
  BY DEF Noted, Ran
<1>1. Grows /\ ran \subseteq ran'
  BY NextServerInv, NextClient, RanGrows DEF ServerInv
<1>2. CASE Old(i)
  BY <1>1, <1>2 DEF AuditInv, Noted, Old, Ran
<1>3. CASE Result(i)
  <2> USE McpAssumption
  <2>1. /\ id = tool[Mcp].id /\ log'[i].res = ExitOf(call[Mcp].res)
        /\ call[Mcp].res \notin Errors
        /\ tool[Mcp].pc = "called" /\ call[Mcp].pc = "idle"
    BY <1>3 DEF Result, Finish, At
  <2>2. call[Mcp].id = tool[Mcp].id /\ tool[Mcp].id \in Requests
    BY <2>1 DEF AuditInv, Called, ServerInv, ToolInv, OwnTool
  <2>3. call[Mcp].res # "none"
    BY <2>1, <2>2, NoneIsNoRequest DEF ServerInv, Inv, OwnRequest
  <2>4. call[Mcp].res \in {"ok", "timed_out"}
    <3>1. call[Mcp].res \in {"none"} \cup Statuses \cup Errors
      BY DEF ServerInv, Inv, ClientTypeOK, Call
    <3> QED
      BY <2>1, <2>3, <3>1 DEF ExitOf, Statuses
  <2>5. Ran(tool[Mcp].id)
    BY <2>2, <2>4 DEF ServerInv, Inv, AnswerIsOwn, Ran
  <2> QED
    BY <1>1, <2>1, <2>5 DEF Ran
<1>4. CASE Plain(i) \/ Blocked(i)
  BY <1>4 DEF Plain, Blocked
<1> QED
  BY <1>1, <1>2, <1>3, <1>4 DEF Grows

LEMMA NextAuditInv == ServerInv /\ AuditInv /\ [Next]_vars => ServerInv' /\ AuditInv'
BY NextServerInv, GoneStays, NextBlocked, NextNoted DEF AuditInv

(* Whatever the number of threads, machines and server processes, a tool   *)
(* on its way to the guest holds a request, and every entry of the log is  *)
(* of a process that was started.                                          *)
THEOREM ServerTypeCorrect == Spec => []TypeOK
<1>1. ServerInv => TypeOK
  <2> SUFFICES ASSUME ServerInv PROVE TypeOK
    OBVIOUS
  <2>1. \A i \in DOMAIN log : log[i] \in Entry
    BY ElementOfSeq, LenProperties DEF ServerInv, ServerTypes
  <2> QED
    BY <2>1 DEF ServerInv, ServerTypes, ToolInv, Tool, Inv, Entry, TypeOK
<1> QED
  BY InitServerInv, NextAuditInv, <1>1, PTL DEF Spec

(* mcp_server.py:137-174: a command noted with an exit code, or as timed   *)
(* out, did run; one noted as blocked never ran and never will.            *)
THEOREM AuditIsTruthful == Spec => []AuditTruthful
<1>1. ServerInv /\ AuditInv => AuditTruthful
  <2> SUFFICES ASSUME ServerInv, AuditInv PROVE AuditTruthful
    OBVIOUS
  <2>1. \A r \in ran : r.id \in calls
    BY DEF ServerInv, Inv, Past, Sent
  <2> QED
    BY <2>1 DEF AuditInv, Noted, BlockedForGood, Gone, Ran, AuditTruthful
<1> QED
  BY InitServerInv, NextAuditInv, <1>1, PTL DEF Spec

-----------------------------------------------------------------------------
(* Effects are in the log                                                  *)

Audited(op, id) == Lost # {} \/ \E i \in DOMAIN log : log[i].event = op /\ log[i].id = id

(* A number in the log was taken.                                          *)
SeqInv == \A i \in DOMAIN log : log[i].seq <= seq[log[i].proc]

EffectInv ==
  /\ SeqInv
  /\ tool[Mcp].pc \in {"check", "issue"} /\ tool[Mcp].op # "look"
       => Audited(tool[Mcp].op, tool[Mcp].id)
  /\ call[Mcp].id # None /\ call[Mcp].op # "look" => Audited(call[Mcp].op, call[Mcp].id)
  /\ \A r \in Sent : r.id.by = Mcp /\ r.op # "look" => Audited(r.op, r.id)

(* An entry is written, or a number is missing, and what was audited       *)
(* remains so.                                                             *)
LEMMA LogAsAudits ==
  ASSUME seq \in [Procs -> Nat], log \in Seq(Entry), SeqInv, NEW p \in Procs,
         NEW event, NEW id, NEW res, LogAs(p, event, id, res)
  PROVE  /\ SeqInv' /\ Audited(event, id)'
         /\ \A o, x : Audited(o, x) => Audited(o, x)'
<1> DEFINE e == [proc |-> p, seq |-> seq[p] + 1, event |-> event, id |-> id, res |-> res, vm |-> vm]
<1>1. seq' = [seq EXCEPT ![p] = @ + 1] /\ (log' = Append(log, e) \/ log' = log)
  BY DEF LogAs
<1>2. /\ Len(log) \in Nat /\ DOMAIN log = 1..Len(log)
      /\ \A i \in DOMAIN log : log[i].seq \in Nat /\ log[i].proc \in Procs
  <2>1. Len(log) \in Nat /\ DOMAIN log = 1..Len(log)
    BY LenProperties
  <2>2. \A i \in DOMAIN log : log[i] \in Entry
    BY <2>1, ElementOfSeq
  <2> QED
    BY <2>1, <2>2 DEF Entry
<1>3. /\ seq'[p] = seq[p] + 1 /\ seq[p] \in Nat
      /\ \A q \in Procs : seq[q] \in Nat /\ seq'[q] \in Nat /\ seq[q] <= seq'[q]
  BY <1>1
<1>4. Taken \subseteq Taken' /\ <<p, seq[p] + 1>> \in Taken' /\ <<p, seq[p] + 1>> \notin Taken
  BY <1>3 DEF Taken
<1>5. e.proc = p /\ e.seq = seq[p] + 1 /\ e.event = event /\ e.id = id
  OBVIOUS
<1> HIDE DEF e
<1>6. CASE log' = log
  <2>1. SeqInv'
    BY <1>2, <1>3, <1>6 DEF SeqInv
  <2>2. <<p, seq[p] + 1>> \in Lost'
    <3>1. ASSUME NEW i \in DOMAIN log PROVE <<log[i].proc, log[i].seq>> # <<p, seq[p] + 1>>
      BY <1>2, <1>3 DEF SeqInv
    <3> QED
      BY <1>4, <1>6, <3>1 DEF Lost
  <2> QED
    BY <2>1, <2>2 DEF Audited
<1>7. CASE log' = Append(log, e)
  <2>1. /\ DOMAIN log' = 1..(Len(log) + 1) /\ log'[Len(log) + 1] = e
        /\ \A i \in 1..Len(log) : log'[i] = log[i]
    BY <1>2, <1>7
  <2>2. SeqInv'
    <3>1. ASSUME NEW i \in DOMAIN log' PROVE log'[i].seq <= seq'[log'[i].proc]
      <4>1. CASE i \in 1..Len(log)
        BY <1>2, <1>3, <2>1, <4>1 DEF SeqInv
      <4>2. CASE i = Len(log) + 1
        BY <1>3, <1>5, <2>1, <4>2
      <4> QED
        BY <1>2, <2>1, <4>1, <4>2
    <3> QED
      BY <3>1 DEF SeqInv
  <2>3. Lost \subseteq Lost'
    <3> SUFFICES ASSUME NEW x \in Lost, NEW i \in DOMAIN log',
                        x = <<log'[i].proc, log'[i].seq>>
                 PROVE  FALSE
      BY <1>4 DEF Lost
    <3>1. CASE i \in 1..Len(log)
      BY <1>2, <2>1, <3>1 DEF Lost
    <3>2. CASE i = Len(log) + 1
      BY <1>4, <1>5, <2>1, <3>2 DEF Lost
    <3> QED
      BY <2>1, <3>1, <3>2, <1>2
  <2>4. Audited(event, id)'
    <3>1. Len(log) + 1 \in DOMAIN log'
      BY <1>2, <2>1
    <3> QED
      BY <1>5, <2>1, <3>1 DEF Audited
  <2>5. ASSUME NEW o, NEW x, Audited(o, x) PROVE Audited(o, x)'
    BY <1>2, <2>1, <2>3, <2>5 DEF Audited
  <2> QED
    BY <2>2, <2>4, <2>5
<1> QED
  BY <1>1, <1>6, <1>7

(* The entries of a step.                                                  *)
LEMMA NextLogs ==
  ASSUME ServerInv, SeqInv, [Next]_vars
  PROVE  SeqInv' /\ \A o, x : Audited(o, x) => Audited(o, x)'
<1> USE McpAssumption
<1>1. (phase # "off" => proc \in Procs) /\ seq \in [Procs -> Nat] /\ log \in Seq(Entry)
  BY DEF ServerInv, ServerTypes
<1>2. CASE UNCHANGED <<seq, log>>
  BY <1>2 DEF SeqInv, Audited, Lost, Taken
<1>3. ASSUME NEW p \in Procs, NEW event, NEW id, NEW res, LogAs(p, event, id, res)
      PROVE  SeqInv' /\ \A o, x : Audited(o, x) => Audited(o, x)'
  BY <1>1, <1>3, LogAsAudits
<1>4. CASE ServerStart
  <2>1. proc + 1 \in Procs /\ LogAs(proc + 1, "server_start", None, "none")
    BY <1>4 DEF ServerStart, ServerInv, ServerTypes, Procs
  <2> QED
    BY <2>1, <1>3
<1>5. CASE phase # "off" /\ \E event, id, res : Log(event, id, res)
  BY <1>1, <1>3, <1>5 DEF Log
<1>6. ASSUME NEW c \in Callers, Begin(c)
      PROVE  phase # "off" /\ (UNCHANGED <<seq, log>> \/ \E event, id, res : Log(event, id, res))
  BY <1>6 DEF Begin, SandboxExec, FileTool, UploadTool, DownloadTool, LookTool, AuditedTool,
              ApiExec, ApiLook, DashboardBegin, ResetBegin, Audit
<1>7. ASSUME NEW c \in Callers, Proceed(c)
      PROVE  \/ UNCHANGED <<seq, log>>
             \/ phase # "off" /\ \E event, id, res : Log(event, id, res)
  <2>1. CASE ToolCheck
    BY <2>1 DEF ToolCheck
  <2>2. CASE Finish(c)
    BY <2>2 DEF Finish, Alive, ExecResult
  <2>3. CASE Reset(c)
    BY <2>3 DEF Reset, ResetStop, ResetStart, ResetLaunch, ResetHealth, Alive, Audit
  <2> QED
    BY <1>7, <2>1, <2>2, <2>3 DEF Proceed, Send
<1>8. CASE ServerBoot \/ ServerExit \/ ServerGone \/ Guest \/ UNCHANGED vars
  BY <1>2, <1>8 DEF ServerBoot, ServerExit, ServerGone, Guest, vars
<1>9. CASE ServerHealth
  BY <1>2, <1>5, <1>9 DEF ServerHealth
<1> QED
  BY <1>2, <1>4, <1>5, <1>6, <1>7, <1>8, <1>9 DEF Next

(* What a step sends to a guest is a request of a call.                    *)
LEMMA NextSent ==
  ASSUME ClientTypeOK, [ClientNext]_clientVars
  PROVE  \A r \in Sent' : \/ r \in Sent
                          \/ \E c \in Callers : /\ call[c].pc = "connect"
                                               /\ r.id = call[c].id /\ r.op = call[c].op
<1>1. CASE \E c \in Callers : Connect(c)
  BY <1>1 DEF Connect, Sent
<1>2. CASE GuestStep
  <2>1. PICK j \in jobs : \E st, done : Answer(j, st, done)
    BY <1>2 DEF GuestStep, HandleExec, HandleFile, HandleLook, Refuse
  <2>2. ran' \subseteq ran \cup {j.run} /\ jobs' \subseteq jobs
    BY <2>1 DEF Answer
  <2> QED
    BY <2>2 DEF Sent
<1>3. CASE ~GuestStep /\ \A c \in Callers : ~Connect(c)
  <2>1. ran' = ran /\ jobs' \subseteq jobs
    BY <1>3 DEF ClientNext, clientVars, ClientStep, ConnectFails, HandshakeTimeout,
                ConnectionLost, GiveUp, Collect, Issue, Drop, Boot, HostDies
  <2> QED
    BY <2>1 DEF Sent
<1> QED
  BY <1>1, <1>2, <1>3

LEMMA BeginAudits ==
  ASSUME ServerInv, SeqInv, NEW c \in Callers, Begin(c),
         tool'[Mcp].pc \in {"check", "issue"}, tool'[Mcp].op # "look",
         NEW o, NEW x, o = tool'[Mcp].op, x = tool'[Mcp].id
  PROVE  tool'[Mcp] = tool[Mcp] \/ Audited(o, x)'
<1> USE McpAssumption
<1>1. /\ tool \in [Callers -> Tool] /\ seq \in [Procs -> Nat] /\ log \in Seq(Entry)
      /\ (phase # "off" => proc \in Procs)
  BY DEF ServerInv, ToolInv, ServerTypes
<1>2. ASSUME NEW op, NEW pc, AuditedTool(op, pc)
      PROVE  Audited(o, x)'
  <2>1. o = op
    BY <1>1, <1>2 DEF AuditedTool, Enter
  <2>2. LogAs(proc, op, x, "none") /\ proc \in Procs
    BY <1>1, <1>2 DEF AuditedTool, Log
  <2> QED
    BY <1>1, <2>1, <2>2, LogAsAudits
<1>3. CASE c # Mcp /\ (ApiExec(c) \/ ApiLook(c) \/ ResetBegin(c))
  BY <1>1, <1>3 DEF ApiExec, ApiLook, DashboardBegin, ResetBegin, Enter
<1>4. CASE ResetBegin(Mcp) \/ LookTool
  BY <1>1, <1>4 DEF ResetBegin, LookTool, Enter
<1> QED
  BY <1>2, <1>3, <1>4 DEF Begin, SandboxExec, FileTool, UploadTool, DownloadTool, ApiExec,
                         ApiLook, DashboardBegin

LEMMA NextEffectInv ==
  ASSUME ServerInv, AuditInv, EffectInv, [Next]_vars
  PROVE  EffectInv'
<1> USE McpAssumption
<1>1. SeqInv' /\ \A o, x : Audited(o, x) => Audited(o, x)'
  BY NextLogs DEF EffectInv
<1>2. /\ ClientTypeOK /\ tool \in [Callers -> Tool] /\ call \in [Callers -> Call]
      /\ OwnRequest
  BY DEF ServerInv, ToolInv, Inv, ClientTypeOK
<1> DEFINE ToolKept == tool'[Mcp].op = tool[Mcp].op /\ tool'[Mcp].id = tool[Mcp].id
                        /\ tool[Mcp].pc \in {"check", "issue"}
           CallKept == call'[Mcp].op = call[Mcp].op /\ call'[Mcp].id = call[Mcp].id
<1>3. ASSUME tool'[Mcp].pc \in {"check", "issue"}, tool'[Mcp].op # "look",
             NEW o, NEW x, o = tool'[Mcp].op, x = tool'[Mcp].id
      PROVE  ToolKept \/ Audited(o, x)'
  <2>1. CASE \E c \in Callers : Begin(c)
    BY <1>3, <2>1, BeginAudits DEF EffectInv
  <2>2. CASE \E c \in Callers : Send(c)
    BY <1>3, <2>2, SendNumbers DEF AuditInv
  <2>3. CASE ServerGone \/ \E c \in Callers : Finish(c)
    BY <1>3, <2>3, EndNumbers DEF AuditInv
  <2>4. CASE /\ \A c \in Callers : ~Begin(c) /\ ~Send(c) /\ ~Finish(c)
             /\ ~ServerGone
    BY <1>3, <2>4, SteadyCases DEF Steady
  <2> QED
    BY <2>1, <2>2, <2>3, <2>4
<1>4. ASSUME call'[Mcp].id # None, call'[Mcp].op # "look"
      PROVE  CallKept \/ Audited(call'[Mcp].op, call'[Mcp].id)
  <2>1. CASE \E c \in Callers : Begin(c)
    BY <2>1, BeginToolInv DEF ServerInv, clientVars
  <2>2. ASSUME NEW c \in Callers, Send(c)
        PROVE  CallKept \/ Audited(call'[Mcp].op, call'[Mcp].id)
    <3>1. /\ tool[c].pc = "issue"
          /\ call' = [call EXCEPT ![c] = [id |-> tool[c].id, op |-> tool[c].op, pc |-> "connect",
                                          att |-> 1, res |-> "none"]]
      BY <2>2 DEF Send, At, Issue
    <3>2. CASE c = Mcp
      <4>1. call'[Mcp].id = tool[Mcp].id /\ call'[Mcp].op = tool[Mcp].op
        BY <1>2, <3>1, <3>2
      <4> QED
        BY <1>4, <3>1, <3>2, <4>1 DEF EffectInv
    <3>3. CASE c # Mcp
      BY <1>2, <3>1, <3>3
    <3> QED
      BY <3>2, <3>3
  <2>3. CASE ServerGone \/ \E c \in Callers : Finish(c)
    BY <1>2, <1>4, <2>3 DEF ServerGone, HostDies, Finish, Collect, NoCall
  <2>4. CASE /\ \A c \in Callers : ~Begin(c) /\ ~Send(c) /\ ~Finish(c)
             /\ ~ServerGone
    BY <2>4, SteadyCases DEF Steady, SameRequests
  <2> QED
    BY <2>1, <2>2, <2>3, <2>4
<1>5. ASSUME NEW r \in Sent', r.id.by = Mcp, r.op # "look"
      PROVE  Audited(r.op, r.id)
  <2>1. CASE r \in Sent
    BY <1>5, <2>1 DEF EffectInv
  <2>2. ASSUME NEW c \in Callers, call[c].pc = "connect", r.id = call[c].id, r.op = call[c].op
        PROVE  Audited(r.op, r.id)
    <3>1. call[c].id # None /\ call[c].id.by = c
      BY <1>2, <2>2 DEF OwnRequest
    <3> QED
      BY <1>5, <2>2, <3>1 DEF EffectInv
  <2>3. [ClientNext]_clientVars
    BY NextClient DEF ServerInv
  <2> QED
    BY <1>2, <2>1, <2>2, <2>3, NextSent
<1>6. ASSUME tool'[Mcp].pc \in {"check", "issue"}, tool'[Mcp].op # "look",
             NEW o, NEW x, o = tool'[Mcp].op, x = tool'[Mcp].id
      PROVE  Audited(o, x)'
  BY <1>1, <1>3, <1>6 DEF EffectInv
<1>7. ASSUME call'[Mcp].id # None, call'[Mcp].op # "look",
             NEW o, NEW x, o = call'[Mcp].op, x = call'[Mcp].id
      PROVE  Audited(o, x)'
  BY <1>1, <1>4, <1>7 DEF EffectInv
<1>8. ASSUME NEW r \in Sent', r.id.by = Mcp, r.op # "look"
      PROVE  Audited(r.op, r.id)'
  BY <1>1, <1>5, <1>8
<1>9. tool'[Mcp].pc \in {"check", "issue"} /\ tool'[Mcp].op # "look" =>
        Lost' # {} \/ \E i \in DOMAIN log' :
                       log'[i].event = tool'[Mcp].op /\ log'[i].id = tool'[Mcp].id
  BY <1>6 DEF Audited
<1>10. call'[Mcp].id # None /\ call'[Mcp].op # "look" =>
         Lost' # {} \/ \E i \in DOMAIN log' :
                        log'[i].event = call'[Mcp].op /\ log'[i].id = call'[Mcp].id
  BY <1>7 DEF Audited
<1> QED
  BY <1>1, <1>8, <1>9, <1>10 DEF EffectInv, Audited

(* mcp_server.py:128, 280, audit.py:60: over any number of processes,      *)
(* kills and resets, what an MCP client had done in a guest is in the log, *)
(* unless a number is missing there.                                       *)
THEOREM EffectsAreAudited == Spec => []EffectsAudited
<1>1. Init => EffectInv
  BY McpAssumption DEF Init, ClientInit, NoTool, NoCall, EffectInv, SeqInv, Sent
<1>2. EffectInv => EffectsAudited
  BY DEF EffectInv, Sent, Audited, EffectsAudited
<1>3. EffectInv /\ ServerInv /\ AuditInv /\ [Next]_vars => EffectInv'
  BY NextEffectInv
<1> QED
  BY InitServerInv, NextAuditInv, <1>1, <1>2, <1>3, PTL DEF Spec

-----------------------------------------------------------------------------
(* A reset gives a new VM                                                  *)

(* The entries are about VMs that were booted.  From the moment a reset    *)
(* has stopped what ran, any VM there is is younger than all of them.      *)
Younger(v) == \A i \in DOMAIN log : log[i].vm < v

FreshInv ==
  /\ \A i \in DOMAIN log : log[i].vm <= boots
  /\ tool[Mcp].pc \in {"start", "launch", "health"} => vm = 0 \/ Younger(vm)
  /\ phase \in {"off", "boot", "health"} => tool[Mcp].pc = "idle"
  /\ ResetFresh

Resetting == {"start", "launch", "health"}

(* Only the thread of the tools writes to the log.                         *)
LEMMA DashboardSilent ==
  ASSUME ServerInv, NEW c \in Callers \ {Mcp}, Begin(c) \/ (Proceed(c) /\ ~ToolCheck)
  PROVE  log' = log /\ tool'[Mcp] = tool[Mcp] /\ phase' = phase
<1> USE McpAssumption
<1>1. tool \in [Callers -> Tool]
  BY DEF ServerInv, ToolInv
<1>2. log' = log /\ phase' = phase
  BY DEF Begin, ApiExec, ApiLook, DashboardBegin, ResetBegin, Audit, Proceed, Send, Finish,
         Reset, ResetStop, ResetStart, ResetLaunch, ResetHealth
<1>3. \/ tool' = tool
      \/ \E f : tool' = [tool EXCEPT ![c] = f]
      \/ \E pc : tool' = [tool EXCEPT ![c].pc = pc]
  BY DEF Begin, ApiExec, ApiLook, DashboardBegin, ResetBegin, Enter, Proceed, Send, Finish,
         Reset, ResetStop, ResetStart, ResetLaunch, ResetHealth, Goto, Return
<1> QED
  BY <1>1, <1>2, <1>3

(* What the thread of the tools writes, and where it is then.              *)
LEMMA ToolsWrite ==
  ASSUME ServerInv, FreshInv, Begin(Mcp) \/ Proceed(Mcp)
  PROVE  /\ \/ log' = log
            \/ \E p, event, id, res : /\ LogAs(p, event, id, res)
                                      /\ event = "sandbox_reset_complete" => vm # 0 /\ Younger(vm)
         /\ tool'[Mcp].pc \in Resetting =>
              log' = log /\ (vm' = 0 \/ tool[Mcp].pc \in Resetting)
         /\ phase' \in {"off", "boot", "health"} => tool'[Mcp].pc = "idle"
<1> USE McpAssumption
<1>1. tool \in [Callers -> Tool]
  BY DEF ServerInv, ToolInv
<1>2. CASE Begin(Mcp)
  <2>1. /\ phase' = "ready"
        /\ \/ tool'[Mcp].pc \in {"check", "issue", "stop"}
           \/ tool' = tool /\ tool[Mcp].pc = "idle"
    BY <1>1, <1>2 DEF Begin, SandboxExec, FileTool, UploadTool, DownloadTool, LookTool, AuditedTool,
       ApiExec, ApiLook, DashboardBegin, ResetBegin, Enter, At
  <2>2. \/ log' = log
        \/ \E id : \E event \in {"exec", "file", "sandbox_reset"} : LogAs(proc, event, id, "none")
    BY <1>2 DEF Begin, SandboxExec, FileTool, UploadTool, DownloadTool, LookTool, AuditedTool,
       ApiExec, ApiLook, DashboardBegin, ResetBegin, Audit, Log
  <2> QED
    BY <2>1, <2>2 DEF Resetting
<1>3. CASE ToolCheck
  <2>1. /\ phase' = "ready" /\ tool'[Mcp].pc \in {"idle", "issue"}
        /\ log' = log \/ LogAs(proc, "exec_blocked", tool[Mcp].id, "none")
    BY <1>1, <1>3 DEF ToolCheck, Return, Goto, NoTool, Tool, Log
  <2> QED
    BY <2>1 DEF Resetting
<1>4. CASE Send(Mcp)
  BY <1>1, <1>4 DEF Send, Goto, Alive, Resetting
<1>5. CASE Finish(Mcp)
  <2>1. /\ phase' = phase /\ tool'[Mcp].pc = "idle"
        /\ \/ log' = log
           \/ \E id, res : \E event \in {"exec_error", "exec_result"} : LogAs(proc, event, id, res)
    BY <1>1, <1>5 DEF Finish, Return, NoTool, ExecResult, Log
  <2> QED
    BY <2>1 DEF Resetting
<1>6. CASE ResetStop(Mcp)
  BY <1>1, <1>6 DEF ResetStop, Drop, Goto, Alive
<1>7. CASE ResetStart(Mcp)
  BY <1>1, <1>7 DEF ResetStart, At, Goto, Alive, Resetting
<1>8. CASE ResetLaunch(Mcp)
  <2>1. /\ phase' = phase /\ phase \in {"ready", "exit"} /\ tool[Mcp].pc = "launch"
        /\ \/ tool'[Mcp].pc = "health" /\ log' = log
           \/ tool'[Mcp].pc = "idle" /\ LogAs(proc, "sandbox_reset_error", None, "none")
    BY <1>1, <1>8 DEF ResetLaunch, At, Alive, Goto, Return, NoTool, Tool, Audit, Log
  <2> QED
    BY <2>1 DEF Resetting
<1>9. CASE ResetHealth(Mcp)
  <2>1. /\ phase' = phase /\ tool'[Mcp].pc = "idle" /\ tool[Mcp].pc = "health"
        /\ \/ vm # 0 /\ LogAs(proc, "sandbox_reset_complete", None, "none")
           \/ LogAs(proc, "sandbox_reset_timeout", None, "none")
    BY <1>1, <1>9 DEF ResetHealth, At, Return, NoTool, Audit, Log
  <2>2. vm = 0 \/ Younger(vm)
    BY <2>1 DEF FreshInv
  <2> QED
    BY <2>1, <2>2 DEF Resetting
<1>10. CASE UNCHANGED <<phase, proc, seq, log, tool, begun>>
  BY <1>10 DEF FreshInv
<1> QED
  BY <1>2, <1>3, <1>4, <1>5, <1>6, <1>7, <1>8, <1>9, <1>10 DEF Proceed, Reset

(* The same for every step.                                                *)
LEMMA NextWrites ==
  ASSUME ServerInv, FreshInv, [Next]_vars
  PROVE  /\ \/ log' = log
            \/ \E p, event, id, res : /\ LogAs(p, event, id, res)
                                      /\ event = "sandbox_reset_complete" => vm # 0 /\ Younger(vm)
         /\ tool'[Mcp].pc \in Resetting =>
              log' = log /\ (vm' = 0 \/ tool[Mcp].pc \in Resetting)
         /\ phase' \in {"off", "boot", "health"} => tool'[Mcp].pc = "idle"
<1> USE McpAssumption
<1>1. CASE ServerStart
  <2>1. /\ phase = "off" /\ tool' = tool
        /\ LogAs(proc + 1, "server_start", None, "none")
    BY <1>1 DEF ServerStart
  <2> QED
    BY <2>1 DEF FreshInv, Resetting
<1>2. CASE ServerHealth
  <2>1. /\ phase = "health" /\ tool' = tool
        /\ log' = log \/ LogAs(proc, "server_ready", None, "none")
    BY <1>2 DEF ServerHealth, Log
  <2> QED
    BY <2>1 DEF FreshInv, Resetting
<1>3. CASE ServerBoot \/ ServerExit \/ Guest \/ UNCHANGED vars
  BY <1>3 DEF ServerBoot, ServerExit, Guest, vars, FreshInv
<1>4. CASE ServerGone
  BY <1>4 DEF ServerGone, NoTool, Resetting
<1>5. CASE Begin(Mcp) \/ Proceed(Mcp)
  BY <1>5, ToolsWrite
<1>6. ASSUME NEW c \in Callers, c # Mcp, Begin(c) \/ (Proceed(c) /\ ~ToolCheck)
      PROVE  log' = log /\ tool'[Mcp] = tool[Mcp] /\ phase' = phase
  BY <1>6, DashboardSilent
<1>7. Proceed(Mcp) \/ ~ToolCheck
  BY DEF Proceed
<1> QED
  BY <1>1, <1>2, <1>3, <1>4, <1>5, <1>6, <1>7 DEF Next, FreshInv

(* An entry is about the VM of its moment.                                 *)
LEMMA LogAsVM ==
  ASSUME log \in Seq(Entry), NEW p, NEW event, NEW id, NEW res, LogAs(p, event, id, res)
  PROVE  \/ log' = log
         \/ /\ DOMAIN log = 1..Len(log) /\ DOMAIN log' = 1..(Len(log) + 1) /\ Len(log) \in Nat
            /\ \A i \in 1..Len(log) : log'[i] = log[i]
            /\ log'[Len(log) + 1].vm = vm /\ log'[Len(log) + 1].event = event
<1> DEFINE e == [proc |-> p, seq |-> seq[p] + 1, event |-> event, id |-> id, res |-> res, vm |-> vm]
<1>1. log' = Append(log, e) \/ log' = log
  BY DEF LogAs
<1>2. e.vm = vm /\ e.event = event
  OBVIOUS
<1> HIDE DEF e
<1> QED
  BY <1>1, <1>2, LenProperties

LEMMA NextFreshInv ==
  ASSUME ServerInv, ServerInv', FreshInv, [Next]_vars
  PROVE  FreshInv'
<1>1. /\ log \in Seq(Entry) /\ vm \in Nat /\ boots \in Nat /\ vm <= boots
      /\ \A i \in DOMAIN log : log[i].vm \in Nat
  <2>1. log \in Seq(Entry) /\ vm \in Nat /\ boots \in Nat /\ vm <= boots
    BY BoundsAssumption DEF ServerInv, ServerTypes, Inv, ClientTypeOK
  <2>2. \A i \in DOMAIN log : log[i] \in Entry
    BY <2>1, ElementOfSeq, LenProperties
  <2> QED
    BY <2>1, <2>2, BoundsAssumption DEF Entry
<1>2. /\ vm' = vm \/ vm' = 0 \/ vm' = boots + 1
      /\ boots' \in Nat /\ boots <= boots'
  <2>1. [ClientNext]_clientVars
    BY NextClient DEF ServerInv
  <2>2. boots' = boots \/ boots' = boots + 1
    BY <2>1 DEF ClientNext, clientVars, ClientStep, Connect, ConnectFails, HandshakeTimeout,
       ConnectionLost, GiveUp, Collect, Issue, GuestStep, HandleExec, HandleFile, HandleLook,
       Refuse, Answer, Drop, Boot, HostDies
  <2>3. vm' = vm \/ vm' = 0 \/ vm' = boots + 1
    BY <2>1 DEF ClientNext, clientVars, ClientStep, Connect, ConnectFails, HandshakeTimeout,
       ConnectionLost, GiveUp, Collect, Issue, GuestStep, HandleExec, HandleFile, HandleLook,
       Refuse, Answer, Drop, Boot, HostDies
  <2> QED
    BY <1>1, <2>2, <2>3
<1>3. /\ \/ log' = log
         \/ \E p, event, id, res : /\ LogAs(p, event, id, res)
                                   /\ event = "sandbox_reset_complete" => vm # 0 /\ Younger(vm)
      /\ tool'[Mcp].pc \in Resetting =>
           log' = log /\ (vm' = 0 \/ tool[Mcp].pc \in Resetting)
      /\ phase' \in {"off", "boot", "health"} => tool'[Mcp].pc = "idle"
  BY NextWrites
<1>4. (\A i \in DOMAIN log' : log'[i].vm <= boots') /\ ResetFresh'
  <2>1. CASE log' = log
    BY <1>1, <1>2, <2>1 DEF FreshInv, ResetFresh
  <2>2. ASSUME NEW p, NEW event, NEW id, NEW res, LogAs(p, event, id, res), log' # log,
               event = "sandbox_reset_complete" => vm # 0 /\ Younger(vm)
        PROVE  (\A i \in DOMAIN log' : log'[i].vm <= boots') /\ ResetFresh'
    <3>1. /\ DOMAIN log = 1..Len(log) /\ DOMAIN log' = 1..(Len(log) + 1) /\ Len(log) \in Nat
          /\ \A i \in 1..Len(log) : log'[i] = log[i]
          /\ log'[Len(log) + 1].vm = vm /\ log'[Len(log) + 1].event = event
      BY <1>1, <2>2, LogAsVM
    <3>2. ASSUME NEW i \in DOMAIN log' PROVE log'[i].vm <= boots'
      <4>1. CASE i \in 1..Len(log)
        BY <1>1, <1>2, <3>1, <4>1 DEF FreshInv
      <4>2. CASE i = Len(log) + 1
        BY <1>1, <1>2, <3>1, <4>2
      <4> QED
        BY <3>1, <4>1, <4>2
    <3>3. ASSUME NEW i \in DOMAIN log', NEW k \in DOMAIN log', i < k,
                 log'[k].event = "sandbox_reset_complete"
          PROVE  log'[i].vm < log'[k].vm
      <4>1. i \in 1..Len(log)
        BY <3>1, <3>3
      <4>2. CASE k \in 1..Len(log)
        BY <3>1, <3>3, <4>1, <4>2 DEF FreshInv, ResetFresh
      <4>3. CASE k = Len(log) + 1
        BY <2>2, <3>1, <3>3, <4>1, <4>3 DEF Younger
      <4> QED
        BY <3>1, <4>2, <4>3
    <3> QED
      BY <3>2, <3>3 DEF ResetFresh
  <2> QED
    BY <1>3, <2>1, <2>2
<1>5. ASSUME tool'[Mcp].pc \in Resetting, vm' # 0 PROVE Younger(vm)'
  <2>1. log' = log /\ (vm = 0 \/ Younger(vm))
    BY <1>3, <1>5 DEF FreshInv, Resetting
  <2> QED
    BY <1>1, <1>2, <1>5, <2>1 DEF FreshInv, Younger
<1> QED
  BY <1>3, <1>4, <1>5 DEF FreshInv, Resetting

(* mcp_server.py:531: for any number of resets, boots, processes and lost  *)
(* writes, a reset that is noted as complete has a VM that no earlier entry*)
(* of the log is about, the dashboard's resets in between or not.          *)
THEOREM ResetGivesFresh == Spec => []ResetFresh
<1>1. Init => FreshInv
  BY McpAssumption DEF Init, ClientInit, NoTool, FreshInv, ResetFresh
<1>2. FreshInv => ResetFresh
  BY DEF FreshInv
<1>3. FreshInv /\ ServerInv /\ AuditInv /\ [Next]_vars => FreshInv'
  BY NextFreshInv, NextServerInv
<1> QED
  BY InitServerInv, NextAuditInv, <1>1, <1>2, <1>3, PTL DEF Spec

=============================================================================
