------------------------ MODULE EngineClientsProofs ------------------------
(***************************************************************************)
(* Theorems about EngineClients for any number of MCP servers, scripts,    *)
(* sandboxes and faults: nobody runs in the wrong sandbox, a client keeps  *)
(* its own, and what is left behind is bounded by the faults.              *)
(*                                                                         *)
(* All rest on what a handler in the engine may still do for a client      *)
(* that may have left: HandlersOf says what it was asked for (Shape), what *)
(* the client it answers to waits for (Live), and that the id of a sandbox *)
(* that boots is not known to anybody yet (Booting).                       *)
(***************************************************************************)
EXTENDS EngineClients, FiniteSetTheorems, TLAPS

(* What a client waits for when it is at pc.                               *)
Busy == {"verify", "list", "create", "used", "write", "exec", "reset", "drop", "exit", "destroy"}
About == {"verify", "used", "write", "exec", "reset", "drop", "exit", "destroy"}
Asked(pc) == CASE pc = "verify" -> "get"
               [] pc = "list" -> "list"
               [] pc = "create" -> "create"
               [] pc \in {"used", "write", "exec"} -> "run"
               [] pc = "reset" -> "reset"
               [] OTHER -> "delete"

(* The sandbox id is one c may run in.                                     *)
Ours(c, id) ==
  /\ id \in Ids
  /\ c \in Agents => origin[id].name = Shared
  /\ c \in Scripts => origin[id] = [by |-> c, op |-> "create", name |-> id]

Handler == [by : Clients, op : {"get", "list", "run", "create", "delete", "reset"},
            arg : Names \cup {None}, id : Ids \cup {None},
            stage : {"find", "create", "boot", "gone"}, lost : 0..MaxFaults]

Shape(h) ==
  /\ h \in Handler
  /\ h.op \in {"get", "run", "delete"} => Ours(h.by, h.arg)
  /\ h.op = "reset" => h.by \in Agents
  /\ h.op = "reset" /\ h.stage = "find" => Ours(h.by, h.arg)
  /\ h.op = "reset" /\ h.stage \in {"create", "boot"} => h.arg = Shared
  /\ h.op = "create" => h.arg = IF h.by \in Agents THEN Shared ELSE None
  /\ h.stage = "create" => h.op = "reset"

Live(h) ==
  h.lost = 0 =>
    /\ at[h.by] \in Busy /\ h.op = Asked(at[h.by])
    /\ h.op \in {"get", "run", "delete"} => h.arg = own[h.by]
    /\ h.stage = "gone" => own[h.by] \notin Up

Booting(h) ==
  h.stage = "boot" =>
    /\ h.op \in {"create", "reset"} /\ h.id \in Ids
    /\ origin[h.id] = [by |-> h.by, op |-> h.op, name |-> IF h.arg = None THEN h.id ELSE h.arg]
    /\ listed[h.id] = None
    /\ \A c \in Clients : own[c] # h.id

HandlersOf(S) ==
  /\ \A h \in S : Shape(h) /\ Live(h) /\ Booting(h)
  /\ \A h, g \in S : h.lost = 0 /\ g.lost = 0 /\ h.by = g.by => h = g
  /\ \A h, g \in S : h.stage = "boot" /\ g.stage = "boot" /\ h.id = g.id => h = g

(* What a client at pc knows of its sandbox.                               *)
OwnFits(pc, id) == /\ pc \in About => id # None
                   /\ pc \in {"off", "done", "list", "create"} => id = None

PcFits(c, pc) ==
  /\ c \in Agents =>
       pc \in {"off", "idle", "verify", "list", "create", "used", "reset", "drop", "exit"}
  /\ c \in Scripts => pc \in {"off", "create", "write", "exec", "destroy", "done"}

ClientsOK ==
  /\ at \in [Clients -> Pcs] /\ goal \in [Clients -> Goals \cup {"none"}]
  /\ own \in [Clients -> Ids \cup {None}]
  /\ \A c \in Clients : /\ PcFits(c, at[c]) /\ OwnFits(at[c], own[c])
                        /\ own[c] # None => Ours(c, own[c])

(* A sandbox has the shared name or its own id for a name, and keeps it.   *)
EngineOK ==
  /\ listed \in [Ids -> Names \cup {None}]
  /\ origin \in [Ids -> [by : Clients, op : {"create", "reset"}, name : Names] \cup {Unused}]
  /\ \A id \in Ids : /\ origin[id] # Unused => origin[id].name \in {Shared, id}
                     /\ listed[id] # None => origin[id] # Unused /\ listed[id] = origin[id].name
  /\ ran \subseteq Clients \X Ids
  /\ \A r \in ran : Ours(r[1], r[2])

Inv == EngineOK /\ ClientsOK /\ HandlersOf(wire) /\ faults \in 0..MaxFaults

-----------------------------------------------------------------------------

LEMMA Names0 ==
  /\ None \notin Ids /\ None \notin Clients /\ None # Shared /\ Shared \notin Ids
  /\ Agents \subseteq Clients /\ Scripts \subseteq Clients
  /\ \A c \in Clients : c \in Agents <=> c \notin Scripts
BY ClientsAssumption DEF Clients, Names

LEMMA InitInv == Init => Inv
<1> SUFFICES ASSUME Init PROVE Inv
  OBVIOUS
<1>1. EngineOK
  BY DEF Init, EngineOK
<1>2. ClientsOK
  BY DEF Init, ClientsOK, Pcs, PcFits, OwnFits, About
<1>3. HandlersOf(wire)
  BY DEF Init, HandlersOf
<1> QED
  BY <1>1, <1>2, <1>3, ClientsAssumption DEF Init, Inv

(* What an id stands for does not change.                                  *)
Grows == \A id \in Ids : origin[id] # Unused => origin'[id] = origin[id]

LEMMA OursStays ==
  ASSUME Grows, NEW c \in Clients, NEW id, Ours(c, id)
  PROVE  Ours(c, id)' /\ origin[id] # Unused
BY Names0 DEF Grows, Ours, Unused

(* Of a sandbox id, only the sandbox itself can be found.                  *)
LEMMA MatchesOnly ==
  ASSUME EngineOK, NEW x \in Ids
  PROVE  Matches(x) \subseteq {x} /\ (Matches(x) = {} => x \notin Up)
BY Names0 DEF EngineOK, Matches, Namesakes, Up

(* Handlers that nobody has touched.                                       *)
LEMMA HandlersStay ==
  ASSUME NEW S, HandlersOf(S), Grows, EngineOK,
         \A h \in S : h.lost = 0 => at'[h.by] = at[h.by] /\ own'[h.by] = own[h.by],
         \A h \in S : h.stage = "gone" /\ h.lost = 0 => own'[h.by] \notin Up',
         \A h \in S : h.stage = "boot" =>
            listed'[h.id] = None /\ \A c \in Clients : own'[c] # h.id
  PROVE  HandlersOf(S)'
<1>1. ASSUME NEW h \in S PROVE Shape(h)'
  <2>1. Shape(h) /\ h.by \in Clients
    BY DEF HandlersOf, Shape, Handler
  <2>2. Ours(h.by, h.arg) => Ours(h.by, h.arg)'
    BY <2>1, OursStays
  <2> QED
    BY <2>1, <2>2 DEF Shape
<1>2. ASSUME NEW h \in S PROVE Live(h)'
  BY DEF HandlersOf, Live
<1>3. ASSUME NEW h \in S PROVE Booting(h)'
  <2>1. Booting(h) /\ Shape(h)
    BY DEF HandlersOf
  <2> SUFFICES ASSUME h.stage = "boot" PROVE Booting(h)'
    BY DEF Booting
  <2>2. /\ h.op \in {"create", "reset"} /\ h.id \in Ids
        /\ origin[h.id] = [by |-> h.by, op |-> h.op, name |-> IF h.arg = None THEN h.id ELSE h.arg]
    BY <2>1 DEF Booting
  <2>3. origin[h.id] # Unused
    BY <2>1, <2>2, Names0 DEF Unused, Shape, Handler
  <2>4. origin'[h.id] = origin[h.id]
    BY <2>2, <2>3 DEF Grows
  <2> QED
    BY <2>2, <2>4 DEF Booting
<1> QED
  BY <1>1, <1>2, <1>3 DEF HandlersOf

LEMMA HandlersFewer ==
  ASSUME NEW S, NEW R, HandlersOf(S), R \subseteq S
  PROVE  HandlersOf(R)
BY DEF HandlersOf

LEMMA HandlersUnheard ==
  ASSUME HandlersOf(wire), faults \in 0..MaxFaults, faults < MaxFaults, NEW h \in wire, h.lost = 0
  PROVE  HandlersOf((wire \ {h}) \cup {Unheard(h)})
<1> DEFINE u == Unheard(h)
<1>1. Shape(h) /\ Booting(h) /\ h \in Handler
  BY DEF HandlersOf, Shape
<1>2. /\ u.by = h.by /\ u.op = h.op /\ u.arg = h.arg /\ u.id = h.id /\ u.stage = h.stage
      /\ u.lost = faults + 1 /\ u \in Handler
  BY <1>1, ClientsAssumption DEF Unheard, Handler
<1>3. u.lost # 0
  BY <1>2
<1> HIDE DEF u
<1>4. Shape(u) /\ Live(u) /\ Booting(u)
  BY <1>1, <1>2, <1>3 DEF Shape, Live, Booting
<1>5. ASSUME NEW g \in wire \ {h}, g.stage = "boot", u.stage = "boot", g.id = u.id
      PROVE  FALSE
  BY <1>2, <1>5 DEF HandlersOf
<1>6. HandlersOf((wire \ {h}) \cup {u})
  BY <1>3, <1>4, <1>5 DEF HandlersOf
<1> QED
  BY <1>6 DEF u

-----------------------------------------------------------------------------
(* Steps of a client                                                       *)

Request(c, op, arg) ==
  [by |-> c, op |-> op, arg |-> arg, id |-> None, stage |-> "find", lost |-> 0]

(* What c asks for at pc, when it knows the sandbox k.                     *)
ArgOf(c, pc, k) ==
  IF pc \in About THEN k ELSE IF pc = "create" /\ c \in Agents THEN Shared ELSE None

(* c goes to pc and knows k; rest are the handlers of the others.          *)
Moves(c, pc, k, rest) ==
  /\ at' = [at EXCEPT ![c] = pc] /\ own' = [own EXCEPT ![c] = k]
  /\ goal' \in [Clients -> Goals \cup {"none"}]
  /\ pc \in Pcs /\ PcFits(c, pc) /\ OwnFits(pc, k)
  /\ IF pc \in Busy THEN wire' = rest \cup {Request(c, Asked(pc), ArgOf(c, pc, k))}
     ELSE wire' = rest

LEMMA RequestOK ==
  ASSUME NEW c \in Clients, NEW pc \in Busy, NEW k, k # None => Ours(c, k)', PcFits(c, pc),
         OwnFits(pc, k), at'[c] = pc, own'[c] = k
  PROVE  LET h == Request(c, Asked(pc), ArgOf(c, pc, k))
         IN  Shape(h)' /\ Live(h)' /\ Booting(h)' /\ h.stage = "find" /\ h.lost = 0 /\ h.by = c
<1> DEFINE h == Request(c, Asked(pc), ArgOf(c, pc, k))
<1>1. /\ h.by = c /\ h.op = Asked(pc) /\ h.arg = ArgOf(c, pc, k) /\ h.id = None
      /\ h.stage = "find" /\ h.lost = 0
  BY DEF Request
<1>2. pc \in About => k \in Ids /\ Ours(c, k)'
  BY DEF OwnFits, Ours
<1>3. ArgOf(c, pc, k) \in Names \cup {None}
  BY <1>2 DEF ArgOf, Names
<1>4. Asked(pc) \in {"get", "list", "run", "create", "delete", "reset"}
  BY DEF Asked
<1>5. h \in Handler
  BY <1>3, <1>4, ClientsAssumption DEF Request, Handler
<1> HIDE DEF h
<1>6. Shape(h)'
  <2>1. Asked(pc) \in {"get", "run", "delete", "reset"} => pc \in About
    BY DEF Asked, About, Busy
  <2>2. Asked(pc) \in {"get", "run", "delete", "reset"} => ArgOf(c, pc, k) = k /\ Ours(c, k)'
    BY <1>2, <2>1 DEF ArgOf
  <2>3. Asked(pc) = "reset" => c \in Agents
    BY Names0 DEF Asked, PcFits, Busy
  <2>4. Asked(pc) = "create" => ArgOf(c, pc, k) = IF c \in Agents THEN Shared ELSE None
    BY DEF Asked, ArgOf, About, Busy
  <2> QED
    BY <1>1, <1>5, <2>2, <2>3, <2>4 DEF Shape
<1>7. Live(h)'
  BY <1>1 DEF Live, Asked, ArgOf, About, Busy
<1>8. Booting(h)'
  BY <1>1 DEF Booting
<1> QED
  BY <1>1, <1>6, <1>7, <1>8 DEF h

LEMMA MovesInv ==
  ASSUME Inv, NEW c \in Clients, NEW pc, NEW k, NEW rest, Moves(c, pc, k, rest),
         EngineOK', Grows, faults' \in 0..MaxFaults, k # None => Ours(c, k)',
         HandlersOf(rest), \A h \in rest : h.lost = 0 => h.by # c,
         \A h \in rest : h.stage = "gone" /\ h.lost = 0 => own[h.by] \notin Up',
         \A h \in rest : h.stage = "boot" => listed'[h.id] = None /\ h.id # k
  PROVE  Inv'
<1>1. EngineOK /\ ClientsOK
  BY DEF Inv
<1>2. /\ at'[c] = pc /\ own'[c] = k /\ k \in Ids \cup {None}
      /\ \A b \in Clients \ {c} : at'[b] = at[b] /\ own'[b] = own[b]
  BY <1>1 DEF Moves, ClientsOK, Ours
<1>3. ClientsOK'
  <2>1. at' \in [Clients -> Pcs] /\ own' \in [Clients -> Ids \cup {None}]
    BY <1>1, <1>2 DEF Moves, ClientsOK
  <2>2. ASSUME NEW b \in Clients
        PROVE  /\ PcFits(b, at'[b]) /\ OwnFits(at'[b], own'[b])
               /\ own'[b] # None => Ours(b, own[b])' 
    <3>1. CASE b = c
      BY <1>2, <3>1 DEF Moves, Ours
    <3>2. CASE b # c
      <4>1. own[b] # None => Ours(b, own[b])
        BY <1>1 DEF ClientsOK
      <4>2. own[b] # None => origin'[own[b]] = origin[own[b]]
        BY <1>1, <4>1, OursStays DEF Grows, ClientsOK
      <4> QED
        BY <1>1, <1>2, <3>2, <4>1, <4>2 DEF ClientsOK, Ours
    <3> QED
      BY <3>1, <3>2
  <2> QED
    BY <2>1, <2>2 DEF ClientsOK, Moves, Ours
<1>4. HandlersOf(rest)'
  <2>1. \A h \in rest : h.by \in Clients
    BY DEF HandlersOf, Shape, Handler
  <2>2. \A h \in rest : h.stage = "boot" => \A b \in Clients : own[b] # h.id
    BY DEF HandlersOf, Booting
  <2>3. \A h \in rest : h.lost = 0 => at'[h.by] = at[h.by] /\ own'[h.by] = own[h.by]
    BY <1>2, <2>1
  <2>4. \A h \in rest : h.stage = "boot" => \A b \in Clients : own'[b] # h.id
    BY <1>2, <2>2
  <2> QED
    BY <1>1, <2>3, <2>4, HandlersStay
<1>5. CASE pc \in Busy
  <2> DEFINE h == Request(c, Asked(pc), ArgOf(c, pc, k))
  <2>1. Shape(h)' /\ Live(h)' /\ Booting(h)' /\ h.stage = "find" /\ h.lost = 0 /\ h.by = c
    BY <1>2, <1>5, RequestOK DEF Moves
  <2>2. wire' = rest \cup {h}
    BY <1>5 DEF Moves
  <2> HIDE DEF h
  <2>3. HandlersOf(rest \cup {h})'
    BY <1>4, <2>1 DEF HandlersOf
  <2> QED
    BY <1>3, <2>2, <2>3 DEF Inv, HandlersOf
<1>6. CASE pc \notin Busy
  BY <1>3, <1>4, <1>6 DEF Moves, Inv, HandlersOf
<1> QED
  BY <1>5, <1>6

(* Where a client may go without a request.                                *)
LEMMA GotoMoves ==
  ASSUME ClientsOK, NEW c \in Clients, NEW pc \in Pcs \ Busy, NEW k, NEW rest, Goto(c, pc, rest),
         own' = [own EXCEPT ![c] = k], PcFits(c, pc), OwnFits(pc, k)
  PROVE  Moves(c, pc, k, rest)
BY DEF ClientsOK, Goto, Moves

LEMMA SendMoves ==
  ASSUME ClientsOK, NEW c \in Clients, NEW pc \in Busy, NEW k, NEW rest, NEW op, NEW arg,
         Send(c, op, arg, pc, rest), op = Asked(pc), arg = ArgOf(c, pc, k),
         own' = [own EXCEPT ![c] = k], PcFits(c, pc), OwnFits(pc, k),
         goal' = goal \/ goal' = [goal EXCEPT ![c] = "none"]
           \/ \E for \in Goals : goal' = [goal EXCEPT ![c] = for]
  PROVE  Moves(c, pc, k, rest)
<1>1. pc \in Pcs
  BY DEF Pcs, Busy
<1>2. goal' \in [Clients -> Goals \cup {"none"}]
  BY DEF ClientsOK
<1> QED
  BY <1>1, <1>2 DEF Send, Moves, Request

LEMMA Keeps ==
  ASSUME ClientsOK, NEW c \in Clients, own' = own
  PROVE  own' = [own EXCEPT ![c] = own[c]]
BY DEF ClientsOK

LEMMA EnsureMoves ==
  ASSUME ClientsOK, NEW c \in Agents, NEW for \in Goals, Ensure(c, for)
  PROVE  \E pc : Moves(c, pc, own[c], wire)
<1>1. c \in Clients /\ c \notin Scripts /\ own' = [own EXCEPT ![c] = own[c]]
  BY Names0, Keeps DEF Ensure
<1>2. goal' = [goal EXCEPT ![c] = for]
  BY DEF Ensure
<1>3. CASE own[c] # None
  <2>1. Send(c, "get", own[c], "verify", wire)
    BY <1>3 DEF Ensure
  <2>2. Asked("verify") = "get" /\ ArgOf(c, "verify", own[c]) = own[c] /\ "verify" \in Busy
    BY DEF Asked, ArgOf, About, Busy
  <2>3. PcFits(c, "verify") /\ OwnFits("verify", own[c])
    BY <1>1, <1>3 DEF PcFits, OwnFits, About
  <2>4. Moves(c, "verify", own[c], wire)
    BY <1>1, <1>2, <2>1, <2>2, <2>3, SendMoves
  <2> QED
    BY <2>4
<1>4. CASE own[c] = None
  <2>1. Send(c, "list", None, "list", wire)
    BY <1>4 DEF Ensure, Look
  <2>2. Asked("list") = "list" /\ ArgOf(c, "list", own[c]) = None /\ "list" \in Busy
    BY DEF Asked, ArgOf, About, Busy
  <2>3. PcFits(c, "list") /\ OwnFits("list", own[c])
    BY <1>1, <1>4 DEF PcFits, OwnFits, About
  <2>4. Moves(c, "list", own[c], wire)
    BY <1>1, <1>2, <2>1, <2>2, <2>3, SendMoves
  <2> QED
    BY <2>4
<1> QED
  BY <1>3, <1>4

LEMMA AgentCallsMoves ==
  ASSUME ClientsOK, NEW c \in Agents, AgentCalls(c)
  PROVE  at[c] \notin Busy /\ \E pc : Moves(c, pc, own[c], wire)
<1>1. c \in Clients /\ c \notin Scripts
  BY Names0
<1>2. CASE Start(c) \/ Use(c)
  BY <1>2, EnsureMoves DEF Start, Use, Goals, Busy
<1>3. CASE Reset(c)
  <2>1. CASE own[c] = None
    BY <1>3, <2>1, EnsureMoves DEF Reset, Goals, Busy
  <2>2. CASE own[c] # None
    <3>1. /\ Send(c, "reset", own[c], "reset", wire) /\ goal' = [goal EXCEPT ![c] = "reset"]
          /\ own' = [own EXCEPT ![c] = own[c]]
      BY <1>1, <1>3, <2>2, Keeps DEF Reset
    <3>2. Moves(c, "reset", own[c], wire)
      BY <1>1, <2>2, <3>1, SendMoves DEF Busy, Asked, ArgOf, About, PcFits, OwnFits, Goals
    <3> QED
      BY <1>3, <3>2 DEF Reset, Busy
  <2> QED
    BY <2>1, <2>2
<1>4. CASE Exit(c)
  <2>1. own' = [own EXCEPT ![c] = own[c]]
    BY <1>1, <1>4, Keeps DEF Exit
  <2>2. CASE own[c] = None
    <3>1. Moves(c, "off", own[c], wire)
      BY <1>1, <1>4, <2>1, <2>2, GotoMoves DEF Exit, Pcs, Busy, PcFits, OwnFits, About
    <3> QED
      BY <1>4, <3>1 DEF Exit, Busy
  <2>3. CASE own[c] # None
    <3>1. Send(c, "delete", own[c], "exit", wire) /\ goal' = goal
      BY <1>4, <2>3 DEF Exit
    <3>2. Moves(c, "exit", own[c], wire)
      BY <1>1, <2>1, <2>3, <3>1, SendMoves DEF Busy, Asked, ArgOf, About, PcFits, OwnFits
    <3> QED
      BY <1>4, <3>2 DEF Exit, Busy
  <2> QED
    BY <2>2, <2>3
<1> QED
  BY <1>2, <1>3, <1>4 DEF AgentCalls

LEMMA RunCodeMoves ==
  ASSUME ClientsOK, NEW c \in Scripts, RunCode(c)
  PROVE  at[c] \notin Busy /\ Moves(c, "create", own[c], wire) /\ UNCHANGED <<engine, faults>>
<1>1. /\ c \in Clients /\ c \notin Agents /\ at[c] = "off"
      /\ Send(c, "create", None, "create", wire) /\ UNCHANGED <<engine, goal, own, faults>>
  BY Names0 DEF RunCode
<1>2. own[c] = None
  BY <1>1 DEF ClientsOK, OwnFits
<1>3. own' = [own EXCEPT ![c] = own[c]]
  BY <1>1, Keeps
<1>4. Moves(c, "create", own[c], wire)
  <2>1. Asked("create") = "create" /\ ArgOf(c, "create", own[c]) = None
    BY <1>1 DEF Asked, ArgOf, About
  <2>2. PcFits(c, "create") /\ OwnFits("create", own[c]) /\ "create" \in Busy
    BY <1>1, <1>2 DEF PcFits, OwnFits, About, Busy
  <2> QED
    BY <1>1, <1>3, <2>1, <2>2, SendMoves
<1> QED
  BY <1>1, <1>4 DEF Busy

(* What a client may know after a reply.                                   *)
Knows(c, k, st, id) ==
  \/ k = own[c]
  \/ k = id /\ st = "ok" /\ at[c] \in {"list", "create"}
  \/ k = None /\ \/ at[c] = "verify" /\ st = "error"
                 \/ at[c] = "drop" /\ st # "late"
                 \/ at[c] \in {"exit", "destroy"}

LEMMA EnsuredMoves ==
  ASSUME ClientsOK, NEW c \in Agents, NEW id, id # None, NEW rest, Ensured(c, id, rest)
  PROVE  \E pc : Moves(c, pc, id, rest)
<1>1. c \in Clients /\ c \notin Scripts /\ own' = [own EXCEPT ![c] = id]
  BY Names0 DEF Ensured, Keep
<1>2. CASE goal[c] = "use"
  <2>1. Send(c, "run", id, "used", rest) /\ goal' = goal
    BY <1>2 DEF Ensured
  <2>2. Moves(c, "used", id, rest)
    BY <1>1, <2>1, SendMoves DEF Busy, Asked, ArgOf, About, PcFits, OwnFits
  <2> QED
    BY <2>2
<1>3. CASE goal[c] # "use"
  <2>1. Moves(c, "idle", id, rest)
    BY <1>1, <1>3, GotoMoves DEF Ensured, Pcs, Busy, PcFits, OwnFits, About
  <2> QED
    BY <2>1
<1> QED
  BY <1>2, <1>3

LEMMA ReturnMoves ==
  ASSUME ClientsOK, NEW c \in Agents, NEW rest, Return(c, rest)
  PROVE  Moves(c, "idle", own[c], rest)
<1>1. c \in Clients /\ c \notin Scripts
  BY Names0
<1> QED
  BY <1>1, Keeps, GotoMoves DEF Return, Pcs, Busy, PcFits, OwnFits, About

LEMMA LookMoves ==
  ASSUME ClientsOK, NEW c \in Agents, NEW rest, Keep(c, None), Look(c, rest), goal' = goal
  PROVE  Moves(c, "list", None, rest)
<1>1. c \in Clients /\ c \notin Scripts
  BY Names0
<1>2. Asked("list") = "list" /\ ArgOf(c, "list", None) = None
  BY DEF Asked, ArgOf, About
<1>3. PcFits(c, "list") /\ OwnFits("list", None) /\ "list" \in Busy
  BY <1>1 DEF PcFits, OwnFits, About, Busy
<1> QED
  BY <1>1, <1>2, <1>3, SendMoves DEF Keep, Look

(* The client goes on to one request, or to none, and knows its sandbox as *)
(* before, the one it was told of, or none any more.                       *)
LEMMA AgentGoesOnMoves ==
  ASSUME ClientsOK, NEW c \in Agents, NEW st, NEW id, NEW rest, AgentGoesOn(c, st, id, rest),
         at[c] = "create" /\ st = "ok" => id # None
  PROVE  \E pc, k : Moves(c, pc, k, rest) /\ Knows(c, k, st, id)
<1>1. c \in Clients /\ c \notin Scripts /\ OwnFits(at[c], own[c])
  BY Names0 DEF ClientsOK
<1>2. CASE \E k : Ensured(c, k, rest) /\ k # None /\ Knows(c, k, st, id)
  BY <1>2, EnsuredMoves
<1>3. CASE Return(c, rest)
  BY <1>3, ReturnMoves DEF Knows
<1>4. CASE Verified(c, st, rest)
  <2>1. CASE st = "error" /\ Keep(c, None) /\ Look(c, rest) /\ UNCHANGED goal
    BY <1>4, <2>1, LookMoves DEF Verified, Knows
  <2>2. CASE st = "ok" /\ Ensured(c, own[c], rest)
    BY <1>1, <1>2, <1>4, <2>2 DEF Verified, Knows, OwnFits, About
  <2> QED
    BY <1>3, <1>4, <2>1, <2>2 DEF Verified
<1>5. CASE Found(c, st, id, rest)
  <2>1. CASE Create(c, rest)
    <3>1. own[c] = None /\ own' = [own EXCEPT ![c] = own[c]]
      BY <1>1, <1>5, <2>1, Keeps DEF Found, Create, OwnFits
    <3>2. Moves(c, "create", own[c], rest)
      <4>1. Asked("create") = "create" /\ ArgOf(c, "create", own[c]) = Shared
        BY DEF Asked, ArgOf, About
      <4>2. PcFits(c, "create") /\ OwnFits("create", own[c]) /\ "create" \in Busy
        BY <1>1, <3>1 DEF PcFits, OwnFits, About, Busy
      <4>3. Send(c, "create", Shared, "create", rest) /\ goal' = goal
        BY <2>1 DEF Create
      <4> QED
        BY <1>1, <3>1, <4>1, <4>2, <4>3, SendMoves
    <3> QED
      BY <3>2 DEF Knows
  <2> QED
    BY <1>2, <1>3, <1>5, <2>1 DEF Found, Knows
<1>6. CASE Created(c, st, id, rest)
  BY <1>2, <1>3, <1>6 DEF Created, Knows
<1>7. CASE WasReset(c, st, rest) /\ st = "error"
  <2>1. /\ Send(c, "delete", own[c], "drop", rest) /\ goal' = goal /\ own[c] # None
        /\ own' = [own EXCEPT ![c] = own[c]]
    BY <1>1, <1>7, Keeps DEF WasReset, OwnFits, About
  <2>2. Moves(c, "drop", own[c], rest)
    BY <1>1, <2>1, SendMoves DEF Busy, Asked, ArgOf, About, PcFits, OwnFits
  <2> QED
    BY <2>2 DEF Knows
<1>8. CASE Dropped(c, st, rest) /\ st # "late"
  BY <1>8, LookMoves DEF Dropped, Knows
<1>9. CASE Exited(c, rest)
  <2>1. Moves(c, "off", None, rest)
    BY <1>1, <1>9, GotoMoves DEF Exited, Keep, Pcs, Busy, PcFits, OwnFits, About
  <2> QED
    BY <1>9, <2>1 DEF Exited, Knows
<1> QED
  BY <1>3, <1>4, <1>5, <1>6, <1>7, <1>8, <1>9 DEF AgentGoesOn, Used, WasReset, Dropped

LEMMA ScriptGoesOnMoves ==
  ASSUME ClientsOK, NEW c \in Scripts, NEW st, NEW id, NEW rest,
         at[c] = "create" /\ st = "ok" => id # None,
         \/ ScriptCreated(c, st, id, rest) \/ Wrote(c, st, rest)
         \/ Executed(c, rest) \/ Destroyed(c, rest)
  PROVE  \E pc, k : Moves(c, pc, k, rest) /\ Knows(c, k, st, id)
<1>1. c \in Clients /\ c \notin Agents /\ OwnFits(at[c], own[c])
  BY Names0 DEF ClientsOK
<1>2. CASE ScriptCreated(c, st, id, rest) /\ st = "ok"
  <2>1. Moves(c, "write", id, rest)
    BY <1>1, <1>2, SendMoves DEF ScriptCreated, Keep, Busy, Asked, ArgOf, About, PcFits, OwnFits
  <2> QED
    BY <1>2, <2>1 DEF ScriptCreated, Knows
<1>3. CASE ScriptCreated(c, st, id, rest) /\ st # "ok"
  <2>1. Moves(c, "done", own[c], rest)
    BY <1>1, <1>3, Keeps, GotoMoves
       DEF ScriptCreated, Pcs, Busy, PcFits, OwnFits, About
  <2> QED
    BY <2>1 DEF Knows
<1>4. CASE Wrote(c, st, rest) \/ Executed(c, rest)
  <2>1. own[c] # None /\ own' = [own EXCEPT ![c] = own[c]] /\ goal' = goal
    BY <1>1, <1>4, Keeps DEF Wrote, Executed, OwnFits, About
  <2>2. \/ Send(c, "run", own[c], "exec", rest) \/ Send(c, "delete", own[c], "destroy", rest)
    BY <1>4 DEF Wrote, Executed
  <2>3. Moves(c, "exec", own[c], rest) \/ Moves(c, "destroy", own[c], rest)
    BY <1>1, <2>1, <2>2, SendMoves DEF Busy, Asked, ArgOf, About, PcFits, OwnFits
  <2> QED
    BY <2>3 DEF Knows
<1>5. CASE Destroyed(c, rest)
  <2>1. Moves(c, "done", None, rest)
    BY <1>1, <1>5, GotoMoves DEF Destroyed, Keep, Pcs, Busy, PcFits, OwnFits, About
  <2> QED
    BY <1>5, <2>1 DEF Destroyed, Knows
<1> QED
  BY <1>2, <1>3, <1>4, <1>5

LEMMA GoesOnMoves ==
  ASSUME ClientsOK, NEW c \in Clients, NEW st, NEW id, NEW rest, GoesOn(c, st, id, rest),
         at[c] = "create" /\ st = "ok" => id # None
  PROVE  \E pc, k : Moves(c, pc, k, rest) /\ Knows(c, k, st, id)
<1>1. CASE c \in Agents
  <2>1. AgentGoesOn(c, st, id, rest)
    BY <1>1, Names0 DEF GoesOn, ScriptCreated, Wrote, Executed, Destroyed, ClientsOK, PcFits
  <2> QED
    BY <1>1, <2>1, AgentGoesOnMoves
<1>2. CASE c \in Scripts
  <2>1. ~AgentGoesOn(c, st, id, rest)
    BY <1>2, Names0 DEF AgentGoesOn, Verified, Found, Created, Used, WasReset, Dropped, Exited,
                        ClientsOK, PcFits
  <2> QED
    BY <1>2, <2>1, ScriptGoesOnMoves DEF GoesOn
<1> QED
  BY <1>1, <1>2, Names0

-----------------------------------------------------------------------------
(* Steps of the engine                                                     *)

(* The handler h ends, and its client goes on, if it is still there.       *)
LEMMA AnswerInv ==
  ASSUME Inv, NEW h \in wire, NEW st, NEW id, Answer(h, st, id),
         EngineOK', Grows, faults' = faults,
         h.lost = 0 /\ st = "ok" /\ id # None /\ h.op \in {"list", "create"} => Ours(h.by, id)',
         h.op = "create" /\ st = "ok" => id # None,
         \A g \in wire \ {h} : g.stage = "gone" /\ g.lost = 0 => own[g.by] \notin Up',
         \A g \in wire \ {h} : g.stage = "boot" =>
            listed'[g.id] = None /\ (st = "ok" /\ h.op \in {"list", "create"} => g.id # id)
  PROVE  Inv'
<1>1. EngineOK /\ ClientsOK /\ Shape(h) /\ Live(h) /\ h.by \in Clients
  BY DEF Inv, HandlersOf, Shape, Handler
<1>2. HandlersOf(wire \ {h})
  BY HandlersFewer DEF Inv
<1>3. ASSUME NEW g \in wire \ {h}, g.stage = "boot"
      PROVE  g.id \in Ids /\ \A c \in Clients : own[c] # g.id
  BY <1>2, <1>3 DEF HandlersOf, Booting
<1>4. CASE h.lost = 0
  <2>1. at[h.by] \in Busy /\ h.op = Asked(at[h.by])
    BY <1>1, <1>4 DEF Live
  <2>2. /\ at[h.by] = "create" => h.op = "create"
        /\ at[h.by] \in {"list", "create"} => h.op \in {"list", "create"}
    BY <2>1 DEF Asked
  <2>3. GoesOn(h.by, st, id, wire \ {h})
    BY <1>4 DEF Answer
  <2>4. PICK pc, k : Moves(h.by, pc, k, wire \ {h}) /\ Knows(h.by, k, st, id)
    BY <1>1, <2>2, <2>3, GoesOnMoves
  <2>5. k # None => Ours(h.by, k)'
    <3>1. CASE k = own[h.by] /\ k # None
      BY <1>1, <3>1, OursStays DEF ClientsOK, Ours
    <3> QED
      BY <1>4, <2>2, <2>4, <3>1 DEF Knows
  <2>6. \A g \in wire \ {h} : g.lost = 0 => g.by # h.by
    BY <1>4 DEF Inv, HandlersOf
  <2>7. \A g \in wire \ {h} : g.stage = "boot" => listed'[g.id] = None /\ g.id # k
    BY <1>1, <1>3, <2>2, <2>4, Names0 DEF Knows
  <2>8. faults' \in 0..MaxFaults
    BY DEF Inv
  <2> QED
    BY <1>1, <1>2, <2>4, <2>5, <2>6, <2>7, <2>8, MovesInv
<1>5. CASE h.lost # 0
  <2>1. wire' = wire \ {h} /\ UNCHANGED <<at, goal, own>>
    BY <1>5 DEF Answer, client
  <2>2. HandlersOf(wire \ {h})'
    BY <1>1, <1>2, <1>3, <2>1, HandlersStay
  <2>3. ClientsOK'
    <3>1. \A c \in Clients : own[c] # None => Ours(c, own[c])'
      BY <1>1, <2>1, OursStays DEF ClientsOK, Ours
    <3> QED
      BY <1>1, <2>1, <3>1 DEF ClientsOK
  <2> QED
    BY <2>1, <2>2, <2>3 DEF Inv, HandlersOf
<1> QED
  BY <1>4, <1>5

(* The clients stay where they are.                                        *)
LEMMA ClientsStay == ASSUME ClientsOK, Grows, UNCHANGED client PROVE ClientsOK'
<1>1. UNCHANGED <<at, goal, own>>
  BY DEF client
<1>2. \A c \in Clients : own[c] # None => Ours(c, own[c])'
  BY <1>1, OursStays DEF ClientsOK, Ours
<1> QED
  BY <1>1, <1>2 DEF ClientsOK

LEMMA EngineStays ==
  ASSUME EngineOK, UNCHANGED <<listed, origin>>, ran' = ran
  PROVE  EngineOK' /\ Grows /\ Up' = Up
BY DEF EngineOK, Grows, Ours, Up

(* Sandboxes that go.                                                      *)
LEMMA FewerListed ==
  ASSUME EngineOK, NEW D \in SUBSET Ids,
         listed' = [id \in Ids |-> IF id \in D THEN None ELSE listed[id]],
         UNCHANGED <<origin, ran>>
  PROVE  EngineOK' /\ Grows /\ Up' = Up \ D
BY DEF EngineOK, Grows, Ours, Up

(* A handler that has gone on to another stage.                            *)
LEMMA HandlersSwap ==
  ASSUME NEW R, HandlersOf(R)', NEW g, Shape(g)', Live(g)', Booting(g)',
         \A f \in R : f.lost = 0 /\ g.lost = 0 => f.by # g.by,
         \A f \in R : f.stage = "boot" /\ g.stage = "boot" => f.id # g.id
  PROVE  HandlersOf(R \cup {g})'
BY DEF HandlersOf

(* An entry that goes, or stays: nobody is disturbed.                      *)
LEMMA OthersFewer ==
  ASSUME Inv, NEW R \in SUBSET wire, Up' \subseteq Up, EngineOK'
  PROVE  /\ \A g \in R : g.stage = "gone" /\ g.lost = 0 => own[g.by] \notin Up'
         /\ \A g \in R : g.stage = "boot" =>
              listed'[g.id] = None /\ g.id \notin Up /\ \A c \in Clients : own[c] # g.id
<1>1. ASSUME NEW g \in R, g.stage = "gone", g.lost = 0 PROVE own[g.by] \notin Up'
  BY <1>1 DEF Inv, HandlersOf, Live
<1>2. ASSUME NEW g \in R, g.stage = "boot"
      PROVE  listed'[g.id] = None /\ g.id \notin Up /\ \A c \in Clients : own[c] # g.id
  <2>1. g.id \in Ids /\ listed[g.id] = None /\ \A c \in Clients : own[c] # g.id
    BY <1>2 DEF Inv, HandlersOf, Booting
  <2>2. g.id \notin Up
    BY <2>1 DEF Up
  <2>3. g.id \notin Up'
    BY <2>2
  <2> QED
    BY <2>1, <2>2, <2>3 DEF Up
<1> QED
  BY <1>1, <1>2

LEMMA ErrorInv ==
  ASSUME Inv, NEW h \in wire, Answer(h, "error", None), UNCHANGED <<engine, faults>>
  PROVE  Inv'
<1>1. EngineOK' /\ Grows /\ Up' = Up
  BY EngineStays DEF Inv, engine
<1>2. wire \ {h} \in SUBSET wire
  OBVIOUS
<1> QED
  BY <1>1, <1>2, OthersFewer, AnswerInv

LEMMA GetInv == ASSUME Inv, NEW h \in wire, Get(h), faults' = faults PROVE Inv'
<1>1. EngineOK' /\ Grows /\ Up' = Up /\ origin' = origin /\ EngineOK
  BY EngineStays DEF Inv, engine, Get
<1>2. wire \ {h} \in SUBSET wire
  OBVIOUS
<1>3. CASE h.op = "get" /\ \E id \in Matches(h.arg) : Answer(h, "ok", id)
  BY <1>1, <1>2, <1>3, OthersFewer, AnswerInv
<1>4. CASE h.op = "list" /\ \E id \in Namesakes(Shared) : Answer(h, "ok", id)
  <2>1. PICK id \in Namesakes(Shared) : Answer(h, "ok", id)
    BY <1>4
  <2>2. id \in Up /\ id \in Ids /\ origin[id].name = Shared
    BY <1>1, Names0 DEF Namesakes, Up, EngineOK
  <2>3. h.lost = 0 => h.by \in Agents
    <3>1. h.by \in Clients /\ (h.lost = 0 => at[h.by] = "list")
      BY <1>4 DEF Inv, HandlersOf, Live, Shape, Handler, Asked, Busy
    <3> QED
      BY <3>1, Names0 DEF Inv, ClientsOK, PcFits
  <2>4. h.lost = 0 => Ours(h.by, id)'
    BY <1>1, <2>2, <2>3, Names0 DEF Ours
  <2>5. \A g \in wire \ {h} : g.stage = "boot" => listed'[g.id] = None /\ g.id # id
    BY <1>1, <1>2, <2>2, OthersFewer
  <2> QED
    BY <1>1, <1>2, <1>4, <2>1, <2>4, <2>5, OthersFewer, AnswerInv
<1>5. CASE h.op = "list" /\ Answer(h, "ok", None)
  <2>1. \A g \in wire \ {h} : g.stage = "boot" => listed'[g.id] = None /\ g.id # None
    BY <1>1, <1>2, OthersFewer, Names0 DEF Inv, HandlersOf, Booting
  <2> QED
    BY <1>1, <1>2, <1>5, <2>1, OthersFewer, AnswerInv
<1> QED
  BY <1>3, <1>4, <1>5 DEF Get

(* What is asked for is the client's own sandbox, and no other is found.   *)
LEMMA FoundOwn ==
  ASSUME Inv, NEW h \in wire, h.stage = "find", h.op \in {"run", "delete", "reset", "get"},
         NEW id \in Matches(h.arg)
  PROVE  id = h.arg /\ id \in Up /\ Ours(h.by, id)
<1>1. Ours(h.by, h.arg) /\ h.arg \in Ids
  BY DEF Inv, HandlersOf, Shape, Ours
<1>2. id = h.arg
  BY <1>1, MatchesOnly DEF Inv
<1>3. id \in Up
  BY DEF Matches, Namesakes
<1> QED
  BY <1>1, <1>2, <1>3

LEMMA RunInv == ASSUME Inv, NEW h \in wire, Run(h), faults' = faults PROVE Inv'
<1>1. wire \ {h} \in SUBSET wire
  OBVIOUS
<1>2. PICK id \in Matches(h.arg), st \in {"ok", "error"} :
        Answer(h, st, id) /\ (ran' = ran \cup {<<h.by, id>>} \/ ran' = ran)
  BY DEF Run
<1>3. Ours(h.by, id) /\ h.by \in Clients /\ id \in Ids
  BY FoundOwn DEF Run, Inv, HandlersOf, Shape, Handler, Ours
<1>4. EngineOK' /\ Grows /\ Up' = Up
  <2>1. UNCHANGED <<listed, origin>> /\ EngineOK
    BY DEF Run, Inv
  <2>2. ran' \subseteq Clients \X Ids
    BY <1>2, <1>3, <2>1 DEF EngineOK
  <2>3. ASSUME NEW r \in ran' PROVE Ours(r[1], r[2])'
    <3>1. CASE r \in ran
      BY <2>1, <3>1 DEF EngineOK, Ours
    <3>2. CASE r = <<h.by, id>>
      <4>1. r[1] = h.by /\ r[2] = id
        BY <3>2
      <4> QED
        BY <1>3, <2>1, <4>1 DEF Ours
    <3> QED
      BY <1>2, <3>1, <3>2
  <2> QED
    BY <2>1, <2>2, <2>3 DEF EngineOK, Grows, Up
<1>5. h.op = "run"
  BY DEF Run
<1> QED
  BY <1>1, <1>2, <1>4, <1>5, OthersFewer, AnswerInv

LEMMA DropsOne ==
  ASSUME EngineOK, NEW id \in Ids, listed' = [listed EXCEPT ![id] = None], UNCHANGED <<origin, ran>>
  PROVE  EngineOK' /\ Grows /\ Up' = Up \ {id}
<1>1. listed' = [i \in Ids |-> IF i \in {id} THEN None ELSE listed[i]]
  BY DEF EngineOK
<1> QED
  BY <1>1, FewerListed

LEMMA DeleteInv == ASSUME Inv, NEW h \in wire, Delete(h), faults' = faults PROVE Inv'
<1>1. wire \ {h} \in SUBSET wire
  OBVIOUS
<1>2. PICK id \in Matches(h.arg) : listed' = [listed EXCEPT ![id] = None] /\ Answer(h, "ok", id)
  BY DEF Delete
<1>3. id \in Ids /\ h.op = "delete"
  BY DEF Delete, Matches, Namesakes, Up
<1>4. EngineOK' /\ Grows /\ Up' = Up \ {id}
  BY <1>2, <1>3, DropsOne DEF Delete, Inv
<1> QED
  BY <1>1, <1>2, <1>3, <1>4, OthersFewer, AnswerInv

(* The clients stay, and h goes on as g.                                   *)
LEMMA StepInv ==
  ASSUME Inv, NEW h \in wire, NEW g, Step(h, g), EngineOK', Grows, faults' = faults,
         Up' \subseteq Up, Shape(g)', Live(g)', Booting(g)', g.by = h.by, g.lost = h.lost,
         \A f \in wire \ {h} : f.stage = "boot" /\ g.stage = "boot" => f.id # g.id
  PROVE  Inv'
<1> SUFFICES ASSUME NEW R, R = wire \ {h} PROVE Inv'
  OBVIOUS
<1>1. wire' = R \cup {g} /\ UNCHANGED client /\ UNCHANGED <<at, goal, own>>
  BY DEF Step, client
<1>2. HandlersOf(R)'
  <2>1. HandlersOf(R) /\ R \in SUBSET wire /\ EngineOK
    BY HandlersFewer DEF Inv
  <2> QED
    BY <1>1, <2>1, OthersFewer, HandlersStay
<1>3. \A f \in R : f.lost = 0 /\ g.lost = 0 => f.by # g.by
  BY DEF Inv, HandlersOf
<1>4. HandlersOf(R \cup {g})'
  BY <1>2, <1>3 DEF HandlersOf
<1>5. ClientsOK'
  BY <1>1, ClientsStay DEF Inv
<1> QED
  BY <1>1, <1>4, <1>5 DEF Inv, HandlersOf

(* The sandbox a reset pops is one under the shared name.                  *)
LEMMA ResetPopInv == ASSUME Inv, NEW h \in wire, ResetPop(h), faults' = faults PROVE Inv'
<1>1. PICK id \in Matches(h.arg) :
        /\ listed' = [listed EXCEPT ![id] = None]
        /\ Step(h, [h EXCEPT !.stage = "create", !.arg = listed[id]])
  BY DEF ResetPop
<1>2. h.op = "reset" /\ h.stage = "find" /\ Shape(h) /\ Live(h) /\ h \in Handler
  BY DEF ResetPop, Inv, HandlersOf, Shape
<1>3. id \in Up /\ id \in Ids /\ Ours(h.by, id) /\ h.by \in Agents
  BY <1>2, FoundOwn DEF Ours, Shape
<1>4. listed[id] = Shared
  BY <1>3 DEF Inv, EngineOK, Up, Ours
<1> DEFINE g == [h EXCEPT !.stage = "create", !.arg = Shared]
<1>5. /\ g \in Handler /\ g.by = h.by /\ g.op = "reset" /\ g.arg = Shared /\ g.lost = h.lost
      /\ g.stage = "create"
  BY <1>2 DEF Handler, Names
<1>6. Step(h, g)
  BY <1>1, <1>4
<1> HIDE DEF g
<1>7. EngineOK' /\ Grows /\ Up' = Up \ {id}
  BY <1>1, <1>3, DropsOne DEF ResetPop, Inv
<1>8. UNCHANGED <<at, own>>
  BY <1>6 DEF Step, client
<1>9. Shape(g)' /\ Live(g)' /\ Booting(g)'
  <2>1. Shape(g)'
    BY <1>3, <1>5 DEF Shape
  <2>2. Live(g)'
    BY <1>2, <1>5, <1>8 DEF Live
  <2> QED
    BY <1>5, <2>1, <2>2 DEF Booting
<1> QED
  BY <1>5, <1>6, <1>7, <1>9, StepInv

(* A new sandbox: its id was never used, so nobody knows it.               *)
LEMMA BootInv ==
  ASSUME Inv, NEW h \in wire, Creating(h), Boot(h), UNCHANGED <<listed, ran, faults>>
  PROVE  Inv'
<1> DEFINE name(id) == IF h.arg = None THEN id ELSE h.arg
<1>1. PICK id \in Fresh :
        /\ origin' = [origin EXCEPT ![id] = [by |-> h.by, op |-> h.op, name |-> name(id)]]
        /\ Step(h, [h EXCEPT !.stage = "boot", !.id = id])
  BY DEF Boot
<1>2. Shape(h) /\ Live(h) /\ h \in Handler /\ h.by \in Clients /\ EngineOK /\ ClientsOK
  BY DEF Inv, HandlersOf, Shape, Handler
<1>3. id \in Ids /\ origin[id] = Unused /\ listed[id] = None
  BY <1>2 DEF Fresh, EngineOK
<1>4. /\ h.op \in {"create", "reset"}
      /\ h.op = "reset" => h.arg = Shared
      /\ h.arg \in {Shared, None}
  BY <1>2 DEF Creating, Shape
<1>5. name(id) \in {Shared, id} /\ name(id) \in Names
  BY <1>3, <1>4 DEF Names
<1>6. origin'[id] = [by |-> h.by, op |-> h.op, name |-> name(id)]
  BY <1>1, <1>2, <1>3 DEF EngineOK
<1>7. \A i \in Ids \ {id} : origin'[i] = origin[i]
  BY <1>1, <1>2, <1>3 DEF EngineOK
<1> DEFINE g == [h EXCEPT !.stage = "boot", !.id = id]
<1>8. /\ g \in Handler /\ g.by = h.by /\ g.op = h.op /\ g.arg = h.arg /\ g.lost = h.lost
      /\ g.stage = "boot" /\ g.id = id
  BY <1>2, <1>3 DEF Handler
<1>9. Step(h, g) /\ Up' = Up
  BY <1>1 DEF Up
<1>10. Grows
  BY <1>3, <1>7 DEF Grows
<1>11. origin' \in [Ids -> [by : Clients, op : {"create", "reset"}, name : Names] \cup {Unused}]
  <2>1. [by |-> h.by, op |-> h.op, name |-> name(id)]
          \in [by : Clients, op : {"create", "reset"}, name : Names]
    BY <1>2, <1>4, <1>5
  <2> QED
    BY <1>1, <1>2, <2>1 DEF EngineOK
<1> HIDE DEF g, name
<1>12. EngineOK'
  <2>1. \A r \in ran : Ours(r[1], r[2])'
    BY <1>2, <1>10, OursStays DEF EngineOK
  <2>2. \A i \in Ids : origin'[i] # Unused => origin'[i].name \in {Shared, i}
    BY <1>2, <1>5, <1>6, <1>7 DEF EngineOK
  <2>3. \A i \in Ids : listed[i] # None => origin'[i] # Unused /\ listed[i] = origin'[i].name
    BY <1>2, <1>3, <1>7 DEF EngineOK
  <2> QED
    BY <1>2, <1>11, <2>1, <2>2, <2>3 DEF EngineOK
<1>13. \A c \in Clients : own[c] # id
  BY <1>2, <1>3, <1>10, OursStays, Names0 DEF ClientsOK
<1>14. UNCHANGED <<at, own>>
  BY <1>9 DEF Step, client
<1>15. Shape(g)' /\ Live(g)' /\ Booting(g)'
  <2>1. Shape(g)'
    BY <1>2, <1>4, <1>8 DEF Shape
  <2>2. Live(g)'
    BY <1>2, <1>4, <1>8, <1>14 DEF Live
  <2>3. Booting(g)'
    BY <1>3, <1>4, <1>6, <1>8, <1>13, <1>14 DEF Booting, name
  <2> QED
    BY <2>1, <2>2, <2>3
<1>16. \A f \in wire \ {h} : f.stage = "boot" => f.id # id
  <2> SUFFICES ASSUME NEW f \in wire \ {h}, f.stage = "boot", f.id = id PROVE FALSE
    OBVIOUS
  <2>1. Booting(f) /\ Shape(f)
    BY DEF Inv, HandlersOf
  <2>2. f.by \in Clients /\ Unused.by = f.by
    BY <1>3, <2>1 DEF Booting, Shape, Handler
  <2> QED
    BY <2>2, Names0 DEF Unused
<1> QED
  BY <1>8, <1>9, <1>10, <1>12, <1>15, <1>16, StepInv

LEMMA InsertInv == ASSUME Inv, NEW h \in wire, Insert(h), faults' = faults PROVE Inv'
<1>1. Booting(h) /\ Shape(h) /\ Live(h) /\ h.stage = "boot" /\ EngineOK /\ h.by \in Clients
  BY DEF Inv, HandlersOf, Insert, Shape, Handler
<1>2. /\ h.id \in Ids /\ h.op \in {"create", "reset"}
      /\ origin[h.id] = [by |-> h.by, op |-> h.op, name |-> IF h.arg = None THEN h.id ELSE h.arg]
      /\ \A c \in Clients : own[c] # h.id
  BY <1>1 DEF Booting
<1>3. /\ listed' = [listed EXCEPT ![h.id] = origin[h.id].name] /\ origin' = origin /\ ran' = ran
      /\ Answer(h, "ok", h.id)
  BY DEF Insert
<1>4. origin[h.id] # Unused
  BY <1>1, <1>2, Names0 DEF Unused
<1>5. origin[h.id].name \in Names
  BY <1>1, <1>2, <1>4 DEF EngineOK
<1>6. EngineOK' /\ Grows
  <2>1. \A r \in ran : Ours(r[1], r[2])'
    BY <1>1, <1>3 DEF EngineOK, Ours
  <2> QED
    BY <1>1, <1>2, <1>3, <1>4, <1>5, <2>1 DEF EngineOK, Grows
<1>7. Up' \subseteq Up \cup {h.id}
  BY <1>1, <1>2, <1>3 DEF Up, EngineOK
<1>8. \A g \in wire \ {h} : g.stage = "gone" /\ g.lost = 0 => own[g.by] \notin Up'
  BY <1>2, <1>7 DEF Inv, HandlersOf, Live, Shape, Handler
<1>9. ASSUME NEW g \in wire \ {h}, g.stage = "boot" PROVE listed'[g.id] = None /\ g.id # h.id
  <2>1. g.id # h.id
    BY <1>1, <1>9 DEF Inv, HandlersOf
  <2>2. listed[g.id] = None /\ g.id \in Ids
    BY <1>9 DEF Inv, HandlersOf, Booting
  <2> QED
    BY <1>1, <1>2, <1>3, <2>1, <2>2 DEF EngineOK
<1>10. h.op = "create" => Ours(h.by, h.id)'
  BY <1>1, <1>2, <1>3, Names0 DEF Ours, Shape
<1>11. h.op # "list" /\ h.id # None
  BY <1>2, Names0
<1> QED
  BY <1>3, <1>6, <1>8, <1>9, <1>10, <1>11, AnswerInv

LEMMA HandleInv == ASSUME Inv, NEW h \in wire, Handle(h) PROVE Inv'
<1>1. faults' = faults
  BY DEF Handle
<1>2. CASE NotFound(h)
  BY <1>1, <1>2, ErrorInv DEF NotFound
<1>3. CASE CheckName(h)
  <2>1. CASE Conflict(h)
    BY <1>1, <1>3, <2>1, ErrorInv DEF CheckName, Conflict, engine
  <2>2. CASE Boot(h)
    BY <1>1, <1>3, <2>2, BootInv DEF CheckName
  <2> QED
    BY <1>3, <2>1, <2>2 DEF CheckName
<1> QED
  BY <1>1, <1>2, <1>3, GetInv, RunInv, DeleteInv, ResetPopInv, InsertInv DEF Handle

-----------------------------------------------------------------------------
(* Faults, and what others do                                              *)

LEMMA LaterLost ==
  ASSUME HandlersOf(wire), faults \in 0..MaxFaults, NEW h \in wire
  PROVE  Unheard(h).lost # 0
<1>1. h \in Handler
  BY DEF HandlersOf, Shape
<1>2. Unheard(h).lost = faults + 1
  BY <1>1 DEF Unheard, Handler
<1> QED
  BY <1>2, ClientsAssumption

LEMMA LoseInv == ASSUME Inv, NEW h \in wire, Lose(h) PROVE Inv'
<1>1. PICK st, rest :
        /\ st \in {"error", "late"}
        /\ GoesOn(h.by, st, None, rest)
        /\ rest = (wire \ {h}) \cup {Unheard(h)} \/ rest = wire \ {h}
  BY DEF Lose
<1>2. /\ h.lost = 0 /\ h.by \in Clients /\ ClientsOK /\ EngineOK /\ HandlersOf(wire)
      /\ faults \in 0..MaxFaults /\ faults < MaxFaults /\ faults' = faults + 1
      /\ UNCHANGED engine
  BY DEF Lose, Fault, Inv, HandlersOf, Shape, Handler
<1>3. PICK pc, k : Moves(h.by, pc, k, rest) /\ Knows(h.by, k, st, None)
  BY <1>1, <1>2, GoesOnMoves
<1>4. k = own[h.by] \/ k = None
  BY <1>3 DEF Knows
<1>5. EngineOK' /\ Grows /\ Up' = Up /\ UNCHANGED <<listed, origin>>
  BY <1>2, EngineStays DEF engine
<1>6. HandlersOf(rest)
  BY <1>1, <1>2, HandlersUnheard, HandlersFewer
<1>7. \A g \in rest : g.lost = 0 => g \in wire \ {h}
  BY <1>1, <1>2, LaterLost
<1>8. ASSUME NEW g \in rest, g.lost = 0 PROVE g.by # h.by
  BY <1>2, <1>7, <1>8 DEF HandlersOf
<1>9. ASSUME NEW g \in rest, g.stage = "gone", g.lost = 0 PROVE own[g.by] \notin Up'
  BY <1>5, <1>6, <1>9 DEF HandlersOf, Live
<1>10. ASSUME NEW g \in rest, g.stage = "boot" PROVE listed'[g.id] = None /\ g.id # k
  <2>1. g.id \in Ids /\ listed[g.id] = None /\ own[h.by] # g.id
    BY <1>2, <1>6, <1>10 DEF HandlersOf, Booting
  <2> QED
    BY <1>4, <1>5, <2>1, Names0
<1>11. k # None => Ours(h.by, k)'
  BY <1>2, <1>4, <1>5, OursStays DEF ClientsOK
<1>12. faults' \in 0..MaxFaults
  BY <1>2, ClientsAssumption
<1> QED
  BY <1>2, <1>3, <1>5, <1>6, <1>8, <1>9, <1>10, <1>11, <1>12, MovesInv

LEMMA KillInv == ASSUME Inv, NEW c \in Clients, Kill(c) PROVE Inv'
<1> DEFINE mine == {h \in wire : h.by = c /\ h.lost = 0}
           pc == IF c \in Agents THEN "off" ELSE "done"
<1>1. /\ ClientsOK /\ EngineOK /\ HandlersOf(wire)
      /\ faults \in 0..MaxFaults /\ faults < MaxFaults /\ faults' = faults + 1
      /\ UNCHANGED engine
  BY DEF Kill, Fault, Inv
<1>2. PICK rest : /\ wire' = rest
                  /\ \/ rest = (wire \ mine) \cup {Unheard(h) : h \in mine}
                     \/ /\ rest = wire \ {h \in mine : h.stage = "find"}
                        /\ \A h \in mine : h.stage = "find"
  BY DEF Kill
<1>3. rest = wire \ mine \/ \E h \in mine : rest = (wire \ {h}) \cup {Unheard(h)}
  <2>1. CASE rest = (wire \ mine) \cup {Unheard(h) : h \in mine}
    <3>1. CASE mine = {}
      BY <2>1, <3>1
    <3>2. CASE mine # {}
      <4>1. PICK h \in mine : TRUE
        BY <3>2
      <4>2. mine = {h}
        BY <1>1, <4>1 DEF HandlersOf
      <4> QED
        BY <2>1, <4>2
    <3> QED
      BY <3>1, <3>2
  <2> QED
    BY <1>2, <2>1
<1>4. HandlersOf(rest)
  BY <1>1, <1>3, HandlersUnheard, HandlersFewer
<1>5. \A g \in rest : g.lost = 0 => g.by # c
  <2>1. \A h \in mine : Unheard(h).lost # 0
    BY <1>1, LaterLost
  <2> QED
    BY <1>1, <1>3, <2>1 DEF HandlersOf
<1>6. Moves(c, pc, None, rest)
  <2>1. /\ at' = [at EXCEPT ![c] = pc] /\ own' = [own EXCEPT ![c] = None]
        /\ goal' = [goal EXCEPT ![c] = "none"]
    BY DEF Kill, Keep
  <2>2. pc \in Pcs /\ pc \notin Busy /\ PcFits(c, pc) /\ OwnFits(pc, None)
    BY Names0 DEF Pcs, Busy, PcFits, OwnFits, About
  <2> QED
    BY <1>1, <1>2, <2>1, <2>2 DEF Moves, ClientsOK
<1>7. EngineOK' /\ Grows /\ Up' = Up /\ UNCHANGED <<listed, origin>>
  BY <1>1, EngineStays DEF engine
<1>8. \A g \in rest : g.stage = "gone" /\ g.lost = 0 => own[g.by] \notin Up'
  BY <1>4, <1>7 DEF HandlersOf, Live
<1>9. \A g \in rest : g.stage = "boot" => listed'[g.id] = None /\ g.id # None
  BY <1>4, <1>7, Names0 DEF HandlersOf, Booting
<1>10. faults' \in 0..MaxFaults
  BY <1>1, ClientsAssumption
<1> QED
  BY <1>4, <1>5, <1>6, <1>7, <1>8, <1>9, <1>10, MovesInv

LEMMA EngineEndsInv == ASSUME Inv, EngineEnds PROVE Inv'
<1> DEFINE heard == {h \in wire : h.lost = 0}
           Ended(h) == [h EXCEPT !.stage = "gone"]
<1>1. /\ ClientsOK /\ EngineOK /\ HandlersOf(wire) /\ faults' = faults + 1
      /\ listed' = [id \in Ids |-> None] /\ UNCHANGED <<origin, ran, client>>
      /\ wire' = {Ended(h) : h \in heard} /\ faults' \in 0..MaxFaults
  BY ClientsAssumption DEF EngineEnds, Fault, Inv
<1>2. listed' = [id \in Ids |-> IF id \in Ids THEN None ELSE listed[id]]
  BY <1>1
<1>3. EngineOK' /\ Grows /\ Up' = {}
  BY <1>1, <1>2, FewerListed DEF Up
<1>4. ClientsOK' /\ UNCHANGED <<at, own>>
  BY <1>1, <1>3, ClientsStay DEF client
<1>5. ASSUME NEW h \in heard PROVE Shape(Ended(h))' /\ Live(Ended(h))' /\ Booting(Ended(h))'
  <2>1. Shape(h) /\ Live(h) /\ h \in Handler /\ h.lost = 0
    BY <1>1 DEF HandlersOf, Shape
  <2>2. PICK g : g = Ended(h)
    OBVIOUS
  <2>3. /\ g \in Handler /\ g.by = h.by /\ g.op = h.op /\ g.arg = h.arg /\ g.lost = 0
        /\ g.stage = "gone"
    BY <2>1, <2>2 DEF Handler
  <2>4. Shape(g)'
    BY <1>1, <2>1, <2>3 DEF Shape, Ours
  <2>5. Live(g)'
    BY <1>3, <1>4, <2>1, <2>3 DEF Live
  <2>6. Booting(g)'
    BY <2>3 DEF Booting
  <2> QED
    BY <2>2, <2>4, <2>5, <2>6
<1>6. ASSUME NEW f \in heard, NEW h \in heard, Ended(f).by = Ended(h).by PROVE Ended(f) = Ended(h)
  <2>1. f.by = h.by
    BY <1>1, <1>6 DEF HandlersOf, Shape, Handler
  <2> QED
    BY <1>1, <2>1 DEF HandlersOf
<1>7. \A h \in heard : Ended(h).lost = 0 /\ Ended(h).stage = "gone"
  BY <1>1 DEF HandlersOf, Shape, Handler
<1> SUFFICES ASSUME NEW S, S = {Ended(h) : h \in heard}, wire' = S PROVE Inv'
  BY <1>1
<1> HIDE DEF heard, Ended
<1>8. HandlersOf(S)'
  <2>1. \A s \in S : Shape(s)' /\ Live(s)' /\ Booting(s)' /\ s.stage = "gone"
    BY <1>5, <1>7
  <2>2. \A s, t \in S : s.by = t.by => s = t
    BY <1>6
  <2> QED
    BY <2>1, <2>2 DEF HandlersOf
<1> QED
  BY <1>1, <1>3, <1>4, <1>8 DEF Inv, HandlersOf

LEMMA UserDestroysInv == ASSUME Inv, NEW id \in Ids, UserDestroys(id) PROVE Inv'
<1>1. EngineOK' /\ Grows /\ Up' = Up \ {id}
  BY DropsOne DEF UserDestroys, Inv
<1>2. ClientsOK' /\ UNCHANGED <<at, own, wire, faults>>
  BY <1>1, ClientsStay DEF UserDestroys, Inv, client
<1> SUFFICES ASSUME NEW S, S = wire, wire' = S PROVE Inv'
  BY <1>2
<1>3. HandlersOf(S) /\ S \in SUBSET wire /\ EngineOK
  BY DEF Inv
<1>4. HandlersOf(S)'
  BY <1>1, <1>2, <1>3, OthersFewer, HandlersStay
<1> QED
  BY <1>1, <1>2, <1>4 DEF Inv, HandlersOf

(* A client that calls has no request in the engine.                       *)
LEMMA CallInv ==
  ASSUME Inv, NEW c \in Clients, at[c] \notin Busy, NEW pc, Moves(c, pc, own[c], wire),
         UNCHANGED <<engine, faults>>
  PROVE  Inv'
<1>1. ClientsOK /\ EngineOK /\ HandlersOf(wire) /\ faults' \in 0..MaxFaults
  BY DEF Inv
<1>2. EngineOK' /\ Grows /\ Up' = Up
  BY <1>1, EngineStays DEF engine
<1>3. own[c] # None => Ours(c, own[c]) /\ origin' = origin
  BY <1>1 DEF ClientsOK, engine
<1> SUFFICES ASSUME NEW k, k = own[c], NEW R, R = wire PROVE Inv'
  OBVIOUS
<1>4. Moves(c, pc, k, R) /\ HandlersOf(R)
  BY <1>1
<1>5. k # None => Ours(c, k)'
  BY <1>3 DEF Ours
<1>6. \A h \in R : h.lost = 0 => h.by # c
  BY <1>1 DEF HandlersOf, Live
<1>7. /\ \A h \in R : h.stage = "gone" /\ h.lost = 0 => own[h.by] \notin Up'
      /\ \A h \in R : h.stage = "boot" => listed'[h.id] = None /\ h.id # k
  BY <1>2, OthersFewer
<1> QED
  BY <1>1, <1>2, <1>4, <1>5, <1>6, <1>7, MovesInv

LEMMA NextInv == Inv /\ [Next]_vars => Inv'
<1> SUFFICES ASSUME Inv, [Next]_vars PROVE Inv'
  OBVIOUS
<1>1. ASSUME NEW c \in Agents, AgentCalls(c) PROVE Inv'
  <2>1. c \in Clients /\ ClientsOK /\ UNCHANGED <<engine, faults>>
    BY <1>1, Names0 DEF AgentCalls, Inv
  <2> QED
    BY <1>1, <2>1, AgentCallsMoves, CallInv
<1>2. ASSUME NEW c \in Scripts, RunCode(c) PROVE Inv'
  <2>1. c \in Clients /\ ClientsOK
    BY Names0 DEF Inv
  <2> QED
    BY <1>2, <2>1, RunCodeMoves, CallInv
<1>3. ASSUME NEW h \in wire, Broken(h) PROVE Inv'
  BY <1>3, ErrorInv DEF Broken
<1>4. ASSUME UNCHANGED vars PROVE Inv'
  <2>1. UNCHANGED <<listed, origin, ran, at, goal, own, wire, faults>>
    BY <1>4 DEF vars, engine, client
  <2> QED
    BY <2>1 DEF Inv, EngineOK, ClientsOK, HandlersOf, Shape, Live, Booting, Ours, Up
<1> QED
  BY <1>1, <1>2, <1>3, <1>4, HandleInv, LoseInv, KillInv, EngineEndsInv, UserDestroysInv DEF Next

(* What the handlers may still do and what the clients know always fits.   *)
THEOREM Invariant == Spec => []Inv
BY InitInv, NextInv, PTL DEF Spec

-----------------------------------------------------------------------------
(* The types are right in every reachable state.                           *)
THEOREM ClientsTypeCorrect == Spec => []TypeOK
<1>1. Inv => TypeOK
  BY DEF Inv, EngineOK, ClientsOK, HandlersOf, Shape, Handler, TypeOK
<1> QED
  BY <1>1, Invariant, PTL

(* Nobody runs in a sandbox that is not his: an MCP server only under the  *)
(* shared name, run_code only in the sandbox made for this call.           *)
THEOREM NobodyMeets == Spec => []SandboxesApart
<1>1. Inv => SandboxesApart
  <2> SUFFICES ASSUME Inv, NEW r \in ran, NEW q \in ran
               PROVE  /\ r[1] \in Agents => origin[r[2]].name = Shared
                      /\ r[1] \in Scripts => /\ origin[r[2]].by = r[1]
                                             /\ q[2] = r[2] => q[1] = r[1]
    BY DEF SandboxesApart
  <2>1. Ours(r[1], r[2]) /\ Ours(q[1], q[2]) /\ q[1] \in Clients /\ r[1] \in Clients
    BY DEF Inv, EngineOK
  <2>2. ASSUME r[1] \in Scripts PROVE origin[r[2]].by = r[1] /\ origin[r[2]].name = r[2]
    BY <2>1, <2>2 DEF Ours
  <2>3. ASSUME r[1] \in Scripts, q[2] = r[2] PROVE q[1] = r[1]
    <3>1. q[1] \notin Agents
      BY <2>1, <2>2, <2>3, Names0 DEF Ours
    <3> QED
      BY <2>1, <2>2, <2>3, <3>1, Names0 DEF Ours
  <2> QED
    BY <2>1, <2>2, <2>3 DEF Ours
<1> QED
  BY <1>1, Invariant, PTL

(* A reply makes a client give up its sandbox only when that is gone.      *)
LEMMA AnswerKeeps ==
  ASSUME Inv, NEW h \in wire, NEW st, NEW id, Answer(h, st, id),
         h.op = "create" /\ st = "ok" => id # None,
         h.lost = 0 /\ h.op = "get" /\ st = "error" => h.arg \notin Up',
         h.lost = 0 /\ h.op = "delete" => h.arg \notin Up',
         NEW c \in Clients, own[c] \in Up'
  PROVE  own'[c] = own[c]
<1> SUFFICES ASSUME own'[c] # own[c] PROVE FALSE
  OBVIOUS
<1>1. ClientsOK /\ Live(h) /\ h.by \in Clients
  BY DEF Inv, HandlersOf, Shape, Handler
<1>2. h.lost = 0
  BY DEF Answer, client
<1>3. /\ at[h.by] \in Busy /\ h.op = Asked(at[h.by])
      /\ h.op \in {"get", "delete"} => h.arg = own[h.by]
  BY <1>1, <1>2 DEF Live
<1>4. PICK pc, k : Moves(h.by, pc, k, wire \ {h}) /\ Knows(h.by, k, st, id)
  BY <1>1, <1>2, <1>3, GoesOnMoves DEF Answer, Asked
<1>5. h.by = c /\ k # own[c]
  BY <1>1, <1>4 DEF Moves, ClientsOK
<1>6. own[c] # None /\ OwnFits(at[c], own[c])
  BY <1>1, Names0 DEF Up, ClientsOK
<1> QED
  BY <1>1, <1>2, <1>3, <1>4, <1>5, <1>6 DEF Knows, OwnFits, Asked

LEMMA HandleKeeps ==
  ASSUME Inv, NEW h \in wire, Handle(h), NEW c \in Clients, own[c] \in Up'
  PROVE  own'[c] = own[c]
<1>1. ClientsOK /\ EngineOK
  BY DEF Inv
<1>2. CASE NotFound(h)
  <2>1. Answer(h, "error", None) /\ Up' = Up /\ h.stage = "find"
    BY <1>2 DEF NotFound, engine, Up
  <2>2. h.op \in {"get", "delete"} => h.arg \in Ids
    BY DEF Inv, HandlersOf, Shape, Ours
  <2>3. h.op \in {"get", "delete"} => h.arg \notin Up
    BY <1>1, <1>2, <2>2, MatchesOnly DEF NotFound
  <2> QED
    BY <2>1, <2>3, AnswerKeeps
<1>3. CASE Get(h)
  BY <1>3, AnswerKeeps DEF Get
<1>4. CASE Run(h)
  BY <1>4, AnswerKeeps DEF Run
<1>5. CASE Delete(h)
  <2>1. PICK id \in Matches(h.arg) :
          listed' = [listed EXCEPT ![id] = None] /\ Answer(h, "ok", id)
    BY <1>5 DEF Delete
  <2>2. id = h.arg /\ h.op = "delete" /\ id \in Ids
    BY <1>5, FoundOwn DEF Delete, Ours
  <2>3. id \notin Up'
    BY <1>1, <2>1, <2>2 DEF EngineOK, Up
  <2> QED
    BY <2>1, <2>2, <2>3, AnswerKeeps
<1>6. CASE ResetPop(h)
  BY <1>6 DEF ResetPop, Step, client
<1>7. CASE CheckName(h)
  <2>1. Boot(h) => UNCHANGED own
    BY DEF Boot, Step, client
  <2>2. h.op \in {"create", "reset"}
    BY <1>7 DEF CheckName, Creating, Inv, HandlersOf, Shape
  <2>3. CASE Answer(h, "error", None)
    BY <2>2, <2>3, AnswerKeeps
  <2> QED
    BY <1>7, <2>1, <2>3 DEF CheckName, Conflict
<1>8. CASE Insert(h)
  <2>1. h.op \in {"create", "reset"} /\ h.id \in Ids
    BY <1>8 DEF Insert, Inv, HandlersOf, Booting
  <2>2. Answer(h, "ok", h.id) /\ h.id # None
    BY <1>8, <2>1, Names0 DEF Insert
  <2> QED
    BY <2>1, <2>2, AnswerKeeps
<1> QED
  BY <1>2, <1>3, <1>4, <1>5, <1>6, <1>7, <1>8 DEF Handle

LEMMA NextKeeps ==
  ASSUME Inv, [Next]_vars, faults' = faults, NEW c \in Clients, own[c] \in Up'
  PROVE  own'[c] = own[c]
<1>1. ClientsOK /\ EngineOK /\ faults' # faults + 1
  BY DEF Inv
<1>2. ASSUME NEW b \in Agents, AgentCalls(b) PROVE own'[c] = own[c]
  <2>1. b \in Clients
    BY Names0
  <2> QED
    BY <1>1, <1>2, <2>1, AgentCallsMoves DEF Moves, ClientsOK
<1>3. ASSUME NEW b \in Scripts, RunCode(b) PROVE own'[c] = own[c]
  BY <1>3 DEF RunCode
<1>4. ASSUME NEW h \in wire, Broken(h) PROVE own'[c] = own[c]
  <2>1. Answer(h, "error", None) /\ Up' = Up
    BY <1>4 DEF Broken, engine, Up
  <2>2. h.lost = 0 /\ h.op \in {"get", "delete"} => h.arg \notin Up
    BY <1>4 DEF Inv, HandlersOf, Live, Broken
  <2> QED
    BY <2>1, <2>2, AnswerKeeps
<1>5. CASE \/ \E h \in wire : Lose(h)
           \/ \E b \in Clients : Kill(b)
           \/ EngineEnds
  BY <1>1, <1>5 DEF Lose, Kill, EngineEnds, Fault
<1>6. CASE UNCHANGED vars \/ \E id \in Ids : UserDestroys(id)
  BY <1>6 DEF vars, client, UserDestroys
<1> QED
  BY <1>2, <1>3, <1>4, <1>5, <1>6, HandleKeeps DEF Next

(* A client lets go of a sandbox that is still there only when an answer   *)
(* or its process is lost at that very step (engine_client.py:95-113,      *)
(* runtime.py:173).                                                        *)
THEOREM ClientsKeepTheirs == Spec => KeepsSandbox
<1> DEFINE Keeping == \A c \in Clients : own[c] \in Up' /\ own'[c] # own[c] => faults' # faults
<1>1. Inv /\ [Next]_vars => Keeping
  BY NextKeeps
<1>2. Inv /\ [Next]_vars => [Keeping]_vars
  BY <1>1
<1> QED
  BY <1>2, Invariant, PTL DEF Spec, KeepsSandbox

-----------------------------------------------------------------------------
(* What is left behind                                                     *)

(* The sandboxes no client knows any more, and the requests that will make *)
(* one although nobody waits for it: one each for a fault.                 *)
Unowned == {id \in Left : \A c \in Clients : own[c] # id}
Astray == {h \in wire : h.op = "create" /\ h.lost # 0}
LeakInv == IsFiniteSet(Astray) /\ Cardinality(Unowned) + Cardinality(Astray) <= faults

LEMMA UnownedFinite == IsFiniteSet(Unowned) /\ IsFiniteSet(Unowned')
BY ClientsAssumption, FS_Subset DEF Unowned, Left, Up

(* What one more or one less counts.                                       *)
LEMMA OneMore ==
  ASSUME NEW S, IsFiniteSet(S), NEW T, NEW x, T \subseteq S \cup {x}
  PROVE  IsFiniteSet(T) /\ Cardinality(T) \in Nat /\ Cardinality(S) \in Nat
         /\ Cardinality(T) <= Cardinality(S) + 1
<1>1. IsFiniteSet(S \cup {x}) /\ Cardinality(S \cup {x}) <= Cardinality(S) + 1
      /\ Cardinality(S) \in Nat /\ Cardinality(S \cup {x}) \in Nat
  BY FS_AddElement, FS_CardinalityType
<1>2. IsFiniteSet(T) /\ Cardinality(T) <= Cardinality(S \cup {x}) /\ Cardinality(T) \in Nat
  BY <1>1, FS_Subset, FS_CardinalityType
<1> QED
  BY <1>1, <1>2

LEMMA NoMore ==
  ASSUME NEW S, IsFiniteSet(S), NEW T, T \subseteq S
  PROVE  IsFiniteSet(T) /\ Cardinality(T) \in Nat /\ Cardinality(S) \in Nat
         /\ Cardinality(T) <= Cardinality(S)
BY FS_Subset, FS_CardinalityType

LEMMA OneLess ==
  ASSUME NEW S, IsFiniteSet(S), NEW T, NEW x \in S, T \subseteq S \ {x}
  PROVE  IsFiniteSet(T) /\ Cardinality(T) \in Nat /\ Cardinality(S) \in Nat
         /\ Cardinality(T) + 1 <= Cardinality(S)
<1>1. IsFiniteSet(S \ {x}) /\ Cardinality(S \ {x}) = Cardinality(S) - 1
      /\ Cardinality(S) \in Nat /\ Cardinality(S \ {x}) \in Nat
  BY FS_RemoveElement, FS_CardinalityType
<1> QED
  BY <1>1, NoMore

(* A sandbox is known from its entry in the table on, and what it was made *)
(* by does not change.                                                     *)
LEMMA NextUp ==
  ASSUME Inv, [Next]_vars
  PROVE  /\ \A id \in Up : origin'[id] = origin[id]
         /\ \/ Up' \subseteq Up
            \/ \E h \in wire : Insert(h) /\ Up' \subseteq Up \cup {h.id} /\ origin' = origin
<1>1. EngineOK /\ \A id \in Up : id \in Ids /\ origin[id] # Unused
  BY DEF Inv, EngineOK, Up
<1>2. CASE UNCHANGED <<listed, origin>>
  BY <1>2 DEF Up
<1>3. ASSUME NEW id \in Ids, listed' = [listed EXCEPT ![id] = None], origin' = origin
      PROVE  Up' \subseteq Up
  BY <1>1, <1>3 DEF Up, EngineOK
<1>4. ASSUME NEW h \in wire, Delete(h) \/ ResetPop(h) PROVE Up' \subseteq Up /\ origin' = origin
  <2>1. Matches(h.arg) \subseteq Ids
    BY DEF Matches, Namesakes, Up
  <2> QED
    BY <1>3, <1>4, <2>1 DEF Delete, ResetPop
<1>5. ASSUME NEW h \in wire, CheckName(h) PROVE listed' = listed /\ \A id \in Up : origin'[id] = origin[id]
  <2>1. CASE Conflict(h)
    BY <1>5, <2>1 DEF CheckName, Conflict
  <2>2. CASE Boot(h)
    BY <1>1, <1>5, <2>2 DEF CheckName, Boot, Fresh, EngineOK
  <2> QED
    BY <1>5, <2>1, <2>2 DEF CheckName
<1>6. ASSUME NEW h \in wire, Insert(h) PROVE Up' \subseteq Up \cup {h.id} /\ origin' = origin
  BY <1>1, <1>6 DEF Insert, Up, EngineOK
<1>7. ASSUME NEW h \in wire, Handle(h), ~Delete(h), ~ResetPop(h), ~CheckName(h), ~Insert(h)
      PROVE  UNCHANGED <<listed, origin>>
  BY <1>7 DEF Handle, NotFound, Get, Run, engine
<1>8. CASE EngineEnds
  BY <1>8 DEF EngineEnds, Up
<1>9. ASSUME NEW id \in Ids, UserDestroys(id) PROVE Up' \subseteq Up /\ origin' = origin
  BY <1>3, <1>9 DEF UserDestroys
<1>10. CASE \/ \E c \in Agents : AgentCalls(c)
            \/ \E c \in Scripts : RunCode(c)
            \/ \E h \in wire : Lose(h) \/ Broken(h)
            \/ \E c \in Clients : Kill(c)
            \/ UNCHANGED vars
  <2>1. UNCHANGED engine
    BY <1>10 DEF AgentCalls, RunCode, Lose, Broken, Kill, vars
  <2> QED
    BY <1>2, <2>1 DEF engine
<1>11. ASSUME NEW h \in wire, Handle(h)
       PROVE  /\ \A id \in Up : origin'[id] = origin[id]
              /\ \/ Up' \subseteq Up
                 \/ Insert(h) /\ Up' \subseteq Up \cup {h.id} /\ origin' = origin
  <2>1. CASE UNCHANGED <<listed, origin>>
    BY <2>1 DEF Up
  <2>2. CASE CheckName(h)
    BY <1>5, <2>2 DEF Up
  <2> QED
    BY <1>4, <1>6, <1>7, <1>11, <2>1, <2>2
<1> QED
  BY <1>2, <1>8, <1>9, <1>10, <1>11 DEF Next

Stray(S) == {h \in S : h.op = "create" /\ h.lost # 0}

(* A client that goes on adds a request it waits for.                      *)
LEMMA MovesAstray ==
  ASSUME NEW c, NEW pc, NEW k, NEW rest, Moves(c, pc, k, rest)
  PROVE  Astray' \subseteq Stray(rest)
BY DEF Moves, Request, Astray, Stray

LEMMA AnswerAstray ==
  ASSUME Inv, NEW h \in wire, NEW st, NEW id, Answer(h, st, id),
         h.op = "create" /\ st = "ok" => id # None
  PROVE  Astray' \subseteq Astray \ {h}
<1>1. CASE h.lost = 0
  <2>1. ClientsOK /\ Live(h) /\ h.by \in Clients
    BY DEF Inv, HandlersOf, Shape, Handler
  <2>2. at[h.by] \in Busy /\ h.op = Asked(at[h.by])
    BY <1>1, <2>1 DEF Live
  <2>3. PICK pc, k : Moves(h.by, pc, k, wire \ {h})
    BY <1>1, <2>1, <2>2, GoesOnMoves DEF Answer, Asked
  <2> QED
    BY <2>3, MovesAstray DEF Stray, Astray
<1>2. CASE h.lost # 0
  BY <1>2 DEF Answer, Astray
<1> QED
  BY <1>1, <1>2

LEMMA HandleAstray ==
  ASSUME Inv, NEW h \in wire, Handle(h)
  PROVE  /\ \/ Astray' \subseteq Astray
            \/ h \in Astray /\ \E g : Astray' \subseteq (Astray \ {h}) \cup {g}
         /\ Insert(h) => Astray' \subseteq Astray \ {h}
<1>1. Shape(h) /\ h \in Handler
  BY DEF Inv, HandlersOf, Shape
<1>2. CASE Insert(h)
  <2>1. Answer(h, "ok", h.id) /\ h.id # None
    BY <1>2, Names0 DEF Insert, Inv, HandlersOf, Booting
  <2> QED
    BY <2>1, AnswerAstray
<1>3. CASE ResetPop(h)
  <2>1. PICK id : Step(h, [h EXCEPT !.stage = "create", !.arg = listed[id]])
    BY <1>3 DEF ResetPop
  <2>2. [h EXCEPT !.stage = "create", !.arg = listed[id]].op = "reset"
    BY <1>1, <1>3 DEF ResetPop, Handler
  <2>3. PICK g : wire' = (wire \ {h}) \cup {g} /\ g.op = "reset"
    BY <2>1, <2>2 DEF Step
  <2> QED
    BY <1>3, <2>3 DEF Astray, ResetPop, Insert
<1>4. CASE CheckName(h) /\ Boot(h)
  <2>0. PICK id : Step(h, [h EXCEPT !.stage = "boot", !.id = id])
    BY <1>4 DEF Boot
  <2>1. PICK g : wire' = (wire \ {h}) \cup {g} /\ g.op = h.op /\ g.lost = h.lost
    <3>1. /\ [h EXCEPT !.stage = "boot", !.id = id].op = h.op
          /\ [h EXCEPT !.stage = "boot", !.id = id].lost = h.lost
      BY <1>1 DEF Handler
    <3> QED
      BY <2>0, <3>1 DEF Step
  <2>2. ~Insert(h)
    BY <1>4 DEF CheckName, Creating, Insert
  <2> QED
    BY <2>1, <2>2 DEF Astray
<1>5. CASE \E st, id : Answer(h, st, id) /\ (h.op = "create" => st # "ok") /\ ~Insert(h)
  BY <1>5, AnswerAstray
<1>6. ASSUME NotFound(h) \/ Get(h) \/ Run(h) \/ Delete(h) \/ (CheckName(h) /\ Conflict(h)), ~Insert(h)
      PROVE  \E st, id : Answer(h, st, id) /\ (h.op = "create" => st # "ok")
  BY <1>6 DEF NotFound, Get, Run, Delete, Conflict
<1> QED
  BY <1>2, <1>3, <1>4, <1>5, <1>6 DEF Handle, CheckName

LEMMA NextAstray ==
  ASSUME Inv, [Next]_vars, faults' = faults
  PROVE  \/ Astray' \subseteq Astray
         \/ \E g : \E h \in Astray : Astray' \subseteq (Astray \ {h}) \cup {g}
<1>1. ClientsOK /\ faults' # faults + 1
  BY DEF Inv
<1>2. ASSUME NEW c \in Agents, AgentCalls(c) PROVE Astray' \subseteq Astray
  BY <1>1, <1>2, AgentCallsMoves, MovesAstray, Names0 DEF Stray, Astray
<1>3. ASSUME NEW c \in Scripts, RunCode(c) PROVE Astray' \subseteq Astray
  BY <1>1, <1>3, RunCodeMoves, MovesAstray DEF Stray, Astray
<1>4. ASSUME NEW h \in wire, Broken(h) PROVE Astray' \subseteq Astray
  BY <1>4, AnswerAstray DEF Broken
<1>5. CASE \/ \E h \in wire : Lose(h)
           \/ \E c \in Clients : Kill(c)
           \/ EngineEnds
  BY <1>1, <1>5 DEF Lose, Kill, EngineEnds, Fault
<1>6. CASE UNCHANGED vars \/ \E id \in Ids : UserDestroys(id)
  BY <1>6 DEF vars, UserDestroys, Astray
<1> QED
  BY <1>2, <1>3, <1>4, <1>5, <1>6, HandleAstray DEF Next

(* An answer that is heard gives the new sandbox to its client.            *)
LEMMA InsertOwned ==
  ASSUME Inv, NEW h \in wire, Insert(h), h.op = "create", h.lost = 0
  PROVE  \E c \in Clients : own'[c] = h.id
<1>1. ClientsOK /\ Live(h) /\ h.by \in Clients
  BY DEF Inv, HandlersOf, Shape, Handler
<1>2. at[h.by] = "create"
  BY <1>1 DEF Live, Asked
<1>3. GoesOn(h.by, "ok", h.id, wire \ {h})
  BY DEF Insert, Answer
<1>4. Keep(h.by, h.id)
  BY <1>2, <1>3 DEF GoesOn, AgentGoesOn, Verified, Found, Created, Used, WasReset, Dropped, Exited,
     ScriptCreated, Wrote, Executed, Destroyed, Ensured
<1>5. own'[h.by] = h.id
  BY <1>1, <1>4 DEF Keep, ClientsOK
<1> QED
  BY <1>1, <1>5

(* A sandbox of which its client lets go while it is there is lost at that *)
(* very step.                                                              *)
LEMMA UnownedBefore ==
  ASSUME Inv, [Next]_vars, NEW id \in Unowned', id \in Up, id \notin Unowned
  PROVE  \E c \in Clients : own[c] = id /\ own'[c] # id /\ id \in Up'
BY NextUp DEF Unowned, Left

(* Without a fault, what a request that nobody waits for makes takes the   *)
(* place of that request.                                                  *)
LEMMA QuietLeaks ==
  ASSUME Inv, [Next]_vars, faults' = faults
  PROVE  \/ Unowned' \subseteq Unowned /\ Astray' \subseteq Astray
         \/ \E g : \E h \in Astray : /\ Unowned' \subseteq Unowned
                                     /\ Astray' \subseteq (Astray \ {h}) \cup {g}
         \/ \E id : \E h \in Astray : /\ Unowned' \subseteq Unowned \cup {id}
                                      /\ Astray' \subseteq Astray \ {h}
<1>1. \A id \in Unowned' : id \in Up => id \in Unowned
  BY UnownedBefore, NextKeeps
<1>2. CASE Up' \subseteq Up
  BY <1>1, <1>2, NextAstray DEF Unowned, Left
<1>3. ASSUME NEW h \in wire, Insert(h), Up' \subseteq Up \cup {h.id}, origin' = origin
      PROVE  \/ Unowned' \subseteq Unowned /\ Astray' \subseteq Astray
             \/ \E id : /\ h \in Astray /\ Unowned' \subseteq Unowned \cup {id}
                        /\ Astray' \subseteq Astray \ {h}
  <2>1. Astray' \subseteq Astray \ {h}
    <3>1. Answer(h, "ok", h.id) /\ h.id # None
      BY <1>3, Names0 DEF Insert, Inv, HandlersOf, Booting
    <3> QED
      BY <3>1, AnswerAstray
  <2>2. Unowned' \subseteq Unowned \cup {h.id}
    BY <1>1, <1>3 DEF Unowned, Left
  <2>3. origin[h.id].op = h.op /\ h.op \in {"create", "reset"}
    <3>1. Booting(h) /\ h.stage = "boot"
      BY <1>3 DEF Insert, Inv, HandlersOf
    <3>2. /\ h.op \in {"create", "reset"}
          /\ origin[h.id] = [by |-> h.by, op |-> h.op,
                             name |-> IF h.arg = None THEN h.id ELSE h.arg]
      BY <3>1 DEF Booting
    <3> QED
      BY <3>2
  <2>4. CASE h.op = "reset"
    BY <1>3, <2>1, <2>2, <2>3, <2>4 DEF Unowned, Left
  <2>5. CASE h.op = "create" /\ h.lost = 0
    BY <1>3, <2>1, <2>2, <2>5, InsertOwned DEF Unowned
  <2>6. CASE h.op = "create" /\ h.lost # 0
    BY <2>1, <2>2, <2>6 DEF Astray
  <2> QED
    BY <2>3, <2>4, <2>5, <2>6
<1> QED
  BY <1>2, <1>3, NextUp

(* A client that loses its answer or its life loses a sandbox or a request *)
(* for one, not both.                                                      *)
LEMMA MovesLeaks ==
  ASSUME Inv, [Next]_vars, UNCHANGED engine, NEW c \in Clients, NEW pc, NEW k, NEW rest,
         Moves(c, pc, k, rest), NEW h \in wire, h.by = c, h.lost = 0,
         rest \subseteq wire \cup {Unheard(h)}
  PROVE  \E x : \/ Unowned' \subseteq Unowned \cup {x} /\ Astray' \subseteq Astray
                \/ Unowned' \subseteq Unowned /\ Astray' \subseteq Astray \cup {x}
<1>1. ClientsOK /\ Live(h) /\ h \in Handler /\ Up' = Up
  BY DEF Inv, HandlersOf, Shape, engine, Up
<1>2. \A b \in Clients \ {c} : own'[b] = own[b]
  BY <1>1 DEF Moves, ClientsOK
<1>3. Unowned' \subseteq Unowned \cup ({own[c]} \cap Ids)
  BY <1>1, <1>2, UnownedBefore DEF Unowned, Left, Up
<1>4. Astray' \subseteq Stray(rest)
  BY MovesAstray
<1>5. Unheard(h).op = h.op
  BY <1>1 DEF Unheard, Handler
<1>6. CASE h.op = "create"
  <2>1. own[c] = None
    BY <1>1, <1>6 DEF Live, Asked, ClientsOK, OwnFits
  <2> QED
    BY <1>3, <1>4, <2>1, Names0 DEF Stray, Astray
<1>7. CASE h.op # "create"
  BY <1>3, <1>4, <1>5, <1>7 DEF Stray, Astray
<1> QED
  BY <1>6, <1>7

LEMMA LoseLeaks ==
  ASSUME Inv, [Next]_vars, NEW h \in wire, Lose(h)
  PROVE  \E x : \/ Unowned' \subseteq Unowned \cup {x} /\ Astray' \subseteq Astray
                \/ Unowned' \subseteq Unowned /\ Astray' \subseteq Astray \cup {x}
<1>1. /\ h.lost = 0 /\ h.by \in Clients /\ ClientsOK /\ UNCHANGED engine
  BY DEF Lose, Inv, HandlersOf, Shape, Handler
<1>2. PICK st, rest :
        /\ st \in {"error", "late"}
        /\ GoesOn(h.by, st, None, rest)
        /\ rest = (wire \ {h}) \cup {Unheard(h)} \/ rest = wire \ {h}
  BY DEF Lose
<1>3. PICK pc, k : Moves(h.by, pc, k, rest)
  BY <1>1, <1>2, GoesOnMoves
<1> QED
  BY <1>1, <1>2, <1>3, MovesLeaks

LEMMA KillLeaks ==
  ASSUME Inv, [Next]_vars, NEW c \in Clients, Kill(c)
  PROVE  \E x : \/ Unowned' \subseteq Unowned \cup {x} /\ Astray' \subseteq Astray
                \/ Unowned' \subseteq Unowned /\ Astray' \subseteq Astray \cup {x}
<1> DEFINE mine == {h \in wire : h.by = c /\ h.lost = 0}
           pc == IF c \in Agents THEN "off" ELSE "done"
<1>1. ClientsOK /\ HandlersOf(wire) /\ UNCHANGED engine /\ Up' = Up
  BY DEF Kill, Inv, engine, Up
<1>2. Moves(c, pc, None, wire')
  <2>1. /\ at' = [at EXCEPT ![c] = pc] /\ own' = [own EXCEPT ![c] = None]
        /\ goal' = [goal EXCEPT ![c] = "none"]
    BY DEF Kill, Keep
  <2>2. pc \in Pcs /\ pc \notin Busy /\ PcFits(c, pc) /\ OwnFits(pc, None)
    BY Names0 DEF Pcs, Busy, PcFits, OwnFits, About
  <2> QED
    BY <1>1, <2>1, <2>2 DEF Moves, ClientsOK
<1>3. wire' \subseteq wire \cup {Unheard(h) : h \in mine}
  BY DEF Kill
<1>4. CASE mine = {}
  <2>1. Astray' \subseteq Astray
    BY <1>3, <1>4 DEF Astray
  <2>2. \A b \in Clients \ {c} : own'[b] = own[b]
    BY <1>1 DEF Kill, Keep, ClientsOK
  <2>3. Unowned' \subseteq Unowned \cup {own[c]}
    BY <1>1, <2>2, UnownedBefore DEF Unowned, Left, Up
  <2> QED
    BY <2>1, <2>3
<1>5. ASSUME NEW h \in mine
      PROVE  \E x : \/ Unowned' \subseteq Unowned \cup {x} /\ Astray' \subseteq Astray
                    \/ Unowned' \subseteq Unowned /\ Astray' \subseteq Astray \cup {x}
  <2>1. \A g \in mine : g = h
    BY <1>1 DEF HandlersOf
  <2>2. wire' \subseteq wire \cup {Unheard(h)}
    BY <1>3, <2>1
  <2> QED
    BY <1>1, <1>2, <2>2, MovesLeaks
<1> QED
  BY <1>4, <1>5

LEMMA NextLeakInv == ASSUME Inv, LeakInv, [Next]_vars PROVE LeakInv'
<1>1. faults \in Nat
  BY ClientsAssumption DEF Inv
<1>2. IsFiniteSet(Unowned) /\ IsFiniteSet(Astray)
  BY UnownedFinite DEF LeakInv
<1>3. CASE faults' = faults
  <2>1. CASE Unowned' \subseteq Unowned /\ Astray' \subseteq Astray
    BY <1>1, <1>2, <1>3, <2>1, NoMore DEF LeakInv
  <2>2. ASSUME NEW h \in Astray, NEW g, Unowned' \subseteq Unowned,
               Astray' \subseteq (Astray \ {h}) \cup {g}
        PROVE  LeakInv'
    <3>1. /\ IsFiniteSet(Astray \ {h}) /\ Cardinality(Astray \ {h}) + 1 <= Cardinality(Astray)
          /\ Cardinality(Astray) \in Nat /\ Cardinality(Astray \ {h}) \in Nat
      BY <1>2, OneLess
    <3>2. /\ IsFiniteSet(Astray') /\ Cardinality(Astray') <= Cardinality(Astray \ {h}) + 1
          /\ Cardinality(Astray') \in Nat
      BY <2>2, <3>1, OneMore
    <3>3. Cardinality(Unowned') <= Cardinality(Unowned) /\ Cardinality(Unowned') \in Nat
          /\ Cardinality(Unowned) \in Nat
      BY <1>2, <2>2, NoMore
    <3> QED
      BY <1>1, <1>3, <3>1, <3>2, <3>3 DEF LeakInv
  <2>3. ASSUME NEW h \in Astray, NEW id, Unowned' \subseteq Unowned \cup {id},
               Astray' \subseteq Astray \ {h}
        PROVE  LeakInv'
    <3>1. /\ IsFiniteSet(Astray') /\ Cardinality(Astray') + 1 <= Cardinality(Astray)
          /\ Cardinality(Astray) \in Nat /\ Cardinality(Astray') \in Nat
      BY <1>2, <2>3, OneLess
    <3>2. /\ Cardinality(Unowned') <= Cardinality(Unowned) + 1 /\ Cardinality(Unowned') \in Nat
          /\ Cardinality(Unowned) \in Nat
      BY <1>2, <2>3, OneMore
    <3> QED
      BY <1>1, <1>3, <3>1, <3>2 DEF LeakInv
  <2> QED
    BY <1>3, <2>1, <2>2, <2>3, QuietLeaks
<1>4. CASE faults' # faults
  <2>1. \/ \E h \in wire : Lose(h)
        \/ \E c \in Clients : Kill(c)
        \/ EngineEnds
    BY <1>4 DEF Next, AgentCalls, RunCode, Handle, Broken, UserDestroys, vars
  <2>2. faults' = faults + 1
    BY <2>1 DEF Lose, Kill, EngineEnds, Fault
  <2>3. CASE EngineEnds
    <3>1. Unowned' = {}
      BY <2>3 DEF EngineEnds, Unowned, Left, Up
    <3>2. Astray' = {}
      <4>1. \A h \in wire : h \in Handler
        BY DEF Inv, HandlersOf, Shape
      <4>2. \A g \in wire' : g.lost = 0
        BY <2>3, <4>1 DEF EngineEnds, Handler
      <4> QED
        BY <4>2 DEF Astray
    <3> QED
      BY <1>1, <2>2, <3>1, <3>2, FS_EmptySet DEF LeakInv
  <2>4. CASE (\E h \in wire : Lose(h)) \/ (\E c \in Clients : Kill(c))
    <3>1. PICK x : \/ Unowned' \subseteq Unowned \cup {x} /\ Astray' \subseteq Astray
                   \/ Unowned' \subseteq Unowned /\ Astray' \subseteq Astray \cup {x}
      BY <2>4, LoseLeaks, KillLeaks
    <3>2. CASE Unowned' \subseteq Unowned \cup {x} /\ Astray' \subseteq Astray
      <4>1. /\ Cardinality(Unowned') <= Cardinality(Unowned) + 1 /\ Cardinality(Unowned') \in Nat
            /\ Cardinality(Unowned) \in Nat
        BY <1>2, <3>2, OneMore
      <4>2. /\ IsFiniteSet(Astray') /\ Cardinality(Astray') <= Cardinality(Astray)
            /\ Cardinality(Astray) \in Nat /\ Cardinality(Astray') \in Nat
        BY <1>2, <3>2, NoMore
      <4> QED
        BY <1>1, <2>2, <4>1, <4>2 DEF LeakInv
    <3>3. CASE Unowned' \subseteq Unowned /\ Astray' \subseteq Astray \cup {x}
      <4>1. /\ Cardinality(Unowned') <= Cardinality(Unowned) /\ Cardinality(Unowned') \in Nat
            /\ Cardinality(Unowned) \in Nat
        BY <1>2, <3>3, NoMore
      <4>2. /\ IsFiniteSet(Astray') /\ Cardinality(Astray') <= Cardinality(Astray) + 1
            /\ Cardinality(Astray) \in Nat /\ Cardinality(Astray') \in Nat
        BY <1>2, <3>3, OneMore
      <4> QED
        BY <1>1, <2>2, <4>1, <4>2 DEF LeakInv
    <3> QED
      BY <3>1, <3>2, <3>3
  <2> QED
    BY <2>1, <2>3, <2>4
<1> QED
  BY <1>3, <1>4

(* When every client has ended, at most one sandbox of theirs is left for  *)
(* each answer, connection or process that was lost, for any number of     *)
(* clients, sandboxes and faults (runtime.py:173, __main__.py:203).        *)
THEOREM LeftBehind == Spec => []LeaksBounded
<1>1. Init => LeakInv
  <2> SUFFICES ASSUME Init PROVE LeakInv
    OBVIOUS
  <2>1. Unowned = {} /\ Astray = {} /\ faults = 0
    BY DEF Init, Unowned, Left, Up, Astray
  <2> QED
    BY <2>1, FS_EmptySet DEF LeakInv
<1>2. Inv /\ LeakInv => LeaksBounded
  <2> SUFFICES ASSUME Inv, LeakInv, Quiet PROVE Cardinality(Left) <= faults
    BY DEF LeaksBounded
  <2>1. Left \subseteq Unowned
    BY Names0 DEF Quiet, Inv, ClientsOK, OwnFits, Unowned, Left, Up
  <2>2. Cardinality(Left) <= Cardinality(Unowned) /\ Cardinality(Left) \in Nat
        /\ Cardinality(Unowned) \in Nat /\ Cardinality(Astray) \in Nat /\ faults \in Nat
    BY <2>1, UnownedFinite, NoMore, FS_CardinalityType, ClientsAssumption DEF LeakInv, Inv
  <2> QED
    BY <2>2 DEF LeakInv
<1>3. Inv /\ LeakInv /\ [Next]_vars => LeakInv'
  BY NextLeakInv
<1> QED
  BY <1>1, <1>2, <1>3, Invariant, PTL DEF Spec

=============================================================================
