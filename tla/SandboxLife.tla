----------------------------- MODULE SandboxLife -----------------------------
(***************************************************************************)
(* What the engine promises about sandbox ids, whatever runs concurrently: *)
(* an id is handed out once, its sandbox appears at most once, and once    *)
(* gone it never comes back.                                               *)
(***************************************************************************)
CONSTANT Ids
VARIABLE life

Stages == {"new", "starting", "up", "gone"}

LifeInit == life = [id \in Ids |-> "new"]

Passes(from, to) ==
  \E id \in Ids : life[id] = from /\ life' = [life EXCEPT ![id] = to]

Request   == Passes("new", "starting")
Appear    == Passes("starting", "up")
GiveUp    == Passes("starting", "gone")
Disappear == Passes("up", "gone")

LifeNext == Request \/ Appear \/ GiveUp \/ Disappear

LifeSpec == LifeInit /\ [][LifeNext]_life
=============================================================================
