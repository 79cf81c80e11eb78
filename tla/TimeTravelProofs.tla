-------------------------- MODULE TimeTravelProofs --------------------------
(***************************************************************************)
(* Theorems about TimeTravel for any number of sandboxes, commands, names, *)
(* starts and steps.                                                       *)
(*                                                                         *)
(* A list trimmed to a step is the list of those of its checkpoints that   *)
(* the comprehension of the code picks; Picked says so by the rank of an   *)
(* index among the picked ones, and what is proved of it first (it keeps   *)
(* the order, picks each index once, grows by one at its end) is what every*)
(* later proof uses.  On it rest                                           *)
(*   TypeInv    the type invariant, part by part;                          *)
(*   Ordered    the steps of a list ascend and the counter is at its last; *)
(*   GoodInv    the names of snapshots are not used twice, so the snapshot *)
(*              a checkpoint refers to is the one that was taken for it;   *)
(*   ReplayInv  what the namespace of a recording sandbox holds is what the*)
(*              commands of its list make of a fresh one.                  *)
(***************************************************************************)
EXTENDS TimeTravel, FiniteSetTheorems, TLAPS

(* ------------------------- Picking from a list ------------------------- *)

LEMMA IndicesFinite ==
  ASSUME NEW n \in Nat, NEW I \in SUBSET (1 .. n)
  PROVE  IsFiniteSet(I) /\ Cardinality(I) \in Nat
<1>1. IsFiniteSet(1 .. n)
  BY FS_Interval
<1>2. IsFiniteSet(I)
  BY <1>1, FS_Subset
<1> QED
  BY <1>2, FS_CardinalityType

LEMMA RankType ==
  ASSUME NEW n \in Nat, NEW I \in SUBSET (1 .. n), NEW i \in I
  PROVE  Rank(I, i) \in 1 .. Cardinality(I)
<1> DEFINE L == {m \in I : m <= i}
<1>0. i \in Int /\ i <= i
  OBVIOUS
<1>1. L \in SUBSET I /\ L \in SUBSET (1 .. n) /\ i \in L
  BY <1>0
<1> HIDE DEF L
<1>2. IsFiniteSet(I) /\ IsFiniteSet(L) /\ Cardinality(I) \in Nat /\ Cardinality(L) \in Nat
  BY <1>1, IndicesFinite
<1>3. Cardinality(L) <= Cardinality(I)
  BY <1>1, <1>2, FS_Subset
<1>4. Cardinality(L) # 0
  BY <1>1, <1>2, FS_EmptySet
<1>5. Cardinality(L) \in 1 .. Cardinality(I)
  BY <1>2, <1>3, <1>4
<1> QED
  BY <1>5 DEF Rank, L

(* A later index has a higher rank.                                        *)
LEMMA RankIncreases ==
  ASSUME NEW n \in Nat, NEW I \in SUBSET (1 .. n), NEW i \in I, NEW j \in I, i < j
  PROVE  Rank(I, i) < Rank(I, j)
<1> DEFINE Li == {m \in I : m <= i}
           Lj == {m \in I : m <= j}
<1>0. j <= j /\ ~(j <= i) /\ \A m \in I : m <= i => m <= j
  OBVIOUS
<1>1. Li \in SUBSET Lj /\ Lj \in SUBSET (1 .. n) /\ Li \in SUBSET (1 .. n)
      /\ j \in Lj /\ j \notin Li
  BY <1>0
<1> HIDE DEF Li, Lj
<1>2. IsFiniteSet(Lj) /\ Cardinality(Li) \in Nat /\ Cardinality(Lj) \in Nat
  BY <1>1, IndicesFinite
<1>3. Cardinality(Li) <= Cardinality(Lj) /\ Cardinality(Lj) # Cardinality(Li)
  BY <1>1, <1>2, FS_Subset
<1>4. Cardinality(Li) < Cardinality(Lj)
  BY <1>2, <1>3
<1> QED
  BY <1>4 DEF Rank, Li, Lj

LEMMA RankUnique ==
  ASSUME NEW n \in Nat, NEW I \in SUBSET (1 .. n), NEW i \in I, NEW j \in I,
         Rank(I, i) = Rank(I, j)
  PROVE  i = j
<1>1. Rank(I, i) \in 1 .. Cardinality(I) /\ Rank(I, j) \in 1 .. Cardinality(I)
  BY RankType
<1>2. Cardinality(I) \in Nat
  BY IndicesFinite
<1>3. i < j => Rank(I, i) < Rank(I, j)
  BY RankIncreases
<1>4. j < i => Rank(I, j) < Rank(I, i)
  BY RankIncreases
<1> QED
  BY <1>1, <1>2, <1>3, <1>4

(* Every place of the list that is picked is the rank of one index.        *)
LEMMA RankOnto ==
  ASSUME NEW n \in Nat, NEW I \in SUBSET (1 .. n), NEW j \in 1 .. Cardinality(I)
  PROVE  \E i \in I : Rank(I, i) = j
<1> DEFINE T == 1 .. Cardinality(I)
           f == [i \in I |-> Rank(I, i)]
<1>1. IsFiniteSet(I) /\ Cardinality(I) \in Nat
  BY IndicesFinite
<1>2. IsFiniteSet(T) /\ Cardinality(T) = Cardinality(I)
  BY <1>1, FS_Interval
<1>3. f \in [I -> T]
  BY RankType
<1>4. \A a, b \in I : f[a] = f[b] => a = b
  BY RankUnique
<1>5. f \in Injection(I, T)
  BY <1>3, <1>4 DEF Injection, IsInjective
<1>6. f \in Surjection(I, T)
  <2> HIDE DEF f, T
  <2> QED BY <1>1, <1>2, <1>5, FS_Injection
<1>7. \E i \in I : f[i] = j
  BY <1>6 DEF Surjection
<1> QED
  BY <1>7

(* What is picked are elements of the list, each after those before it.    *)
LEMMA PickedRank ==
  ASSUME NEW n \in Nat, NEW I \in SUBSET (1 .. n), NEW q, NEW i \in I
  PROVE  /\ Rank(I, i) \in DOMAIN Picked(q, I)
         /\ Picked(q, I)[Rank(I, i)] = q[i]
<1> DEFINE j == Rank(I, i)
<1>1. j \in 1 .. Cardinality(I)
  BY RankType
<1>2. (CHOOSE a \in I : Rank(I, a) = j) = i
  BY RankUnique
<1> QED
  BY <1>1, <1>2 DEF Picked

LEMMA PickedSeq ==
  ASSUME NEW S, NEW q \in Seq(S), NEW I \in SUBSET DOMAIN q
  PROVE  Picked(q, I) \in Seq(S) /\ Len(Picked(q, I)) = Cardinality(I)
<1>1. Len(q) \in Nat /\ I \in SUBSET (1 .. Len(q))
  OBVIOUS
<1>2. Cardinality(I) \in Nat
  BY <1>1, IndicesFinite
<1>3. ASSUME NEW j \in 1 .. Cardinality(I)
      PROVE  Picked(q, I)[j] \in S
  <2>1. PICK i \in I : Rank(I, i) = j
    BY <1>1, RankOnto
  <2>2. Picked(q, I)[Rank(I, i)] = q[i]
    BY <1>1, PickedRank
  <2> QED BY <2>1, <2>2
<1>4. Picked(q, I) \in [1 .. Cardinality(I) -> S]
  BY <1>3 DEF Picked
<1> QED
  BY <1>2, <1>4

(* Picking the same elements from two lists.                               *)
LEMMA PickedSame ==
  ASSUME NEW n \in Nat, NEW I \in SUBSET (1 .. n), NEW p, NEW q,
         \A i \in I : p[i] = q[i]
  PROVE  Picked(p, I) = Picked(q, I)
<1>1. ASSUME NEW j \in 1 .. Cardinality(I)
      PROVE  p[CHOOSE i \in I : Rank(I, i) = j] = q[CHOOSE i \in I : Rank(I, i) = j]
  BY RankOnto
<1> QED
  BY <1>1 DEF Picked

(* Picking one more, later element.                                        *)
LEMMA PickedMore ==
  ASSUME NEW S, NEW q \in Seq(S), NEW n \in Nat, n + 1 \in DOMAIN q,
         NEW I \in SUBSET (1 .. n)
  PROVE  Picked(q, I \cup {n + 1}) = Append(Picked(q, I), q[n + 1])
<1> DEFINE J == I \cup {n + 1}
           c == Cardinality(I)
<1>1. J \in SUBSET (1 .. (n + 1)) /\ n + 1 \in Nat /\ n + 1 \notin I
      /\ I \in SUBSET DOMAIN q /\ J \in SUBSET DOMAIN q
  OBVIOUS
<1>2. IsFiniteSet(I) /\ c \in Nat
  BY IndicesFinite
<1>3. Cardinality(J) = c + 1
  BY <1>1, <1>2, FS_AddElement
<1>4. Rank(J, n + 1) = c + 1
  <2>1. \A m \in J : m <= n + 1
    OBVIOUS
  <2>2. {m \in J : m <= n + 1} = J
    BY <2>1
  <2> QED BY <1>3, <2>2 DEF Rank
<1>5. ASSUME NEW i \in I
      PROVE  Rank(J, i) = Rank(I, i)
  <2>1. i <= n /\ ~(n + 1 <= i)
    OBVIOUS
  <2>2. {m \in J : m <= i} = {m \in I : m <= i}
    BY <2>1
  <2> QED BY <2>2 DEF Rank
<1>6. Picked(q, I) \in Seq(S) /\ Len(Picked(q, I)) = c
  BY <1>1, PickedSeq
<1>7. Picked(q, J) \in Seq(S) /\ Len(Picked(q, J)) = c + 1
  BY <1>1, <1>3, PickedSeq
<1>8. Picked(q, J)[c + 1] = q[n + 1]
  <2> HIDE DEF J, c
  <2>1. n + 1 \in J
    BY DEF J
  <2>2. Picked(q, J)[Rank(J, n + 1)] = q[n + 1]
    BY <1>1, <2>1, PickedRank
  <2> QED BY <1>4, <2>2
<1>9. ASSUME NEW j \in 1 .. c
      PROVE  Picked(q, J)[j] = Picked(q, I)[j]
  <2>0. PICK i \in I : Rank(I, i) = j
    BY RankOnto
  <2>1. Picked(q, I)[Rank(I, i)] = q[i]
    BY PickedRank
  <2>2. i \in J /\ Rank(J, i) = j
    BY <1>5, <2>0
  <2> HIDE DEF J
  <2>3. Picked(q, J)[j] = q[i]
    BY <1>1, <2>2, PickedRank
  <2> QED BY <2>0, <2>1, <2>3
<1> HIDE DEF J, c
<1>10. Append(Picked(q, I), q[n + 1]) \in Seq(S)
  BY <1>1, <1>6
<1>11. Len(Append(Picked(q, I), q[n + 1])) = c + 1
  BY <1>6
<1>12. ASSUME NEW j \in 1 .. (c + 1)
       PROVE  Picked(q, J)[j] = Append(Picked(q, I), q[n + 1])[j]
  <2>1. j \in 1 .. c \/ j = c + 1
    BY <1>2
  <2> QED BY <2>1, <1>2, <1>6, <1>8, <1>9
<1>13. Picked(q, J) = Append(Picked(q, I), q[n + 1])
  BY <1>7, <1>10, <1>11, <1>12
<1> QED
  BY <1>13 DEF J

(* Picking the first m.                                                    *)
LEMMA PickedPrefix ==
  ASSUME NEW S, NEW q \in Seq(S), NEW m \in 0 .. Len(q)
  PROVE  /\ Picked(q, 1 .. m) \in Seq(S) /\ Len(Picked(q, 1 .. m)) = m
         /\ \A j \in 1 .. m : Picked(q, 1 .. m)[j] = q[j]
<1>1. m \in Nat /\ (1 .. m) \in SUBSET DOMAIN q /\ (1 .. m) \in SUBSET (1 .. m)
  OBVIOUS
<1>2. Cardinality(1 .. m) = m
  BY <1>1, FS_Interval
<1>3. Picked(q, 1 .. m) \in Seq(S) /\ Len(Picked(q, 1 .. m)) = m
  BY <1>1, <1>2, PickedSeq
<1>4. ASSUME NEW j \in 1 .. m
      PROVE  Rank(1 .. m, j) = j
  <2>1. {i \in 1 .. m : i <= j} = 1 .. j
    OBVIOUS
  <2>2. Cardinality(1 .. j) = j
    BY FS_Interval
  <2> QED BY <2>1, <2>2 DEF Rank
<1>5. ASSUME NEW j \in 1 .. m
      PROVE  Picked(q, 1 .. m)[j] = q[j]
  <2> DEFINE I == 1 .. m
  <2>1. m \in Nat /\ I \in SUBSET (1 .. m) /\ j \in I
    BY <1>1
  <2> HIDE DEF I
  <2>2. Picked(q, I)[Rank(I, j)] = q[j]
    BY <2>1, PickedRank
  <2> QED BY <1>4, <2>2 DEF I
<1> QED
  BY <1>3, <1>5

(* ------------------------------- Types --------------------------------- *)

Guests == [up : {"off", "up", "paused", "down"}, runner : BOOLEAN, mem : States, disk : States]

CheckpointRecords ==
  [step : Nat, command : Commands \cup {None}, snapshot : Names \cup {None},
   was : [mem : States, disk : States]]

Entries == [mem : States \cup {None}, disk : States \cup {None}, meta : BOOLEAN]

FlagInv ==
  /\ client \in [Sandboxes -> BOOLEAN] /\ record \in [Sandboxes -> BOOLEAN]
  /\ backend \in [Sandboxes -> Backends \cup {None}]
  /\ session \in [Sandboxes -> {None} \cup (Sandboxes \X Nat)]
  /\ starts \in [Sandboxes -> Nat] /\ counter \in [Sandboxes -> Nat]

GuestInv ==
  /\ guest \in [Sandboxes -> Guests]
  /\ \A s \in Sandboxes : guest[s].up = "off" => guest[s] = NoGuest

ListInv == checkpoints \in [Sandboxes -> Seq(CheckpointRecords)]

(* A copy of a directory is there or not, with what stands for its memory. *)
StoreInv ==
  \A n \in DOMAIN store :
    /\ store[n] \in Entries
    /\ n.dir /\ store[n].disk # None => store[n].mem # None

TypeInv == FlagInv /\ GuestInv /\ ListInv /\ StoreInv

LEMMA EmptyState == <<>> \in States /\ NoGuest \in Guests /\ Fresh \in Guests
<1>1. <<>> \in States
  BY DEF States
<1> QED
  BY <1>1 DEF NoGuest, Fresh, Guests

LEMMA EffectType ==
  ASSUME NEW g \in Guests, NEW c \in Commands
  PROVE  /\ Effect(g, c) \in Guests
         /\ Effect(g, c).up = g.up /\ Effect(g, c).runner = g.runner
<1>1. Append(g.mem, c) \in States /\ Append(g.disk, c) \in States
  BY DEF Guests, States
<1> QED
  BY <1>1 DEF Effect, Guests

LEMMA FoundType ==
  ASSUME ListInv, NEW s \in Sandboxes, NEW k \in Nat, AtStep(s, k) # {}, StepsIncrease
  PROVE  \E i \in DOMAIN checkpoints[s] :
           /\ checkpoints[s][i].step = k /\ Found(s, k) = checkpoints[s][i]
           /\ UpTo(s, k) = 1 .. i
<1>1. checkpoints[s] \in Seq(CheckpointRecords)
  BY DEF ListInv
<1>2. PICK i \in DOMAIN checkpoints[s] : checkpoints[s][i].step = k
  BY DEF AtStep
<1>3. /\ i \in 1 .. Len(checkpoints[s])
      /\ \A j \in DOMAIN checkpoints[s] : j \in Nat \ {0} /\ checkpoints[s][j].step \in Nat
  <2>1. Len(checkpoints[s]) \in Nat /\ DOMAIN checkpoints[s] = 1 .. Len(checkpoints[s])
    BY <1>1
  <2>2. \A j \in DOMAIN checkpoints[s] : checkpoints[s][j] \in CheckpointRecords
    BY <1>1
  <2>3. \A cp \in CheckpointRecords : cp.step \in Nat
    BY DEF CheckpointRecords
  <2> QED BY <2>1, <2>2, <2>3
<1>4. \A j \in DOMAIN checkpoints[s] :
        /\ j < i => checkpoints[s][j].step < k
        /\ i < j => k < checkpoints[s][j].step
  BY <1>2, <1>3 DEF StepsIncrease
<1>5. AtStep(s, k) = {i}
  BY <1>2, <1>3, <1>4 DEF AtStep
<1>6. UpTo(s, k) = 1 .. i
  <2>1. \A j \in DOMAIN checkpoints[s] : checkpoints[s][j].step <= k <=> j <= i
    BY <1>2, <1>3, <1>4
  <2>2. DOMAIN checkpoints[s] = 1 .. Len(checkpoints[s]) /\ Len(checkpoints[s]) \in Nat
    BY <1>1
  <2> QED BY <1>3, <2>1, <2>2 DEF UpTo
<1>7. (CHOOSE j \in AtStep(s, k) : \A m \in AtStep(s, k) : j <= m) = i
  BY <1>3, <1>5
<1> QED
  BY <1>2, <1>6, <1>7 DEF Found

LEMMA UpToIndices ==
  ASSUME NEW s, NEW k
  PROVE  UpTo(s, k) \in SUBSET DOMAIN checkpoints[s]
BY DEF UpTo

LEMMA EntryType ==
  ASSUME StoreInv, NEW name
  PROVE  /\ Entry(name) \in Entries
         /\ name.dir /\ Entry(name).disk # None => Entry(name).mem # None
         /\ Restorable(name) => Entry(name).mem \in States /\ Entry(name).disk \in States
<1>1. Missing \in Entries /\ Missing.disk = None
  BY DEF Missing, Entries
<1>2. Entry(name) \in Entries
      /\ (name.dir /\ Entry(name).disk # None => Entry(name).mem # None)
  <2>1. CASE name \in DOMAIN store
    BY <2>1 DEF Entry, StoreInv
  <2>2. CASE name \notin DOMAIN store
    BY <1>1, <2>2 DEF Entry
  <2> QED BY <2>1, <2>2
<1>3. Entry(name).mem \in States \cup {None} /\ Entry(name).disk \in States \cup {None}
  BY <1>2 DEF Entries
<1> QED
  BY <1>2, <1>3 DEF Restorable

LEMMA NamesType ==
  ASSUME FlagInv, NEW s \in Sandboxes
  PROVE  /\ StepName(s) \in Names /\ ManualName(s) \in Names
         /\ \A n \in UserNames : NamedBy(s, n) \in Names
         /\ Free(s) \subseteq Names
<1>1. session[s] \in {None} \cup (Sandboxes \X Nat) /\ counter[s] + 1 \in Nat
  BY DEF FlagInv
<1>2. StepName(s) \in Names /\ ManualName(s) \in Names
  BY <1>1 DEF StepName, ManualName, Name, Names
<1>3. \A n \in UserNames : NamedBy(s, n) \in Names
  BY DEF NamedBy, Name, Names
<1> QED
  BY <1>2, <1>3 DEF Free

LEMMA RecordedType ==
  ASSUME ListInv, NEW s \in Sandboxes, NEW k
  PROVE  Recorded(s, k) \in States
<1> DEFINE q == checkpoints[s]
           I == {i \in UpTo(s, k) : q[i].command \in Python}
           kept == Picked(q, I)
<1>1. q \in Seq(CheckpointRecords) /\ I \in SUBSET DOMAIN q
  BY UpToIndices DEF ListInv
<1>2. \A i \in I : q[i].command \in Python
  OBVIOUS
<1> HIDE DEF q, I
<1>3. kept \in Seq(CheckpointRecords) /\ Len(kept) = Cardinality(I)
  BY <1>1, PickedSeq
<1>4. Len(q) \in Nat /\ I \in SUBSET (1 .. Len(q))
  BY <1>1
<1>5. ASSUME NEW j \in 1 .. Cardinality(I)
      PROVE  kept[j].command \in Commands
  <2>1. PICK i \in I : Rank(I, i) = j
    BY <1>4, RankOnto
  <2>2. kept[Rank(I, i)] = q[i]
    BY <1>4, PickedRank
  <2> QED BY <1>2, <2>1, <2>2 DEF Commands
<1> HIDE DEF kept
<1>6. DOMAIN kept = 1 .. Cardinality(I) /\ Cardinality(I) \in Nat
  BY <1>3
<1>7. [j \in DOMAIN kept |-> kept[j].command] \in Seq(Commands)
  BY <1>5, <1>6
<1> QED
  BY <1>7 DEF Recorded, kept, I, q, States

(* What the actions do to a list and a counter, and to the store.          *)
Same(s)   == UNCHANGED <<checkpoints, counter>>
Clear(s)  == /\ checkpoints' = [checkpoints EXCEPT ![s] = <<>>]
             /\ counter' = [counter EXCEPT ![s] = 0]
Skip(s)   == UNCHANGED checkpoints /\ Count(s)
Add(s)    == /\ \E c \in Commands \cup {None}, name \in Names \cup {None}, g \in Guests :
                  Checkpointed(s, c, name, g)
             /\ Count(s)
Trim(s)   == \E k \in 1 .. counter[s] : AtStep(s, k) # {} /\ TrimTo(s, k)

LEMMA ListSteps ==
  ASSUME FlagInv, GuestInv, NEW s \in Sandboxes
  PROVE  /\ \A b : Start(s, b) \/ StartFails(s, b) => Same(s) \/ Clear(s)
         /\ Stop(s) => Same(s)
         /\ \A c \in Commands :
              /\ RunUnrecorded(s, c) \/ RunUnanswered(s, c) => Same(s)
              /\ Run(s, c) \/ RunSnapshotFails(s, c) => Add(s)
         /\ \A name \in Free(s) :
              /\ Checkpoint(s, name) => Add(s)
              /\ CheckpointFails(s, name) => Skip(s)
         /\ \A k \in 1 .. counter[s] :
              /\ Load(s, k) \/ Replay(s, k) => Trim(s)
              /\ LoadFails(s, k) => Same(s)
<1>1. ASSUME NEW b, Start(s, b) \/ StartFails(s, b)
      PROVE  Same(s) \/ Clear(s)
  BY <1>1 DEF Start, StartFails, NewSession, Same, Clear
<1>2. Stop(s) => Same(s)
  BY DEF Stop, Same
<1>3. guest[s] \in Guests
  BY DEF GuestInv
<1>4. ASSUME NEW c \in Commands
      PROVE  /\ RunUnrecorded(s, c) \/ RunUnanswered(s, c) => Same(s)
             /\ Run(s, c) \/ RunSnapshotFails(s, c) => Add(s)
  <2>1. Effect(guest[s], c) \in Guests /\ StepName(s) \in Names
    BY <1>3, EffectType, NamesType
  <2>2. RunUnrecorded(s, c) \/ RunUnanswered(s, c) => Same(s)
    BY DEF RunUnrecorded, RunUnanswered, Same
  <2>3. Run(s, c) \/ RunSnapshotFails(s, c)
          => Count(s) /\ (Checkpointed(s, c, None, Effect(guest[s], c))
                            \/ Checkpointed(s, c, StepName(s), Effect(guest[s], c)))
    BY DEF Run, RunSnapshotFails
  <2> QED BY <2>1, <2>2, <2>3 DEF Add
<1>5. ASSUME NEW name \in Free(s)
      PROVE  /\ Checkpoint(s, name) => Add(s)
             /\ CheckpointFails(s, name) => Skip(s)
  <2>1. name \in Names
    BY NamesType
  <2>2. Checkpoint(s, name) => Add(s)
    BY <1>3, <2>1 DEF Checkpoint, Add
  <2>3. CheckpointFails(s, name) => Skip(s)
    BY DEF CheckpointFails, Skip
  <2> QED BY <2>2, <2>3
<1>6. ASSUME NEW k \in 1 .. counter[s]
      PROVE  /\ Load(s, k) \/ Replay(s, k) => Trim(s)
             /\ LoadFails(s, k) => Same(s)
  BY DEF Load, Replay, LoadFails, Trim, Same
<1> QED
  BY <1>1, <1>2, <1>4, <1>5, <1>6

LEMMA FlagStep ==
  ASSUME FlagInv, [Next]_vars
  PROVE  FlagInv'
<1> USE DEF FlagInv
<1>1. ASSUME NEW s \in Sandboxes, NEW b \in Backends, Start(s, b) \/ StartFails(s, b)
      PROVE  FlagInv'
  <2>1. starts[s] + 1 \in Nat /\ <<s, starts[s] + 1>> \in Sandboxes \X Nat
    OBVIOUS
  <2>2. /\ starts' \in [Sandboxes -> Nat] /\ counter' \in [Sandboxes -> Nat]
        /\ session' \in [Sandboxes -> {None} \cup (Sandboxes \X Nat)]
    <3>1. starts' = [starts EXCEPT ![s] = starts[s] + 1]
      BY <1>1 DEF Start, StartFails, NewSession
    <3>2. \/ /\ session' = [session EXCEPT ![s] = <<s, starts[s] + 1>>]
             /\ counter' = [counter EXCEPT ![s] = 0]
          \/ UNCHANGED <<session, counter>>
      BY <1>1 DEF Start, StartFails, NewSession
    <3> QED BY <2>1, <3>1, <3>2
  <2>3. backend' \in [Sandboxes -> Backends \cup {None}] /\ UNCHANGED record
    BY <1>1 DEF Start, StartFails, Chooses
  <2>4. client' \in [Sandboxes -> BOOLEAN]
    BY <1>1 DEF Start, StartFails
  <2> QED BY <2>2, <2>3, <2>4
<1>2. ASSUME NEW s \in Sandboxes, Stop(s)
      PROVE  FlagInv'
  BY <1>2 DEF Stop
<1>3. ASSUME NEW s \in Sandboxes, Count(s)
      PROVE  counter' \in [Sandboxes -> Nat]
  BY <1>3 DEF Count
<1>4. ASSUME NEW s \in Sandboxes, NEW c \in Commands,
             RunUnrecorded(s, c) \/ Run(s, c) \/ RunSnapshotFails(s, c) \/ RunUnanswered(s, c)
      PROVE  FlagInv'
  BY <1>3, <1>4 DEF RunUnrecorded, Run, RunSnapshotFails, RunUnanswered
<1>5. ASSUME NEW s \in Sandboxes, NEW name \in Free(s),
             Checkpoint(s, name) \/ CheckpointFails(s, name)
      PROVE  FlagInv'
  BY <1>3, <1>5 DEF Checkpoint, CheckpointFails
<1>6. ASSUME NEW s \in Sandboxes, NEW k \in 1 .. counter[s],
             Load(s, k) \/ LoadFails(s, k) \/ Replay(s, k)
      PROVE  FlagInv'
  <2>1. k \in Nat
    OBVIOUS
  <2>2. TrimTo(s, k) => counter' \in [Sandboxes -> Nat]
    BY <2>1 DEF TrimTo
  <2> QED BY <1>6, <2>2 DEF Load, LoadFails, Replay
<1>7. CASE UNCHANGED vars
  BY <1>7 DEF vars
<1> QED
  BY <1>1, <1>2, <1>4, <1>5, <1>6, <1>7 DEF Next

(* A step either leaves the lists alone, or one list is cleared, gets one  *)
(* checkpoint more or is trimmed.                                          *)
LEMMA ListCases ==
  ASSUME FlagInv, GuestInv, Next
  PROVE  \E s \in Sandboxes : Same(s) \/ Clear(s) \/ Skip(s) \/ Add(s) \/ Trim(s)
BY ListSteps DEF Next

LEMMA ListStep ==
  ASSUME FlagInv, GuestInv, ListInv, [Next]_vars
  PROVE  ListInv'
<1>1. ASSUME NEW s \in Sandboxes, Same(s) \/ Clear(s) \/ Skip(s)
      PROVE  ListInv'
  <2>1. <<>> \in Seq(CheckpointRecords)
    OBVIOUS
  <2> HIDE DEF CheckpointRecords
  <2>2. CASE Clear(s)
    BY <2>1, <2>2 DEF ListInv, Clear
  <2>3. CASE Same(s) \/ Skip(s)
    BY <2>3 DEF ListInv, Same, Skip
  <2> QED BY <1>1, <2>2, <2>3
<1>2. ASSUME NEW s \in Sandboxes, Add(s)
      PROVE  ListInv'
  <2>1. PICK c \in Commands \cup {None}, name \in Names \cup {None}, g \in Guests :
          Checkpointed(s, c, name, g)
    BY <1>2 DEF Add
  <2> DEFINE cp == [step |-> counter[s] + 1, command |-> c, snapshot |-> name,
                    was |-> [mem |-> g.mem, disk |-> g.disk]]
  <2>2. cp \in CheckpointRecords
    BY DEF CheckpointRecords, Guests, FlagInv
  <2>3. checkpoints' = [checkpoints EXCEPT ![s] = Append(@, cp)]
    BY <2>1 DEF Checkpointed
  <2> HIDE DEF cp
  <2>4. Append(checkpoints[s], cp) \in Seq(CheckpointRecords)
    BY <2>2 DEF ListInv
  <2> QED BY <2>3, <2>4 DEF ListInv
<1>3. ASSUME NEW s \in Sandboxes, Trim(s)
      PROVE  ListInv'
  <2>1. PICK k \in 1 .. counter[s] : TrimTo(s, k)
    BY <1>3 DEF Trim
  <2>2. checkpoints[s] \in Seq(CheckpointRecords)
    BY DEF ListInv
  <2>3. Picked(checkpoints[s], UpTo(s, k)) \in Seq(CheckpointRecords)
    BY <2>2, UpToIndices, PickedSeq
  <2> QED BY <2>1, <2>3 DEF TrimTo, ListInv
<1>4. CASE UNCHANGED vars
  BY <1>4 DEF vars, ListInv
<1> QED
  BY <1>1, <1>2, <1>3, <1>4, ListCases

(* What the actions write to the store, under which name.                  *)
Writes(name) ==
  \E e \in Entries : /\ store' = Stored(name, e)
                     /\ name.dir /\ e.disk # None => e.mem # None

LEMMA SaveWrites ==
  ASSUME StoreInv, NEW g \in Guests, NEW name \in Names
  PROVE  /\ Save(g, name) => Writes(name)
         /\ SaveFails(g, name) => Writes(name)
<1>1. g.mem \in States /\ g.disk \in States /\ <<>> \in States
  BY EmptyState DEF Guests
<1>2. None \notin States
  BY TimeTravelAssumption
<1>3. Snapshot(g) \in Entries /\ Snapshot(g).mem # None
      /\ [Snapshot(g) EXCEPT !.meta = FALSE] \in Entries
      /\ [Snapshot(g) EXCEPT !.meta = FALSE].mem # None
  BY <1>1, <1>2 DEF Snapshot, Entries
<1>4. Missing \in Entries /\ Missing.disk = None
  BY DEF Missing, Entries
<1>5. /\ Entry(name) \in Entries
      /\ name.dir /\ Entry(name).disk # None => Entry(name).mem # None
  BY EntryType
<1>6. /\ [Entry(name) EXCEPT !.mem = g.mem] \in Entries
      /\ [Entry(name) EXCEPT !.mem = g.mem, !.disk = g.disk] \in Entries
  BY <1>1, <1>5 DEF Entries
<1>7. /\ [mem |-> <<>>, disk |-> <<>>, meta |-> FALSE] \in Entries
      /\ [mem |-> <<>>, disk |-> <<>>, meta |-> FALSE].mem # None
  BY <1>1, <1>2 DEF Entries
<1>8. ASSUME NEW e \in Torn(g, name)
      PROVE  e \in Entries /\ (name.dir /\ e.disk # None => e.mem # None)
  <2>0. name.dir \in BOOLEAN
    BY DEF Names
  <2>1. CASE ~name.dir
    BY <1>5, <1>6, <1>8, <2>1 DEF Torn
  <2>2. CASE name.dir
    <3>1. e \in {Missing, [mem |-> <<>>, disk |-> <<>>, meta |-> FALSE],
                 [Snapshot(g) EXCEPT !.meta = FALSE]}
      BY <1>8, <2>0, <2>2 DEF Torn
    <3> QED BY <1>3, <1>4, <1>7, <3>1
  <2> QED BY <2>1, <2>2
<1> QED
  BY <1>3, <1>8 DEF Save, SaveFails, Writes

LEMMA WritesType ==
  ASSUME StoreInv, NEW name, Writes(name)
  PROVE  StoreInv'
<1>1. PICK e \in Entries : /\ store' = Stored(name, e)
                           /\ name.dir /\ e.disk # None => e.mem # None
  BY DEF Writes
<1>2. DOMAIN store' = DOMAIN store \cup {name}
      /\ \A n \in DOMAIN store' : store'[n] = IF n = name THEN e ELSE store[n]
  BY <1>1 DEF Stored
<1> QED
  BY <1>1, <1>2 DEF StoreInv

LEMMA StoreStep ==
  ASSUME FlagInv, GuestInv, StoreInv, [Next]_vars
  PROVE  StoreInv'
<1>0. ASSUME UNCHANGED store
      PROVE  StoreInv'
  BY <1>0 DEF StoreInv
<1>1. ASSUME NEW s \in Sandboxes, NEW c \in Commands, Run(s, c) \/ RunSnapshotFails(s, c)
      PROVE  StoreInv'
  <2> DEFINE g == Effect(guest[s], c)
  <2>1. g \in Guests /\ StepName(s) \in Names
    BY EffectType, NamesType DEF GuestInv
  <2>2. UNCHANGED store \/ Save(g, StepName(s)) \/ SaveFails(g, StepName(s))
    BY <1>1 DEF Run, RunSnapshotFails
  <2> HIDE DEF g
  <2>3. UNCHANGED store \/ Writes(StepName(s))
    BY <2>1, <2>2, SaveWrites
  <2> QED BY <1>0, <2>3, WritesType
<1>2. ASSUME NEW s \in Sandboxes, NEW name \in Free(s),
             Checkpoint(s, name) \/ CheckpointFails(s, name)
      PROVE  StoreInv'
  <2>1. guest[s] \in Guests /\ name \in Names
    BY NamesType DEF GuestInv
  <2>2. UNCHANGED store \/ Save(guest[s], name) \/ SaveFails(guest[s], name)
    BY <1>2 DEF Checkpoint, CheckpointFails
  <2>3. UNCHANGED store \/ Writes(name)
    BY <2>1, <2>2, SaveWrites
  <2> QED BY <1>0, <2>3, WritesType
<1>3. ASSUME NEW s \in Sandboxes,
             \/ \E b \in Backends : Start(s, b) \/ StartFails(s, b)
             \/ Stop(s)
             \/ \E c \in Commands : RunUnrecorded(s, c) \/ RunUnanswered(s, c)
             \/ \E k \in 1 .. counter[s] : Load(s, k) \/ LoadFails(s, k) \/ Replay(s, k)
      PROVE  UNCHANGED store
  BY <1>3 DEF Start, StartFails, Stop, RunUnrecorded, RunUnanswered, Load, LoadFails, Replay
<1>4. CASE UNCHANGED vars
  BY <1>0, <1>4 DEF vars
<1> QED
  BY <1>0, <1>1, <1>2, <1>3, <1>4 DEF Next

LEMMA AfterFailureType ==
  ASSUME NEW s, NEW g \in Guests, g.up # "off", NEW after \in AfterFailure(s, g)
  PROVE  after \in Guests /\ after.up # "off" /\ after.mem = g.mem /\ after.runner = g.runner
<1>1. after = g \/ \E up \in {g.up, "paused"} : after = [g EXCEPT !.up = up]
  BY DEF AfterFailure
<1> QED
  BY <1>1 DEF Guests

LEMMA ReplayedType ==
  ASSUME GuestInv, ListInv, NEW s \in Sandboxes, NEW k
  PROVE  /\ Replayed(s, k) \in Guests
         /\ Replayed(s, k).up = guest[s].up /\ Replayed(s, k).runner = guest[s].runner
<1> DEFINE cmds == IF guest[s].runner THEN Recorded(s, k) ELSE <<>>
           base == IF backend[s] = "local" THEN guest[s].mem ELSE <<>>
<1>1. guest[s] \in Guests
  BY DEF GuestInv
<1>2. cmds \in States /\ base \in States /\ guest[s].disk \in States
  BY <1>1, RecordedType, EmptyState DEF Guests
<1> HIDE DEF cmds, base
<1>3. base \o cmds \in States /\ guest[s].disk \o cmds \in States
  BY <1>2 DEF States
<1>4. Replayed(s, k) = [guest[s] EXCEPT !.mem = base \o cmds, !.disk = @ \o cmds]
  BY DEF Replayed, cmds, base
<1> QED
  BY <1>1, <1>3, <1>4 DEF Guests

(* A guest that is set to a well-formed one that is not off.               *)
LEMMA GuestSet ==
  ASSUME GuestInv, NEW s \in Sandboxes, NEW g \in Guests, g.up = "off" => g = NoGuest,
         guest' = [guest EXCEPT ![s] = g]
  PROVE  GuestInv'
BY DEF GuestInv

LEMMA GuestStep ==
  ASSUME TypeInv, [Next]_vars
  PROVE  GuestInv'
<1> USE DEF TypeInv
<1>0. ASSUME UNCHANGED guest
      PROVE  GuestInv'
  BY <1>0 DEF GuestInv
<1>1. ASSUME NEW s \in Sandboxes, NEW b \in Backends, Start(s, b) \/ StartFails(s, b)
      PROVE  GuestInv'
  <2>1. Fresh \in Guests /\ [Fresh EXCEPT !.runner = FALSE] \in Guests
        /\ Fresh.up = "up" /\ [Fresh EXCEPT !.runner = FALSE].up = "up"
    BY EmptyState DEF Fresh, Guests
  <2>2. \/ UNCHANGED guest
        \/ guest' = [guest EXCEPT ![s] = Fresh]
        \/ guest' = [guest EXCEPT ![s] = [Fresh EXCEPT !.runner = FALSE]]
    BY <1>1 DEF Start, StartFails
  <2> HIDE DEF TypeInv
  <2> QED BY <1>0, <2>1, <2>2, GuestSet DEF TypeInv
<1>2. ASSUME NEW s \in Sandboxes, Stop(s)
      PROVE  GuestInv'
  BY <1>2, EmptyState, GuestSet DEF Stop
<1>3. ASSUME NEW s \in Sandboxes, NEW c \in Commands,
             RunUnrecorded(s, c) \/ Run(s, c) \/ RunUnanswered(s, c)
      PROVE  GuestInv'
  <2> DEFINE g == Effect(guest[s], c)
  <2>1. guest[s] \in Guests /\ guest[s].up = "up"
    BY <1>3 DEF RunUnrecorded, Run, RunUnanswered, CanRun, GuestInv
  <2>2. g \in Guests /\ g.up = "up"
    BY <2>1, EffectType
  <2>3. guest' = [guest EXCEPT ![s] = g]
    BY <1>3 DEF RunUnrecorded, Run, RunUnanswered
  <2> HIDE DEF g
  <2> QED BY <2>2, <2>3, GuestSet
<1>4. ASSUME NEW s \in Sandboxes, NEW c \in Commands, RunSnapshotFails(s, c)
      PROVE  GuestInv'
  <2> DEFINE g == Effect(guest[s], c)
  <2>1. guest[s] \in Guests /\ guest[s].up = "up"
    BY <1>4 DEF RunSnapshotFails, CanRun, GuestInv
  <2>2. g \in Guests /\ g.up = "up"
    BY <2>1, EffectType
  <2>3. PICK after \in AfterFailure(s, g) : guest' = [guest EXCEPT ![s] = after]
    BY <1>4 DEF RunSnapshotFails
  <2> HIDE DEF g
  <2>4. after \in Guests /\ after.up # "off"
    BY <2>2, AfterFailureType
  <2> QED BY <2>3, <2>4, GuestSet
<1>5. ASSUME NEW s \in Sandboxes, NEW name, Checkpoint(s, name) \/ CheckpointFails(s, name)
      PROVE  GuestInv'
  <2>1. guest[s] \in Guests /\ guest[s].up # "off"
    BY <1>5 DEF Checkpoint, CheckpointFails, CanCheckpoint, GuestInv
  <2>2. ASSUME Checkpoint(s, name)
        PROVE  GuestInv'
    <3>1. [guest[s] EXCEPT !.up = "up"] \in Guests /\ [guest[s] EXCEPT !.up = "up"].up = "up"
      BY <2>1 DEF Guests
    <3>2. guest' = [guest EXCEPT ![s] = [guest[s] EXCEPT !.up = "up"]]
      BY <2>2 DEF Checkpoint
    <3> QED BY <3>1, <3>2, GuestSet
  <2>3. ASSUME CheckpointFails(s, name)
        PROVE  GuestInv'
    <3>1. \/ UNCHANGED guest
          \/ \E after \in AfterFailure(s, guest[s]) : guest' = [guest EXCEPT ![s] = after]
      BY <2>3 DEF CheckpointFails
    <3>2. ASSUME NEW after \in AfterFailure(s, guest[s]),
                 guest' = [guest EXCEPT ![s] = after]
          PROVE  GuestInv'
      <4>1. after \in Guests /\ after.up # "off"
        BY <2>1, AfterFailureType
      <4> QED BY <3>2, <4>1, GuestSet
    <3> QED BY <1>0, <3>1, <3>2
  <2> QED BY <1>5, <2>2, <2>3
<1>6. ASSUME NEW s \in Sandboxes, NEW k, Load(s, k)
      PROVE  GuestInv'
  <2> DEFINE e == Entry(Found(s, k).snapshot)
             g == [guest[s] EXCEPT !.up = "up", !.mem = e.mem, !.disk = e.disk]
  <2>1. guest' = [guest EXCEPT ![s] = g]
    BY <1>6 DEF Load, GuestInv
  <2>2. e.mem \in States /\ e.disk \in States
    BY <1>6, EntryType DEF Load
  <2>3. guest[s] \in Guests
    BY DEF GuestInv
  <2> HIDE DEF e
  <2>4. g \in Guests /\ g.up = "up"
    BY <2>2, <2>3 DEF Guests
  <2> HIDE DEF g
  <2> QED BY <2>1, <2>4, GuestSet
<1>7. ASSUME NEW s \in Sandboxes, NEW k, LoadFails(s, k)
      PROVE  GuestInv'
  <2>1. guest[s] \in Guests /\ guest[s].up # "off"
    BY <1>7 DEF LoadFails, GuestInv
  <2>2. PICK up \in {guest[s].up, "down"} :
          guest' = [guest EXCEPT ![s] = [guest[s] EXCEPT !.up = up]]
    BY <1>7 DEF LoadFails, GuestInv
  <2>3. [guest[s] EXCEPT !.up = up] \in Guests /\ [guest[s] EXCEPT !.up = up].up # "off"
    BY <2>1 DEF Guests
  <2> QED BY <2>2, <2>3, GuestSet
<1>8. ASSUME NEW s \in Sandboxes, NEW k, Replay(s, k)
      PROVE  GuestInv'
  <2>1. Replayed(s, k) \in Guests /\ Replayed(s, k).up = "up"
    BY <1>8, ReplayedType DEF Replay
  <2> QED BY <1>8, <2>1, GuestSet DEF Replay
<1>9. CASE UNCHANGED vars
  BY <1>0, <1>9 DEF vars
<1> HIDE DEF TypeInv
<1> QED
  BY <1>1, <1>2, <1>3, <1>4, <1>5, <1>6, <1>7, <1>8, <1>9 DEF Next

LEMMA TypeStep ==
  ASSUME TypeInv, [Next]_vars
  PROVE  TypeInv'
BY FlagStep, GuestStep, ListStep, StoreStep DEF TypeInv

LEMMA InitType == Init => TypeInv
<1> SUFFICES ASSUME Init
             PROVE  TypeInv
  OBVIOUS
<1> USE DEF Init
<1>1. FlagInv
  BY TimeTravelAssumption DEF FlagInv
<1>2. GuestInv
  BY EmptyState DEF GuestInv
<1>3. ListInv
  <2>1. <<>> \in Seq(CheckpointRecords)
    OBVIOUS
  <2> HIDE DEF CheckpointRecords
  <2> QED BY <2>1 DEF ListInv
<1>4. StoreInv
  BY DEF StoreInv
<1> QED
  BY <1>1, <1>2, <1>3, <1>4 DEF TypeInv

LEMMA TypeImplied == TypeInv => TypeOK
<1> SUFFICES ASSUME TypeInv, NEW s \in Sandboxes
             PROVE  /\ client[s] \in BOOLEAN /\ record[s] \in BOOLEAN
                    /\ guest[s].up \in {"off", "up", "paused", "down"}
                    /\ guest[s].up = "off" => guest[s] = NoGuest
                    /\ guest[s].mem \in States /\ guest[s].disk \in States
                    /\ counter[s] \in Nat
                    /\ \A i \in DOMAIN checkpoints[s] :
                         checkpoints[s][i].command \in Commands \cup {None}
  BY DEF TypeOK
<1>1. client[s] \in BOOLEAN /\ record[s] \in BOOLEAN /\ counter[s] \in Nat
  BY DEF TypeInv, FlagInv
<1>2. guest[s] \in Guests /\ (guest[s].up = "off" => guest[s] = NoGuest)
  BY DEF TypeInv, GuestInv
<1>3. \A i \in DOMAIN checkpoints[s] : checkpoints[s][i] \in CheckpointRecords
  BY DEF TypeInv, ListInv
<1> QED
  BY <1>1, <1>2, <1>3 DEF Guests, CheckpointRecords

(* The fields of a sandbox, its guest, its checkpoints and the snapshots   *)
(* are well-formed, for any number of sandboxes, steps and starts.         *)
THEOREM TravelTypeCorrect == Spec => []TypeOK
<1>1. TypeInv /\ [Next]_vars => TypeInv'
  BY TypeStep
<1> QED
  BY InitType, TypeImplied, <1>1, PTL DEF Spec

(* ----------------------- The order of the steps ------------------------ *)

LEMMA ListIndices ==
  ASSUME ListInv, NEW s \in Sandboxes
  PROVE  /\ checkpoints[s] \in Seq(CheckpointRecords)
         /\ Len(checkpoints[s]) \in Nat /\ DOMAIN checkpoints[s] = 1 .. Len(checkpoints[s])
         /\ \A i \in DOMAIN checkpoints[s] : /\ i \in Nat \ {0}
                                             /\ checkpoints[s][i] \in CheckpointRecords
                                             /\ checkpoints[s][i].step \in Nat
<1>1. checkpoints[s] \in Seq(CheckpointRecords)
  BY DEF ListInv
<1>2. Len(checkpoints[s]) \in Nat /\ DOMAIN checkpoints[s] = 1 .. Len(checkpoints[s])
  BY <1>1
<1>3. \A i \in DOMAIN checkpoints[s] : checkpoints[s][i] \in CheckpointRecords
  BY <1>1
<1>4. \A cp \in CheckpointRecords : cp.step \in Nat
  BY DEF CheckpointRecords
<1> QED
  BY <1>1, <1>2, <1>3, <1>4

(* What one action does to the list of s, in terms of its elements.        *)
OthersKeep(s) ==
  \A t \in Sandboxes \ {s} : checkpoints'[t] = checkpoints[t] /\ counter'[t] = counter[t]

LEMMA TrimKeepsPrefix ==
  ASSUME TypeInv, StepsIncrease, NEW s \in Sandboxes, NEW k \in 1 .. counter[s],
         AtStep(s, k) # {}, TrimTo(s, k)
  PROVE  /\ OthersKeep(s) /\ counter'[s] = k
         /\ \E m \in DOMAIN checkpoints[s] :
              /\ checkpoints[s][m].step = k /\ Found(s, k) = checkpoints[s][m]
              /\ UpTo(s, k) = 1 .. m
              /\ Len(checkpoints'[s]) = m /\ DOMAIN checkpoints'[s] = 1 .. m
              /\ \A j \in 1 .. m : j \in DOMAIN checkpoints[s]
                                   /\ checkpoints'[s][j] = checkpoints[s][j]
<1>1. /\ checkpoints[s] \in Seq(CheckpointRecords) /\ Len(checkpoints[s]) \in Nat
      /\ DOMAIN checkpoints[s] = 1 .. Len(checkpoints[s])
  BY ListIndices DEF TypeInv
<1>2. counter[s] \in Nat /\ k \in Nat
  BY DEF TypeInv, FlagInv
<1>3. PICK m \in DOMAIN checkpoints[s] :
        /\ checkpoints[s][m].step = k /\ Found(s, k) = checkpoints[s][m]
        /\ UpTo(s, k) = 1 .. m
  BY <1>2, FoundType DEF TypeInv
<1>4. m \in 0 .. Len(checkpoints[s]) /\ m \in Nat
  BY <1>1
<1>5. /\ Picked(checkpoints[s], 1 .. m) \in Seq(CheckpointRecords)
      /\ Len(Picked(checkpoints[s], 1 .. m)) = m
      /\ \A j \in 1 .. m : Picked(checkpoints[s], 1 .. m)[j] = checkpoints[s][j]
  BY <1>1, <1>4, PickedPrefix
<1>6. /\ checkpoints'[s] = Picked(checkpoints[s], 1 .. m) /\ counter'[s] = k
      /\ OthersKeep(s)
  BY <1>3 DEF TrimTo, TypeInv, FlagInv, ListInv, OthersKeep
<1>7. DOMAIN checkpoints'[s] = 1 .. m /\ \A j \in 1 .. m : j \in DOMAIN checkpoints[s]
  BY <1>1, <1>4, <1>5, <1>6
<1> QED
  BY <1>3, <1>5, <1>6, <1>7

NewRecord(s, c, name, g) ==
  [step |-> counter[s] + 1, command |-> c, snapshot |-> name,
   was |-> [mem |-> g.mem, disk |-> g.disk]]

LEMMA AddAppends ==
  ASSUME TypeInv, NEW s \in Sandboxes, NEW c, NEW name, NEW g,
         Checkpointed(s, c, name, g), Count(s)
  PROVE  /\ OthersKeep(s) /\ counter'[s] = counter[s] + 1
         /\ checkpoints'[s] = Append(checkpoints[s], NewRecord(s, c, name, g))
         /\ DOMAIN checkpoints'[s] = 1 .. (Len(checkpoints[s]) + 1)
         /\ checkpoints'[s][Len(checkpoints[s]) + 1] = NewRecord(s, c, name, g)
         /\ \A j \in DOMAIN checkpoints[s] : checkpoints'[s][j] = checkpoints[s][j]
<1>1. /\ checkpoints[s] \in Seq(CheckpointRecords) /\ Len(checkpoints[s]) \in Nat
      /\ DOMAIN checkpoints[s] = 1 .. Len(checkpoints[s])
  BY ListIndices DEF TypeInv
<1>2. /\ OthersKeep(s) /\ counter'[s] = counter[s] + 1
      /\ checkpoints'[s] = Append(checkpoints[s], NewRecord(s, c, name, g))
  BY DEF Checkpointed, Count, TypeInv, FlagInv, ListInv, OthersKeep, NewRecord
<1> QED
  BY <1>1, <1>2

LEMMA OrderStep ==
  ASSUME TypeInv, StepsIncrease, [Next]_vars
  PROVE  StepsIncrease'
<1> DEFINE Ordered(t) ==
      /\ \A i, j \in DOMAIN checkpoints[t] :
           i < j => checkpoints[t][i].step < checkpoints[t][j].step
      /\ \A i \in DOMAIN checkpoints[t] : checkpoints[t][i].step <= counter[t]
<1>1. \A t \in Sandboxes : Ordered(t)
  BY DEF StepsIncrease
<1>2. ASSUME NEW s \in Sandboxes, OthersKeep(s), Ordered(s)'
      PROVE  StepsIncrease'
  BY <1>1, <1>2 DEF StepsIncrease, OthersKeep
<1>3. ASSUME NEW s \in Sandboxes, Same(s)
      PROVE  StepsIncrease'
  BY <1>3 DEF StepsIncrease, Same
<1>4. ASSUME NEW s \in Sandboxes, Clear(s)
      PROVE  StepsIncrease'
  <2>1. OthersKeep(s) /\ checkpoints'[s] = <<>> /\ counter'[s] = 0
    BY <1>4 DEF Clear, TypeInv, FlagInv, ListInv, OthersKeep
  <2>2. Ordered(s)'
    BY <2>1
  <2> QED BY <1>2, <2>1, <2>2
<1>5. ASSUME NEW s \in Sandboxes, Skip(s)
      PROVE  StepsIncrease'
  <2>1. OthersKeep(s) /\ checkpoints'[s] = checkpoints[s] /\ counter'[s] = counter[s] + 1
    BY <1>5 DEF Skip, Count, TypeInv, FlagInv, OthersKeep
  <2>2. counter[s] \in Nat /\ \A i \in DOMAIN checkpoints[s] : checkpoints[s][i].step \in Nat
    BY ListIndices DEF TypeInv, FlagInv
  <2>3. Ordered(s)'
    BY <1>1, <2>1, <2>2
  <2> QED BY <1>2, <2>1, <2>3
<1>6. ASSUME NEW s \in Sandboxes, Add(s)
      PROVE  StepsIncrease'
  <2>1. PICK c \in Commands \cup {None}, name \in Names \cup {None}, g \in Guests :
          Checkpointed(s, c, name, g)
    BY <1>6 DEF Add
  <2> DEFINE n == Len(checkpoints[s])
             k == counter[s]
  <2>2. /\ OthersKeep(s) /\ counter'[s] = k + 1
        /\ DOMAIN checkpoints'[s] = 1 .. (n + 1)
        /\ checkpoints'[s][n + 1] = NewRecord(s, c, name, g)
        /\ \A j \in DOMAIN checkpoints[s] : checkpoints'[s][j] = checkpoints[s][j]
    BY <1>6, <2>1, AddAppends DEF Add
  <2>3. NewRecord(s, c, name, g).step = k + 1
    BY DEF NewRecord
  <2>4. /\ k \in Nat /\ n \in Nat /\ DOMAIN checkpoints[s] = 1 .. n
        /\ \A i \in DOMAIN checkpoints[s] : checkpoints[s][i].step \in Nat
    BY ListIndices DEF TypeInv, FlagInv
  <2>5. \A i \in 1 .. n : /\ checkpoints'[s][i].step = checkpoints[s][i].step
                          /\ checkpoints'[s][i].step <= k
    BY <1>1, <2>2, <2>4
  <2> HIDE DEF n, k
  <2>6. checkpoints'[s][n + 1].step = k + 1
    BY <2>2, <2>3
  <2>7. \A i, j \in 1 .. (n + 1) : i < j => checkpoints'[s][i].step < checkpoints'[s][j].step
    <3> SUFFICES ASSUME NEW i \in 1 .. (n + 1), NEW j \in 1 .. (n + 1), i < j
                 PROVE  checkpoints'[s][i].step < checkpoints'[s][j].step
      OBVIOUS
    <3>1. i \in 1 .. n /\ (j \in 1 .. n \/ j = n + 1)
      BY <2>4
    <3>2. CASE j \in 1 .. n
      <4>1. checkpoints[s][i].step < checkpoints[s][j].step
        BY <1>1, <2>4, <3>1, <3>2
      <4> QED BY <2>5, <3>1, <3>2, <4>1
    <3>3. CASE j = n + 1
      <4>1. checkpoints'[s][i].step \in Nat
        BY <2>4, <2>5, <3>1
      <4> QED BY <2>4, <2>5, <2>6, <3>1, <3>3, <4>1
    <3> QED BY <3>1, <3>2, <3>3
  <2>8. \A i \in 1 .. (n + 1) : checkpoints'[s][i].step <= k + 1
    <3> SUFFICES ASSUME NEW i \in 1 .. (n + 1)
                 PROVE  checkpoints'[s][i].step <= k + 1
      OBVIOUS
    <3>1. i \in 1 .. n \/ i = n + 1
      BY <2>4
    <3>2. i \in 1 .. n => checkpoints'[s][i].step \in Nat
      BY <2>4, <2>5
    <3> QED BY <2>4, <2>5, <2>6, <3>1, <3>2
  <2>9. Ordered(s)'
    BY <2>2, <2>7, <2>8
  <2> QED BY <1>2, <2>2, <2>9
<1>7. ASSUME NEW s \in Sandboxes, Trim(s)
      PROVE  StepsIncrease'
  <2>1. PICK k \in 1 .. counter[s] : AtStep(s, k) # {} /\ TrimTo(s, k)
    BY <1>7 DEF Trim
  <2>2. OthersKeep(s) /\ counter'[s] = k
    BY <2>1, TrimKeepsPrefix
  <2>3. PICK m \in DOMAIN checkpoints[s] :
          /\ checkpoints[s][m].step = k /\ DOMAIN checkpoints'[s] = 1 .. m
          /\ \A j \in 1 .. m : j \in DOMAIN checkpoints[s]
                               /\ checkpoints'[s][j] = checkpoints[s][j]
    BY <2>1, TrimKeepsPrefix
  <2>4. /\ m \in Nat /\ k \in Nat
        /\ \A i \in DOMAIN checkpoints[s] : checkpoints[s][i].step \in Nat
    BY ListIndices DEF TypeInv, FlagInv
  <2>5. \A i \in 1 .. m : checkpoints'[s][i].step <= k
    <3> SUFFICES ASSUME NEW i \in 1 .. m
                 PROVE  checkpoints[s][i].step <= k
      BY <2>3
    <3>1. i \in DOMAIN checkpoints[s] /\ (i < m \/ i = m)
      BY <2>3, <2>4
    <3>2. i < m => checkpoints[s][i].step < checkpoints[s][m].step
      BY <1>1, <3>1
    <3> QED BY <2>3, <2>4, <3>1, <3>2
  <2>6. \A i, j \in 1 .. m : i < j => checkpoints'[s][i].step < checkpoints'[s][j].step
    BY <1>1, <2>3
  <2>7. Ordered(s)'
    BY <2>2, <2>3, <2>5, <2>6
  <2> QED BY <1>2, <2>2, <2>7
<1>8. CASE UNCHANGED vars
  BY <1>8 DEF vars, StepsIncrease
<1> HIDE DEF Ordered
<1> QED
  BY <1>3, <1>4, <1>5, <1>6, <1>7, <1>8, ListCases DEF TypeInv

OrderInv == TypeInv /\ StepsIncrease

LEMMA InitOrder == Init => OrderInv
BY InitType DEF Init, StepsIncrease, OrderInv

(* Whatever is restored and whatever fails, the steps of a list increase   *)
(* and are not ahead of the counter, for any number of steps and restores. *)
THEOREM StepsInOrder == Spec => []StepsIncrease
<1>1. OrderInv /\ [Next]_vars => OrderInv'
  BY TypeStep, OrderStep DEF OrderInv
<1>2. OrderInv => StepsIncrease
  BY DEF OrderInv
<1> QED
  BY InitOrder, <1>1, <1>2, PTL DEF Spec

(* ------------------- Checkpoints and their snapshots ------------------- *)

(* With several sandboxes, their names are apart by the session in them,   *)
(* which only one that records has.                                        *)
Apart == Record \/ \A s, t \in Sandboxes : s = t

(* A recording sandbox that was started once has a session of its own, and *)
(* recording ends only after that.                                         *)
SessionInv ==
  Record => \A s \in Sandboxes :
    client[s] \/ ~record[s] \/ checkpoints[s] # <<>> => session[s] \in {s} \X Nat

(* A snapshot that was not named by the user bears the session and step.   *)
Own(cp, of) ==
  \/ cp.snapshot = None \/ cp.snapshot.kind = "user"
  \/ cp.snapshot.of = of /\ cp.snapshot.n = cp.step

NamesInv ==
  \A s \in Sandboxes : \A i \in DOMAIN checkpoints[s] : Own(checkpoints[s][i], session[s])

LEMMA SessionStep ==
  ASSUME TypeInv, SessionInv, [Next]_vars
  PROVE  SessionInv'
<1> SUFFICES ASSUME Record, NEW t \in Sandboxes
             PROVE  (client[t] \/ ~record[t] \/ checkpoints[t] # <<>>
                       => session[t] \in {t} \X Nat)'
  BY DEF SessionInv
<1> DEFINE Claim == client[t] \/ ~record[t] \/ checkpoints[t] # <<>> => session[t] \in {t} \X Nat
<1>1. Claim
  BY DEF SessionInv
<1>2. ASSUME NEW s \in Sandboxes, s # t,
             \/ \E b : Start(s, b) \/ StartFails(s, b)
             \/ Stop(s)
             \/ \E c : RunUnrecorded(s, c) \/ Run(s, c) \/ RunSnapshotFails(s, c)
                         \/ RunUnanswered(s, c)
             \/ \E name : Checkpoint(s, name) \/ CheckpointFails(s, name)
             \/ \E k : Load(s, k) \/ LoadFails(s, k) \/ Replay(s, k)
      PROVE  /\ client'[t] = client[t] /\ record'[t] = record[t]
             /\ checkpoints'[t] = checkpoints[t] /\ session'[t] = session[t]
  <2> USE DEF TypeInv, FlagInv, ListInv
  <2>1. ASSUME NEW b, Start(s, b) \/ StartFails(s, b)
        PROVE  /\ client'[t] = client[t] /\ record'[t] = record[t]
               /\ checkpoints'[t] = checkpoints[t] /\ session'[t] = session[t]
    BY <1>2, <2>1 DEF Start, StartFails, NewSession
  <2>2. ASSUME NEW c, RunUnrecorded(s, c) \/ Run(s, c) \/ RunSnapshotFails(s, c)
                        \/ RunUnanswered(s, c)
        PROVE  /\ client'[t] = client[t] /\ record'[t] = record[t]
               /\ checkpoints'[t] = checkpoints[t] /\ session'[t] = session[t]
    BY <1>2, <2>2 DEF RunUnrecorded, Run, RunSnapshotFails, RunUnanswered, Checkpointed
  <2>3. ASSUME NEW name, Checkpoint(s, name) \/ CheckpointFails(s, name)
        PROVE  /\ client'[t] = client[t] /\ record'[t] = record[t]
               /\ checkpoints'[t] = checkpoints[t] /\ session'[t] = session[t]
    BY <1>2, <2>3 DEF Checkpoint, CheckpointFails, Checkpointed
  <2>4. ASSUME NEW k, Load(s, k) \/ LoadFails(s, k) \/ Replay(s, k)
        PROVE  /\ client'[t] = client[t] /\ record'[t] = record[t]
               /\ checkpoints'[t] = checkpoints[t] /\ session'[t] = session[t]
    BY <1>2, <2>4 DEF Load, LoadFails, Replay, TrimTo
  <2>5. CASE Stop(s)
    BY <1>2, <2>5 DEF Stop
  <2> QED BY <1>2, <2>1, <2>2, <2>3, <2>4, <2>5
<1>3. ASSUME NEW b, Start(t, b) \/ StartFails(t, b)
      PROVE  Claim'
  <2>1. <<t, starts[t] + 1>> \in {t} \X Nat
    BY DEF TypeInv, FlagInv
  <2>2. CASE record[t]
    <3>1. session'[t] = <<t, starts[t] + 1>>
      BY <1>3, <2>2 DEF Start, StartFails, NewSession, TypeInv, FlagInv
    <3> QED BY <2>1, <3>1
  <2>3. CASE ~record[t]
    <3>1. UNCHANGED session
      BY <1>3, <2>3 DEF Start, StartFails, NewSession
    <3> QED BY <1>1, <2>3, <3>1
  <2> QED BY <2>2, <2>3
<1>4. ASSUME client[t], UNCHANGED session
      PROVE  Claim'
  BY <1>1, <1>4
<1>5. ASSUME \/ Stop(t)
             \/ \E c : RunUnrecorded(t, c) \/ Run(t, c) \/ RunSnapshotFails(t, c)
                         \/ RunUnanswered(t, c)
             \/ \E name : Checkpoint(t, name) \/ CheckpointFails(t, name)
             \/ \E k : Load(t, k) \/ LoadFails(t, k) \/ Replay(t, k)
      PROVE  client[t] /\ UNCHANGED session
  BY <1>5 DEF Stop, RunUnrecorded, Run, RunSnapshotFails, RunUnanswered, CanRun, Checkpoint,
              CheckpointFails, CanCheckpoint, Load, LoadFails, Replay
<1>6. CASE UNCHANGED vars
  BY <1>1, <1>6 DEF vars
<1>7. ASSUME Next
      PROVE  Claim'
  <2>1. PICK s \in Sandboxes :
             \/ \E b : Start(s, b) \/ StartFails(s, b)
             \/ Stop(s)
             \/ \E c : RunUnrecorded(s, c) \/ Run(s, c) \/ RunSnapshotFails(s, c)
                         \/ RunUnanswered(s, c)
             \/ \E name : Checkpoint(s, name) \/ CheckpointFails(s, name)
             \/ \E k : Load(s, k) \/ LoadFails(s, k) \/ Replay(s, k)
    BY <1>7 DEF Next
  <2>2. CASE s # t
    BY <1>1, <1>2, <2>1, <2>2
  <2>3. CASE s = t
    <3> HIDE DEF Claim
    <3> QED BY <1>3, <1>4, <1>5, <2>1, <2>3
  <2> QED BY <2>2, <2>3
<1> QED
  BY <1>6, <1>7

(* What a step does to lists, sessions and the store together.             *)
Given(s) == Free(s) \cup {StepName(s)}

Moves(s) == UNCHANGED <<session, store>> /\ (Same(s) \/ Skip(s) \/ Trim(s))
Begins(s) ==
  /\ UNCHANGED store
  /\ \/ UNCHANGED <<checkpoints, session>>
     \/ Clear(s) /\ \E i : session' = [session EXCEPT ![s] = i]
Fails(s, name) ==
  /\ UNCHANGED store \/ Writes(name)
  /\ \/ Skip(s)
     \/ \E c \in Commands \cup {None}, g \in Guests : Checkpointed(s, c, None, g) /\ Count(s)
Takes(s, name) ==
  \E c \in Commands \cup {None}, g \in Guests :
    Checkpointed(s, c, name, g) /\ Count(s) /\ Save(g, name)
Snaps(s) ==
  client[s] /\ UNCHANGED session /\ \E name \in Given(s) : Fails(s, name) \/ Takes(s, name)

LEMMA StepCases ==
  ASSUME TypeInv, Next
  PROVE  \E s \in Sandboxes : Moves(s) \/ Begins(s) \/ Snaps(s)
<1> USE DEF TypeInv
<1>1. ASSUME NEW s \in Sandboxes, NEW b, Start(s, b) \/ StartFails(s, b)
      PROVE  Begins(s)
  BY <1>1 DEF Start, StartFails, NewSession, Begins, Clear
<1>2. ASSUME NEW s \in Sandboxes, Stop(s)
      PROVE  Moves(s)
  BY <1>2 DEF Stop, Moves, Same
<1>3. ASSUME NEW s \in Sandboxes, NEW c \in Commands, RunUnrecorded(s, c) \/ RunUnanswered(s, c)
      PROVE  Moves(s)
  BY <1>3 DEF RunUnrecorded, RunUnanswered, Moves, Same
<1>4. ASSUME NEW s \in Sandboxes, NEW c \in Commands, Run(s, c) \/ RunSnapshotFails(s, c)
      PROVE  Snaps(s)
  <2> DEFINE g == Effect(guest[s], c)
  <2>1. g \in Guests /\ StepName(s) \in Names /\ StepName(s) \in Given(s)
    BY EffectType, NamesType DEF GuestInv, Given
  <2>2. client[s] /\ UNCHANGED session /\ Count(s)
    BY <1>4 DEF Run, RunSnapshotFails, CanRun
  <2>3. ASSUME Run(s, c)
        PROVE  \/ Checkpointed(s, c, None, g) /\ UNCHANGED store
               \/ Checkpointed(s, c, StepName(s), g) /\ Save(g, StepName(s))
    BY <2>3 DEF Run
  <2>4. ASSUME RunSnapshotFails(s, c)
        PROVE  Checkpointed(s, c, None, g) /\ Writes(StepName(s))
    <3>1. Checkpointed(s, c, None, g) /\ SaveFails(g, StepName(s))
      BY <2>4 DEF RunSnapshotFails
    <3> HIDE DEF g
    <3> QED BY <2>1, <3>1, SaveWrites
  <2> HIDE DEF g
  <2>5. Fails(s, StepName(s)) \/ Takes(s, StepName(s))
    BY <1>4, <2>1, <2>2, <2>3, <2>4 DEF Fails, Takes
  <2> QED BY <2>1, <2>2, <2>5 DEF Snaps
<1>5. ASSUME NEW s \in Sandboxes, NEW name \in Free(s),
             Checkpoint(s, name) \/ CheckpointFails(s, name)
      PROVE  Snaps(s)
  <2>1. guest[s] \in Guests /\ name \in Names /\ name \in Given(s)
    BY NamesType DEF GuestInv, Given
  <2>2. client[s] /\ UNCHANGED session /\ Count(s)
    BY <1>5 DEF Checkpoint, CheckpointFails, CanCheckpoint
  <2>3. Checkpoint(s, name) => Checkpointed(s, None, name, guest[s]) /\ Save(guest[s], name)
    BY DEF Checkpoint
  <2>4. ASSUME CheckpointFails(s, name)
        PROVE  Skip(s) /\ (UNCHANGED store \/ Writes(name))
    <3>1. Skip(s) /\ (UNCHANGED store \/ SaveFails(guest[s], name))
      BY <2>4 DEF CheckpointFails, Skip
    <3> QED BY <2>1, <3>1, SaveWrites
  <2>5. Fails(s, name) \/ Takes(s, name)
    BY <1>5, <2>1, <2>2, <2>3, <2>4 DEF Fails, Takes
  <2> QED BY <2>1, <2>2, <2>5 DEF Snaps
<1>6. ASSUME NEW s \in Sandboxes, NEW k \in 1 .. counter[s],
             Load(s, k) \/ LoadFails(s, k) \/ Replay(s, k)
      PROVE  Moves(s)
  BY <1>6 DEF Load, LoadFails, Replay, Moves, Same, Trim
<1> QED
  BY <1>1, <1>2, <1>3, <1>4, <1>5, <1>6 DEF Next

LEMMA GivenNames ==
  ASSUME FlagInv, NEW s \in Sandboxes, NEW name \in Given(s)
  PROVE  /\ name \in Names
         /\ \/ name.kind = "user" /\ ~Held(name)
            \/ name.kind # "user" /\ name.of = session[s] /\ name.n = counter[s] + 1
<1>1. name \in Names
  BY NamesType DEF Given
<1>2. CASE name = StepName(s) \/ name = ManualName(s)
  BY <1>1, <1>2 DEF StepName, ManualName, Name
<1>3. CASE \E n \in UserNames : name = NamedBy(s, n) /\ ~Held(name)
  BY <1>1, <1>3 DEF NamedBy, Name
<1> QED
  BY <1>1, <1>2, <1>3 DEF Given, Free

LEMMA NamesStep ==
  ASSUME OrderInv, NamesInv, [Next]_vars
  PROVE  NamesInv'
<1> USE DEF OrderInv
<1>1. ASSUME NEW s \in Sandboxes, UNCHANGED session, Same(s) \/ Skip(s)
      PROVE  NamesInv'
  BY <1>1 DEF Same, Skip, NamesInv
<1>2. ASSUME NEW s \in Sandboxes, UNCHANGED session, Trim(s)
      PROVE  NamesInv'
  <2>1. PICK k \in 1 .. counter[s] : AtStep(s, k) # {} /\ TrimTo(s, k)
    BY <1>2 DEF Trim
  <2>2. OthersKeep(s)
    BY <2>1, TrimKeepsPrefix
  <2>3. PICK m \in DOMAIN checkpoints[s] :
          /\ DOMAIN checkpoints'[s] = 1 .. m
          /\ \A j \in 1 .. m : j \in DOMAIN checkpoints[s]
                               /\ checkpoints'[s][j] = checkpoints[s][j]
    BY <2>1, TrimKeepsPrefix
  <2> QED BY <1>2, <2>2, <2>3 DEF NamesInv, OthersKeep
<1>3. ASSUME NEW s \in Sandboxes, UNCHANGED session,
             NEW c, NEW name, NEW g, Checkpointed(s, c, name, g), Count(s),
             name \in Given(s) \cup {None}
      PROVE  NamesInv'
  <2> DEFINE n == Len(checkpoints[s])
  <2>1. /\ OthersKeep(s) /\ DOMAIN checkpoints'[s] = 1 .. (n + 1)
        /\ checkpoints'[s][n + 1] = NewRecord(s, c, name, g)
        /\ \A j \in DOMAIN checkpoints[s] : checkpoints'[s][j] = checkpoints[s][j]
    BY <1>3, AddAppends
  <2>2. n \in Nat /\ DOMAIN checkpoints[s] = 1 .. n
    BY ListIndices DEF TypeInv
  <2>3. Own(NewRecord(s, c, name, g), session[s])
    BY <1>3, GivenNames DEF Own, NewRecord, TypeInv
  <2> HIDE DEF n
  <2>4. \A i \in DOMAIN checkpoints'[s] : Own(checkpoints'[s][i], session[s])
    <3> SUFFICES ASSUME NEW i \in 1 .. (n + 1)
                 PROVE  Own(checkpoints'[s][i], session[s])
      BY <2>1
    <3>1. i \in 1 .. n \/ i = n + 1
      BY <2>2
    <3> QED BY <2>1, <2>2, <2>3, <3>1 DEF NamesInv
  <2> QED BY <1>3, <2>1, <2>4 DEF NamesInv, OthersKeep
<1>4. ASSUME NEW s \in Sandboxes, Begins(s)
      PROVE  NamesInv'
  <2>1. CASE UNCHANGED <<checkpoints, session>>
    BY <2>1 DEF NamesInv
  <2>2. CASE Clear(s) /\ \E i : session' = [session EXCEPT ![s] = i]
    <3>1. DOMAIN checkpoints'[s] = {}
          /\ \A t \in Sandboxes \ {s} : checkpoints'[t] = checkpoints[t] /\ session'[t] = session[t]
      BY <2>2 DEF Clear, TypeInv, FlagInv, ListInv
    <3> QED BY <3>1 DEF NamesInv
  <2> QED BY <1>4, <2>1, <2>2 DEF Begins
<1>5. ASSUME NEW s \in Sandboxes, Snaps(s)
      PROVE  NamesInv'
  BY <1>1, <1>3, <1>5 DEF Snaps, Fails, Takes
<1>6. CASE UNCHANGED vars
  BY <1>6 DEF vars, NamesInv
<1> QED
  BY <1>1, <1>2, <1>4, <1>5, <1>6, StepCases DEF Moves

(* A name a snapshot is about to get is held by no checkpoint.             *)
LEMMA FreshName ==
  ASSUME Apart, OrderInv, SessionInv, NamesInv,
         NEW s \in Sandboxes, client[s], NEW name \in Given(s)
  PROVE  ~Held(name)
<1> USE DEF OrderInv
<1> SUFFICES ASSUME NEW t \in Sandboxes, NEW i \in DOMAIN checkpoints[t],
                    checkpoints[t][i].snapshot = name
             PROVE  FALSE
  BY DEF Held
<1>1. name.kind # "user" /\ name.of = session[s] /\ name.n = counter[s] + 1
      /\ name \in Names
  <2>1. Held(name)
    BY DEF Held
  <2> QED BY <2>1, GivenNames DEF TypeInv
<1>2. name # None
  BY <1>1, TimeTravelAssumption
<1>3. session[t] = session[s] /\ checkpoints[t][i].step = counter[s] + 1
  BY <1>1, <1>2 DEF NamesInv, Own
<1>4. s = t
  <2>1. CASE Record
    <3>1. session[s] \in {s} \X Nat
      BY <2>1 DEF SessionInv
    <3>2. checkpoints[t] # <<>>
      BY ListIndices DEF TypeInv
    <3>3. session[t] \in {t} \X Nat
      BY <2>1, <3>2 DEF SessionInv
    <3> QED BY <1>3, <3>1, <3>3
  <2>2. CASE ~Record
    BY <2>2 DEF Apart
  <2> QED BY <2>1, <2>2
<1>5. checkpoints[t][i].step <= counter[t] /\ counter[t] \in Nat
  BY DEF StepsIncrease, TypeInv, FlagInv
<1> QED
  BY <1>3, <1>4, <1>5

(* What CheckpointsRestorable says of one checkpoint.                      *)
Good(cp) ==
  cp.snapshot # None =>
    Restorable(cp.snapshot) /\ Entry(cp.snapshot).mem = cp.was.mem
      /\ Entry(cp.snapshot).disk = cp.was.disk

Has(cp) == \E s \in Sandboxes : \E i \in DOMAIN checkpoints[s] : checkpoints[s][i] = cp

GoodInv == \A cp \in CheckpointRecords : Has(cp) => Good(cp)

LEMMA GoodMeans == ListInv /\ GoodInv => CheckpointsRestorable
<1> SUFFICES ASSUME ListInv, GoodInv, NEW s \in Sandboxes, NEW i \in DOMAIN checkpoints[s]
             PROVE  Good(checkpoints[s][i])
  BY DEF CheckpointsRestorable, Good
<1>1. checkpoints[s][i] \in CheckpointRecords
  BY ListIndices
<1>2. Has(checkpoints[s][i])
  BY DEF Has
<1> QED
  BY <1>1, <1>2 DEF GoodInv

(* A step that takes no checkpoint brings none into a list.                *)
LEMMA HadBefore ==
  ASSUME OrderInv, NEW s \in Sandboxes,
         Same(s) \/ Clear(s) \/ Skip(s) \/ Trim(s) \/ UNCHANGED checkpoints,
         NEW cp, Has(cp)'
  PROVE  Has(cp)
<1> USE DEF OrderInv
<1>1. PICK t \in Sandboxes : \E i \in DOMAIN checkpoints'[t] : checkpoints'[t][i] = cp
  BY DEF Has
<1>2. CASE Same(s) \/ Skip(s) \/ UNCHANGED checkpoints
  BY <1>2 DEF Same, Skip, Has
<1>3. CASE Clear(s)
  <2>1. DOMAIN checkpoints'[s] = {}
        /\ \A u \in Sandboxes \ {s} : checkpoints'[u] = checkpoints[u]
    BY <1>3 DEF Clear, TypeInv, ListInv
  <2> QED BY <1>1, <2>1 DEF Has
<1>4. CASE Trim(s)
  <2>1. PICK k \in 1 .. counter[s] : AtStep(s, k) # {} /\ TrimTo(s, k)
    BY <1>4 DEF Trim
  <2>2. OthersKeep(s)
    BY <2>1, TrimKeepsPrefix
  <2>3. PICK m \in DOMAIN checkpoints[s] :
          /\ DOMAIN checkpoints'[s] = 1 .. m
          /\ \A j \in 1 .. m : j \in DOMAIN checkpoints[s]
                               /\ checkpoints'[s][j] = checkpoints[s][j]
    BY <2>1, TrimKeepsPrefix
  <2> QED BY <1>1, <2>2, <2>3 DEF Has, OthersKeep
<1> QED
  BY <1>2, <1>3, <1>4

LEMMA HadOrNew ==
  ASSUME OrderInv, NEW s \in Sandboxes, NEW c, NEW name, NEW g,
         Checkpointed(s, c, name, g), Count(s), NEW cp, Has(cp)'
  PROVE  Has(cp) \/ cp = NewRecord(s, c, name, g)
<1> DEFINE n == Len(checkpoints[s])
<1>0. PICK t \in Sandboxes : \E i \in DOMAIN checkpoints'[t] : checkpoints'[t][i] = cp
  BY DEF Has
<1>1. PICK i \in DOMAIN checkpoints'[t] : checkpoints'[t][i] = cp
  BY <1>0
<1>2. /\ OthersKeep(s) /\ DOMAIN checkpoints'[s] = 1 .. (n + 1)
      /\ checkpoints'[s][n + 1] = NewRecord(s, c, name, g)
      /\ \A j \in DOMAIN checkpoints[s] : checkpoints'[s][j] = checkpoints[s][j]
  BY AddAppends DEF OrderInv
<1>3. n \in Nat /\ DOMAIN checkpoints[s] = 1 .. n
  BY ListIndices DEF OrderInv, TypeInv
<1> HIDE DEF n
<1>4. CASE t # s
  BY <1>1, <1>2, <1>4 DEF Has, OthersKeep
<1>5. CASE t = s /\ i \in 1 .. n
  BY <1>1, <1>2, <1>3, <1>5 DEF Has
<1>6. CASE t = s /\ i = n + 1
  BY <1>1, <1>2, <1>6
<1>7. t = s => i \in 1 .. n \/ i = n + 1
  BY <1>1, <1>2, <1>3
<1> QED
  BY <1>4, <1>5, <1>6, <1>7

LEMMA GoodKept ==
  ASSUME NEW cp, Good(cp), NEW name, NEW e, cp.snapshot # name,
         store' = Stored(name, e)
  PROVE  Good(cp)'
<1>1. Entry(cp.snapshot)' = Entry(cp.snapshot)
  <2>1. DOMAIN store' = DOMAIN store \cup {name}
        /\ \A m \in DOMAIN store' : store'[m] = IF m = name THEN e ELSE store[m]
    BY DEF Stored
  <2> QED BY <2>1 DEF Entry
<1> QED
  BY <1>1 DEF Good, Restorable

LEMMA GoodTaken ==
  ASSUME NEW s, NEW c, NEW name, NEW g \in Guests, Save(g, name)
  PROVE  \A cp : cp = NewRecord(s, c, name, g) => Good(cp)'
<1>1. g.mem \in States /\ g.disk \in States /\ None \notin States
  BY TimeTravelAssumption DEF Guests
<1>2. Entry(name)' = Snapshot(g)
  <2>1. name \in DOMAIN store' /\ store'[name] = Snapshot(g)
    BY DEF Save, Stored
  <2> QED BY <2>1 DEF Entry
<1>3. /\ Entry(name)'.mem = g.mem /\ Entry(name)'.disk = g.disk /\ Entry(name)'.meta
      /\ g.mem # None /\ g.disk # None
  BY <1>1, <1>2 DEF Snapshot
<1>4. Restorable(name)'
  BY <1>3 DEF Restorable
<1> TAKE cp
<1> HAVE cp = NewRecord(s, c, name, g)
<1>5. cp.snapshot = name /\ cp.was.mem = g.mem /\ cp.was.disk = g.disk
  BY DEF NewRecord
<1> QED
  BY <1>3, <1>4, <1>5 DEF Good

LEMMA GoodStep ==
  ASSUME Apart, OrderInv, SessionInv, NamesInv, GoodInv, [Next]_vars
  PROVE  GoodInv'
<1> SUFFICES ASSUME NEW cp \in CheckpointRecords, Has(cp)'
             PROVE  Good(cp)'
  BY DEF GoodInv
<1>1. ASSUME Has(cp), UNCHANGED store
      PROVE  Good(cp)'
  BY <1>1 DEF GoodInv, Good, Restorable, Entry
<1>2. ASSUME NEW s \in Sandboxes, client[s], NEW name \in Given(s), Has(cp), Writes(name)
      PROVE  Good(cp)'
  <2>1. cp.snapshot # name
    BY <1>2, FreshName DEF Has, Held
  <2>2. PICK e : store' = Stored(name, e)
    BY <1>2 DEF Writes
  <2> QED BY <1>2, <2>1, <2>2, GoodKept DEF GoodInv
<1>3. ASSUME NEW s \in Sandboxes, client[s], NEW name \in Given(s), Fails(s, name)
      PROVE  Good(cp)'
  <2>1. CASE Skip(s)
    <3>1. Has(cp)
      BY <2>1, HadBefore
    <3> QED BY <1>1, <1>2, <1>3, <3>1 DEF Fails
  <2>2. CASE \E c \in Commands \cup {None}, g \in Guests : Checkpointed(s, c, None, g) /\ Count(s)
    <3>1. PICK c \in Commands \cup {None}, g \in Guests : Checkpointed(s, c, None, g) /\ Count(s)
      BY <2>2
    <3>2. Has(cp) \/ cp = NewRecord(s, c, None, g)
      BY <3>1, HadOrNew
    <3>3. cp = NewRecord(s, c, None, g) => Good(cp)'
      BY DEF NewRecord, Good
    <3> QED BY <1>1, <1>2, <1>3, <3>2, <3>3 DEF Fails
  <2> QED BY <1>3, <2>1, <2>2 DEF Fails
<1>4. ASSUME NEW s \in Sandboxes, client[s], NEW name \in Given(s), Takes(s, name)
      PROVE  Good(cp)'
  <2>1. PICK c \in Commands \cup {None}, g \in Guests :
          Checkpointed(s, c, name, g) /\ Count(s) /\ Save(g, name)
    BY <1>4 DEF Takes
  <2>2. Has(cp) \/ cp = NewRecord(s, c, name, g)
    BY <2>1, HadOrNew
  <2>3. name \in Names /\ StoreInv
    BY GivenNames DEF OrderInv, TypeInv
  <2>4. Writes(name)
    BY <2>1, <2>3, SaveWrites
  <2>5. cp = NewRecord(s, c, name, g) => Good(cp)'
    BY <2>1, GoodTaken
  <2> QED BY <1>2, <1>4, <2>2, <2>4, <2>5
<1>5. ASSUME NEW s \in Sandboxes, Moves(s) \/ Begins(s)
      PROVE  Good(cp)'
  <2>1. UNCHANGED store
        /\ (Same(s) \/ Clear(s) \/ Skip(s) \/ Trim(s) \/ UNCHANGED checkpoints)
    BY <1>5 DEF Moves, Begins
  <2> QED BY <1>1, <2>1, HadBefore
<1>6. CASE UNCHANGED vars
  <2>1. Has(cp) /\ UNCHANGED store
    BY <1>6 DEF vars, Has
  <2> QED BY <1>1, <2>1
<1> QED
  BY <1>3, <1>4, <1>5, <1>6, StepCases DEF Snaps, OrderInv

TravelInv == OrderInv /\ SessionInv /\ NamesInv /\ GoodInv

LEMMA InitTravel == Init => TravelInv
<1> SUFFICES ASSUME Init
             PROVE  TravelInv
  OBVIOUS
<1>1. SessionInv /\ NamesInv /\ GoodInv
  BY DEF Init, SessionInv, NamesInv, GoodInv, Has
<1> QED
  BY <1>1, InitOrder DEF TravelInv

LEMMA TravelStep == Apart /\ TravelInv /\ [Next]_vars => TravelInv'
BY TypeStep, OrderStep, SessionStep, NamesStep, GoodStep DEF TravelInv, OrderInv

(* A checkpoint that names a snapshot can be returned to exactly, whatever *)
(* failed, was restored or started again since: for any number of          *)
(* recording sandboxes, or a single one.                                   *)
THEOREM SnapshotsKept ==
  ASSUME Apart
  PROVE  Spec => []CheckpointsRestorable
<1>1. TravelInv /\ [Next]_vars => TravelInv'
  BY TravelStep
<1>2. TravelInv => CheckpointsRestorable
  BY GoodMeans DEF TravelInv, OrderInv, TypeInv
<1> QED
  BY InitTravel, <1>1, <1>2, PTL DEF Spec

(* A restore that loads a snapshot puts back the recorded state.           *)
THEOREM LoadsExactly ==
  ASSUME Apart
  PROVE  Spec => LoadExact
<1> DEFINE Exact == \A s \in Sandboxes, k \in 1 .. MaxSteps :
                      Load(s, k) =>
                        LET was == Found(s, k).was
                        IN  guest'[s].mem = was.mem /\ guest'[s].disk = was.disk
<1>1. ASSUME TravelInv
      PROVE  Exact
  <2> SUFFICES ASSUME NEW s \in Sandboxes, NEW k \in 1 .. MaxSteps, Load(s, k)
               PROVE  /\ guest'[s].mem = Found(s, k).was.mem
                      /\ guest'[s].disk = Found(s, k).was.disk
    OBVIOUS
  <2>1. k \in Nat /\ AtStep(s, k) # {}
    BY TimeTravelAssumption DEF Load
  <2>2. PICK i \in DOMAIN checkpoints[s] : Found(s, k) = checkpoints[s][i]
    BY <1>1, <2>1, FoundType DEF TravelInv, OrderInv, TypeInv
  <2>3. CheckpointsRestorable
    BY <1>1, GoodMeans DEF TravelInv, OrderInv, TypeInv
  <2>4. Found(s, k).snapshot # None
    BY DEF Load, HasSnapshot
  <2>5. /\ Entry(Found(s, k).snapshot).mem = Found(s, k).was.mem
        /\ Entry(Found(s, k).snapshot).disk = Found(s, k).was.disk
    BY <2>2, <2>3, <2>4 DEF CheckpointsRestorable
  <2>6. guest[s] \in Guests /\ guest \in [Sandboxes -> Guests]
    BY <1>1 DEF TravelInv, OrderInv, TypeInv, GuestInv
  <2>7. /\ guest'[s].mem = Entry(Found(s, k).snapshot).mem
        /\ guest'[s].disk = Entry(Found(s, k).snapshot).disk
    BY <2>6 DEF Load, Guests
  <2> QED BY <2>5, <2>7
<1>2. TravelInv /\ [Next]_vars => TravelInv'
  BY TravelStep
<1>3. TravelInv /\ [Next]_vars => [Exact]_vars
  BY <1>1
<1> QED
  <2> HIDE DEF Exact
  <2>1. Spec => [][Exact]_vars
    BY InitTravel, <1>2, <1>3, PTL DEF Spec
  <2> QED BY <2>1 DEF LoadExact, Exact

(* ------------------------- Replaying commands -------------------------- *)

(* The Python commands of the first n checkpoints of a list.               *)
PyIn(q, n) == {i \in 1 .. n : q[i].command \in Python}
CommandsOf(p) == [j \in DOMAIN p |-> p[j].command]
Py(q, n) == CommandsOf(Picked(q, PyIn(q, n)))

LEMMA PySame ==
  ASSUME NEW n \in Nat, NEW p, NEW q, \A i \in 1 .. n : p[i] = q[i]
  PROVE  Py(p, n) = Py(q, n)
<1>1. PyIn(p, n) = PyIn(q, n)
  BY DEF PyIn
<1>2. PyIn(q, n) \in SUBSET (1 .. n) /\ \A i \in PyIn(q, n) : p[i] = q[i]
  BY DEF PyIn
<1>3. Picked(p, PyIn(q, n)) = Picked(q, PyIn(q, n))
  BY <1>2, PickedSame
<1> QED
  BY <1>1, <1>3 DEF Py

LEMMA PyNone ==
  ASSUME NEW q
  PROVE  Py(q, 0) = <<>>
<1>1. PyIn(q, 0) = {}
  BY DEF PyIn
<1>2. Cardinality({}) = 0
  BY FS_EmptySet
<1>3. DOMAIN Picked(q, {}) = 1 .. 0
  BY <1>2 DEF Picked
<1>4. CommandsOf(Picked(q, {})) \in Seq({}) /\ Len(CommandsOf(Picked(q, {}))) = 0
  <2>1. CommandsOf(Picked(q, {})) \in [1 .. 0 -> {}]
    BY <1>3 DEF CommandsOf
  <2> QED BY <2>1
<1>5. CommandsOf(Picked(q, {})) = <<>>
  BY <1>4
<1> QED
  BY <1>1, <1>5 DEF Py

LEMMA CommandsOfMore ==
  ASSUME NEW p \in Seq(CheckpointRecords), NEW e \in CheckpointRecords
  PROVE  CommandsOf(Append(p, e)) = Append(CommandsOf(p), e.command)
<1> DEFINE n == Len(p)
           T == Commands \cup {None}
<1>1. n \in Nat /\ DOMAIN p = 1 .. n /\ \A j \in 1 .. n : p[j] \in CheckpointRecords
  OBVIOUS
<1>2. \A cp \in CheckpointRecords : cp.command \in T
  BY DEF CheckpointRecords
<1> HIDE DEF n, T, CheckpointRecords
<1>3. CommandsOf(p) \in Seq(T) /\ Len(CommandsOf(p)) = n
  BY <1>1, <1>2 DEF CommandsOf
<1>4. /\ Append(p, e) \in Seq(CheckpointRecords) /\ Len(Append(p, e)) = n + 1
      /\ DOMAIN Append(p, e) = 1 .. (n + 1) /\ Append(p, e)[n + 1] = e
      /\ \A j \in 1 .. n : Append(p, e)[j] = p[j]
  <2>1. Append(p, e) \in Seq(CheckpointRecords) /\ Len(Append(p, e)) = n + 1
    BY DEF n
  <2>2. DOMAIN Append(p, e) = 1 .. (n + 1)
    BY <2>1
  <2>3. Append(p, e)[n + 1] = e
    BY <1>1 DEF n
  <2>4. \A j \in 1 .. n : Append(p, e)[j] = p[j]
    BY <1>1 DEF n
  <2> QED BY <2>1, <2>2, <2>3, <2>4
<1>5. \A j \in 1 .. (n + 1) : Append(p, e)[j] \in CheckpointRecords
  BY <1>4
<1>6. /\ CommandsOf(Append(p, e)) \in Seq(T) /\ Len(CommandsOf(Append(p, e))) = n + 1
      /\ \A j \in 1 .. (n + 1) : CommandsOf(Append(p, e))[j] = Append(p, e)[j].command
  BY <1>1, <1>2, <1>4, <1>5 DEF CommandsOf
<1>7. /\ Append(CommandsOf(p), e.command) \in Seq(T)
      /\ Len(Append(CommandsOf(p), e.command)) = n + 1
      /\ Append(CommandsOf(p), e.command)[n + 1] = e.command
      /\ \A j \in 1 .. n : Append(CommandsOf(p), e.command)[j] = p[j].command
  BY <1>1, <1>2, <1>3 DEF CommandsOf
<1>8. ASSUME NEW j \in 1 .. (n + 1)
      PROVE  CommandsOf(Append(p, e))[j] = Append(CommandsOf(p), e.command)[j]
  <2>1. j \in 1 .. n \/ j = n + 1
    BY <1>1
  <2> QED BY <2>1, <1>4, <1>6, <1>7
<1> QED
  BY <1>6, <1>7, <1>8

LEMMA PyMore ==
  ASSUME NEW q \in Seq(CheckpointRecords), NEW n \in Nat, n + 1 \in DOMAIN q
  PROVE  Py(q, n + 1) = IF q[n + 1].command \in Python
                        THEN Append(Py(q, n), q[n + 1].command) ELSE Py(q, n)
<1>1. PyIn(q, n) \in SUBSET (1 .. n) /\ PyIn(q, n) \in SUBSET DOMAIN q
      /\ q[n + 1] \in CheckpointRecords
  BY DEF PyIn
<1>2. CASE q[n + 1].command \in Python
  <2>1. PyIn(q, n + 1) = PyIn(q, n) \cup {n + 1}
    BY <1>2 DEF PyIn
  <2>2. Picked(q, PyIn(q, n + 1)) = Append(Picked(q, PyIn(q, n)), q[n + 1])
    BY <1>1, <2>1, PickedMore
  <2>3. Picked(q, PyIn(q, n)) \in Seq(CheckpointRecords)
    BY <1>1, PickedSeq
  <2> QED BY <1>1, <1>2, <2>2, <2>3, CommandsOfMore DEF Py
<1>3. CASE q[n + 1].command \notin Python
  <2>1. PyIn(q, n + 1) = PyIn(q, n)
    BY <1>3 DEF PyIn
  <2> QED BY <1>3, <2>1 DEF Py
<1> QED
  BY <1>2, <1>3

LEMMA RecordedIsPy ==
  ASSUME NEW s, NEW k, NEW m, UpTo(s, k) = 1 .. m
  PROVE  Recorded(s, k) = Py(checkpoints[s], m)
BY DEF Recorded, Py, PyIn, CommandsOf

(* Of one sandbox that records, or did: the namespace a step saw is made by*)
(* the commands of the list up to it, and while it records, so is the one  *)
(* it has.  A checkpoint of a directory has its snapshot.                  *)
Rebuilt(s) ==
  /\ \A i \in DOMAIN checkpoints[s] :
       record[s] \/ checkpoints[s][i].command # None
         => checkpoints[s][i].was.mem = Py(checkpoints[s], i)
  /\ record[s] /\ client[s] => guest[s].mem = Py(checkpoints[s], Len(checkpoints[s]))

Equipped(s) ==
  /\ client[s] <=> guest[s].up # "off"
  /\ client[s] => guest[s].runner
  /\ backend[s] = None => checkpoints[s] = <<>> /\ ~client[s]
  /\ backend[s] = "local" =>
       \A i \in DOMAIN checkpoints[s] : checkpoints[s][i].snapshot # None

ReplayInv == \A s \in Sandboxes : Rebuilt(s) /\ Equipped(s)

(* A step of another sandbox.                                              *)
SameFor(t) ==
  /\ client'[t] = client[t] /\ record'[t] = record[t] /\ guest'[t] = guest[t]
  /\ backend'[t] = backend[t] /\ checkpoints'[t] = checkpoints[t]

LEMMA OthersSame ==
  ASSUME TypeInv, NEW s \in Sandboxes, NEW t \in Sandboxes, s # t,
         \/ \E b : Start(s, b) \/ StartFails(s, b)
         \/ Stop(s)
         \/ \E c : RunUnrecorded(s, c) \/ Run(s, c) \/ RunSnapshotFails(s, c)
                     \/ RunUnanswered(s, c)
         \/ \E name : Checkpoint(s, name) \/ CheckpointFails(s, name)
         \/ \E k : Load(s, k) \/ LoadFails(s, k) \/ Replay(s, k)
  PROVE  SameFor(t)
<1> USE DEF TypeInv, FlagInv, GuestInv, ListInv, SameFor
<1>1. ASSUME NEW b, Start(s, b) \/ StartFails(s, b)
      PROVE  SameFor(t)
  BY <1>1 DEF Start, StartFails, NewSession, Chooses
<1>2. ASSUME Stop(s)
      PROVE  SameFor(t)
  BY <1>2 DEF Stop
<1>3. ASSUME NEW c, RunUnrecorded(s, c) \/ Run(s, c) \/ RunUnanswered(s, c)
      PROVE  SameFor(t)
  BY <1>3 DEF RunUnrecorded, Run, RunUnanswered, Checkpointed
<1>4. ASSUME NEW c, RunSnapshotFails(s, c)
      PROVE  SameFor(t)
  BY <1>4 DEF RunSnapshotFails, Checkpointed
<1>5. ASSUME NEW name, Checkpoint(s, name) \/ CheckpointFails(s, name)
      PROVE  SameFor(t)
  BY <1>5 DEF Checkpoint, CheckpointFails, Checkpointed
<1>6. ASSUME NEW k, Load(s, k)
      PROVE  SameFor(t)
  BY <1>6 DEF Load, TrimTo
<1>7. ASSUME NEW k, LoadFails(s, k)
      PROVE  SameFor(t)
  BY <1>7 DEF LoadFails
<1>8. ASSUME NEW k, Replay(s, k)
      PROVE  SameFor(t)
  BY <1>8 DEF Replay, TrimTo
<1> QED
  BY <1>1, <1>2, <1>3, <1>4, <1>5, <1>6, <1>7, <1>8

(* A list that is cut to its first m checkpoints.                          *)
LEMMA RebuiltCut ==
  ASSUME TypeInv, NEW s \in Sandboxes, NEW m \in DOMAIN checkpoints[s],
         \A i \in DOMAIN checkpoints[s] :
           record[s] \/ checkpoints[s][i].command # None
             => checkpoints[s][i].was.mem = Py(checkpoints[s], i),
         record'[s] = record[s],
         Len(checkpoints'[s]) = m, DOMAIN checkpoints'[s] = 1 .. m,
         \A j \in 1 .. m : j \in DOMAIN checkpoints[s] /\ checkpoints'[s][j] = checkpoints[s][j],
         record[s] => guest'[s].mem = Py(checkpoints[s], m)
  PROVE  Rebuilt(s)'
<1>1. m \in Nat
  BY ListIndices DEF TypeInv
<1>2. ASSUME NEW i \in 1 .. m
      PROVE  Py(checkpoints'[s], i) = Py(checkpoints[s], i)
  <2>1. i \in Nat /\ \A j \in 1 .. i : checkpoints'[s][j] = checkpoints[s][j]
    BY <1>1
  <2> QED BY <2>1, PySame
<1>3. m \in 1 .. m
  BY <1>1, ListIndices DEF TypeInv
<1>4. ASSUME record[s]
      PROVE  guest'[s].mem = Py(checkpoints'[s], Len(checkpoints'[s]))
  BY <1>2, <1>3, <1>4
<1>5. ASSUME NEW i \in DOMAIN checkpoints'[s],
             record'[s] \/ checkpoints'[s][i].command # None
      PROVE  checkpoints'[s][i].was.mem = Py(checkpoints'[s], i)
  BY <1>2, <1>5
<1> QED
  BY <1>4, <1>5 DEF Rebuilt

(* A list that gets one checkpoint more.                                   *)
LEMMA RebuiltMore ==
  ASSUME TypeInv, ListInv', NEW s \in Sandboxes, Rebuilt(s), client[s],
         NEW c \in Commands \cup {None}, NEW name, NEW g,
         Checkpointed(s, c, name, g), Count(s),
         record'[s] = record[s], guest'[s].mem = g.mem, ~record[s] => c = None,
         g.mem = IF c \in Python THEN Append(guest[s].mem, c) ELSE guest[s].mem
  PROVE  Rebuilt(s)'
<1> DEFINE n == Len(checkpoints[s])
           q == checkpoints'[s]
<1>1. /\ q = Append(checkpoints[s], NewRecord(s, c, name, g))
      /\ DOMAIN q = 1 .. (n + 1) /\ q[n + 1] = NewRecord(s, c, name, g)
      /\ \A j \in DOMAIN checkpoints[s] : q[j] = checkpoints[s][j]
  BY AddAppends
<1>2. n \in Nat /\ DOMAIN checkpoints[s] = 1 .. n /\ checkpoints[s] \in Seq(CheckpointRecords)
  BY ListIndices DEF TypeInv
<1>3. q \in Seq(CheckpointRecords)
  BY DEF ListInv
<1>4. q[n + 1].command = c /\ q[n + 1].was.mem = g.mem
  BY <1>1 DEF NewRecord
<1>5. Len(q) = n + 1
  BY <1>1, <1>2
<1> HIDE DEF n, q
<1>6. ASSUME NEW i \in 0 .. n
      PROVE  Py(q, i) = Py(checkpoints[s], i)
  <2>1. i \in Nat /\ \A j \in 1 .. i : q[j] = checkpoints[s][j]
    BY <1>1, <1>2
  <2> QED BY <2>1, PySame
<1>7. Py(q, n + 1) = IF c \in Python THEN Append(Py(q, n), c) ELSE Py(q, n)
  <2>1. n + 1 \in DOMAIN q
    BY <1>1, <1>2
  <2> QED BY <1>2, <1>3, <1>4, <2>1, PyMore
<1>8. ASSUME record[s]
      PROVE  g.mem = Py(q, n + 1)
  <2>1. guest[s].mem = Py(checkpoints[s], n)
    BY <1>8 DEF Rebuilt, n
  <2>2. Py(q, n) = Py(checkpoints[s], n)
    BY <1>2, <1>6
  <2> QED BY <1>7, <2>1, <2>2
<1>9. ASSUME NEW i \in 1 .. (n + 1), record[s] \/ q[i].command # None
      PROVE  q[i].was.mem = Py(q, i)
  <2>1. CASE i \in 1 .. n
    <3>1. i \in DOMAIN checkpoints[s] /\ q[i] = checkpoints[s][i] /\ i \in 0 .. n
      BY <1>1, <1>2, <2>1
    <3>2. checkpoints[s][i].was.mem = Py(checkpoints[s], i)
      BY <1>9, <3>1 DEF Rebuilt
    <3> QED BY <1>6, <3>1, <3>2
  <2>2. CASE i = n + 1
    BY <1>4, <1>8, <1>9, <2>2
  <2> QED BY <1>2, <2>1, <2>2
<1>10. record'[s] => guest'[s].mem = Py(q, Len(q))
  BY <1>5, <1>8
<1> QED
  BY <1>1, <1>9, <1>10 DEF Rebuilt, q

(* A replay that finds the runner starts, but in a directory, from nothing.*)
LEMMA ReplayedMem ==
  ASSUME GuestInv, ListInv, NEW s \in Sandboxes, NEW k, guest[s].runner, backend[s] # "local"
  PROVE  Replayed(s, k).mem = Recorded(s, k)
<1>1. guest[s] \in Guests
  BY DEF GuestInv
<1>2. <<>> \o Recorded(s, k) = Recorded(s, k)
  <2>1. Recorded(s, k) \in Seq(Commands)
    BY RecordedType DEF States
  <2> QED BY <2>1
<1>3. Replayed(s, k).mem = <<>> \o Recorded(s, k)
  BY <1>1 DEF Replayed, Guests
<1> QED
  BY <1>2, <1>3

LEMMA ReplayStep ==
  ASSUME ~Failures, Record, TravelInv, ReplayInv, [Next]_vars
  PROVE  ReplayInv'
<1> USE DEF TravelInv, OrderInv
<1> SUFFICES ASSUME NEW t \in Sandboxes
             PROVE  Rebuilt(t)' /\ Equipped(t)'
  BY DEF ReplayInv
<1>0. /\ Rebuilt(t) /\ Equipped(t) /\ TypeInv /\ TypeInv' /\ ListInv'
      /\ guest[t] \in Guests
  BY TypeStep DEF ReplayInv, TypeInv, GuestInv
<1>1. ASSUME SameFor(t)
      PROVE  Rebuilt(t)' /\ Equipped(t)'
  BY <1>0, <1>1 DEF SameFor, Rebuilt, Equipped
<1> USE TimeTravelAssumption DEF TypeInv
<1>2. ASSUME NEW b \in Backends, Start(t, b)
      PROVE  Rebuilt(t)' /\ Equipped(t)'
  <2>1. /\ client'[t] /\ guest'[t] = Fresh /\ backend'[t] = b /\ record'[t] = record[t]
        /\ backend[t] # None => (backend[t] = "local") = (b = "local")
    BY <1>2 DEF Start, Chooses, FlagInv, GuestInv
  <2>2. Fresh.up = "up" /\ Fresh.runner /\ Fresh.mem = <<>>
    BY DEF Fresh
  <2>3. CASE record[t]
    <3>1. checkpoints'[t] = <<>>
      BY <1>2, <2>3 DEF Start, NewSession, ListInv
    <3>2. Len(checkpoints'[t]) = 0 /\ DOMAIN checkpoints'[t] = {}
      BY <3>1
    <3> QED BY <2>1, <2>2, <3>2, PyNone DEF Rebuilt, Equipped
  <2>4. CASE ~record[t]
    <3>1. checkpoints'[t] = checkpoints[t]
      BY <1>2, <2>4 DEF Start, NewSession
    <3>2. b = "local" => \A i \in DOMAIN checkpoints[t] : checkpoints[t][i].snapshot # None
      BY <1>0, <2>1, ListIndices DEF Equipped
    <3>3. Rebuilt(t)'
      BY <1>0, <2>1, <2>4, <3>1 DEF Rebuilt
    <3>4. Equipped(t)'
      BY <2>1, <2>2, <3>1, <3>2 DEF Equipped
    <3> QED BY <3>3, <3>4
  <2> QED BY <2>3, <2>4
<1>3. ASSUME Stop(t)
      PROVE  Rebuilt(t)' /\ Equipped(t)'
  <2>1. /\ client'[t] = (guest[t].up = "off") /\ guest'[t] = NoGuest
        /\ record'[t] = (record[t] /\ checkpoints[t] = <<>>) /\ client[t]
        /\ backend'[t] = backend[t] /\ checkpoints'[t] = checkpoints[t]
    BY <1>3 DEF Stop, FlagInv, GuestInv
  <2>2. ~client'[t] /\ NoGuest.up = "off"
    BY <1>0, <2>1 DEF Equipped, NoGuest
  <2>3. Rebuilt(t)'
    BY <1>0, <2>1, <2>2 DEF Rebuilt
  <2>4. Equipped(t)'
    BY <1>0, <2>1, <2>2 DEF Equipped
  <2> QED BY <2>3, <2>4
<1>4. ASSUME NEW c \in Commands, RunUnrecorded(t, c)
      PROVE  Rebuilt(t)' /\ Equipped(t)'
  <2>1. /\ guest'[t] = Effect(guest[t], c) /\ ~record[t]
        /\ client'[t] = client[t] /\ record'[t] = record[t]
        /\ backend'[t] = backend[t] /\ checkpoints'[t] = checkpoints[t]
    BY <1>4 DEF RunUnrecorded, GuestInv
  <2>2. guest'[t].up = guest[t].up /\ guest'[t].runner = guest[t].runner
    BY <1>0, <2>1, EffectType
  <2>3. Rebuilt(t)'
    BY <1>0, <2>1 DEF Rebuilt
  <2>4. Equipped(t)'
    BY <1>0, <2>1, <2>2 DEF Equipped
  <2> QED BY <2>3, <2>4
<1>5. ASSUME NEW c \in Commands \cup {None}, NEW name \in Names \cup {None}, NEW g,
             Checkpointed(t, c, name, g), backend[t] = "local" => name \in Names,
             client[t], client'[t] = client[t], backend'[t] = backend[t],
             guest'[t].up # "off", guest'[t].runner = guest[t].runner, Count(t)
      PROVE  Equipped(t)'
  <2>1. /\ DOMAIN checkpoints'[t] = 1 .. (Len(checkpoints[t]) + 1)
        /\ checkpoints'[t][Len(checkpoints[t]) + 1] = NewRecord(t, c, name, g)
        /\ \A j \in DOMAIN checkpoints[t] : checkpoints'[t][j] = checkpoints[t][j]
    BY <1>5, AddAppends
  <2>2. Len(checkpoints[t]) \in Nat /\ DOMAIN checkpoints[t] = 1 .. Len(checkpoints[t])
    BY ListIndices
  <2>3. NewRecord(t, c, name, g).snapshot = name
    BY DEF NewRecord
  <2>4. ASSUME backend[t] = "local", NEW i \in DOMAIN checkpoints'[t]
        PROVE  checkpoints'[t][i].snapshot # None
    <3>1. i \in DOMAIN checkpoints[t] \/ i = Len(checkpoints[t]) + 1
      BY <2>1, <2>2
    <3> QED BY <1>0, <1>5, <2>1, <2>3, <2>4, <3>1 DEF Equipped
  <2> QED BY <1>0, <1>5, <2>4 DEF Equipped
<1>6. ASSUME NEW c \in Commands, Run(t, c)
      PROVE  Rebuilt(t)' /\ Equipped(t)'
  <2> DEFINE g == Effect(guest[t], c)
  <2>1. /\ client[t] /\ record[t] /\ Count(t) /\ guest[t].up = "up" /\ c # None
        /\ client'[t] = client[t] /\ record'[t] = record[t] /\ backend'[t] = backend[t]
    BY <1>6 DEF Run, CanRun
  <2>2. guest' = [guest EXCEPT ![t] = g]
    BY <1>6 DEF Run
  <2>3. guest'[t] = g
    BY <2>2 DEF GuestInv
  <2>4. /\ g \in Guests /\ g.up = guest[t].up /\ g.runner = guest[t].runner
        /\ StepName(t) \in Names
    BY <1>0, EffectType, NamesType
  <2>5. g.mem = IF c \in Python THEN Append(guest[t].mem, c) ELSE guest[t].mem
    <3>1. guest[t].runner /\ (c \in Shell <=> c \notin Python)
      BY <1>0, <2>1 DEF Equipped, Commands
    <3> QED BY <1>0, <3>1 DEF Effect, Guests
  <2>6. \E name \in Names \cup {None} :
          Checkpointed(t, c, name, g) /\ (backend[t] = "local" => name \in Names)
    <3>1. CASE backend[t] = "engine"
      <4>1. Checkpointed(t, c, None, g)
        BY <1>6, <3>1 DEF Run
      <4> HIDE DEF g
      <4> QED BY <3>1, <4>1
    <3>2. CASE backend[t] # "engine"
      <4>1. Checkpointed(t, c, StepName(t), g)
        BY <1>6, <3>2 DEF Run
      <4> HIDE DEF g
      <4> QED BY <2>4, <4>1
    <3> QED BY <3>1, <3>2
  <2> HIDE DEF g
  <2>7. PICK name \in Names \cup {None} :
          Checkpointed(t, c, name, g) /\ (backend[t] = "local" => name \in Names)
    BY <2>6
  <2>8. Rebuilt(t)'
    BY <1>0, <2>1, <2>3, <2>4, <2>5, <2>7, RebuiltMore
  <2>9. Equipped(t)'
    BY <1>5, <2>1, <2>3, <2>4, <2>7
  <2> QED BY <2>8, <2>9
<1>7. ASSUME NEW name \in Free(t), Checkpoint(t, name)
      PROVE  Rebuilt(t)' /\ Equipped(t)'
  <2>1. /\ client[t] /\ Count(t) /\ name \in Names
        /\ client'[t] = client[t] /\ record'[t] = record[t] /\ backend'[t] = backend[t]
        /\ Checkpointed(t, None, name, guest[t])
    BY <1>7, NamesType DEF Checkpoint, CanCheckpoint
  <2>2. guest'[t] = [guest[t] EXCEPT !.up = "up"]
    BY <1>7 DEF Checkpoint, GuestInv
  <2>3. /\ guest'[t].up = "up" /\ guest'[t].runner = guest[t].runner
        /\ guest'[t].mem = guest[t].mem
    BY <1>0, <2>2 DEF Guests
  <2>4. None \notin Python
    BY DEF Commands
  <2>5. Rebuilt(t)'
    BY <1>0, <2>1, <2>3, <2>4, RebuiltMore
  <2>6. Equipped(t)'
    BY <1>5, <2>1, <2>3
  <2> QED BY <2>5, <2>6
<1>8. ASSUME NEW name, CheckpointFails(t, name)
      PROVE  SameFor(t)
  BY <1>8 DEF CheckpointFails, SameFor
<1>9. ASSUME NEW k \in 1 .. counter[t], Load(t, k) \/ Replay(t, k)
      PROVE  Rebuilt(t)' /\ Equipped(t)'
  <2>1. /\ AtStep(t, k) # {} /\ TrimTo(t, k) /\ client[t]
        /\ client'[t] = client[t] /\ record'[t] = record[t] /\ backend'[t] = backend[t]
    BY <1>9 DEF Load, Replay
  <2>2. PICK m \in DOMAIN checkpoints[t] :
          /\ Found(t, k) = checkpoints[t][m] /\ UpTo(t, k) = 1 .. m
          /\ Len(checkpoints'[t]) = m /\ DOMAIN checkpoints'[t] = 1 .. m
          /\ \A j \in 1 .. m : j \in DOMAIN checkpoints[t]
                               /\ checkpoints'[t][j] = checkpoints[t][j]
    BY <2>1, TrimKeepsPrefix
  <2>3. Recorded(t, k) = Py(checkpoints[t], m)
    BY <2>2, RecordedIsPy
  <2>4. CASE Load(t, k)
    <3> DEFINE e == Entry(Found(t, k).snapshot)
    <3>1. guest'[t] = [guest[t] EXCEPT !.up = "up", !.mem = e.mem, !.disk = e.disk]
      BY <2>4 DEF Load, GuestInv
    <3>2. e.mem = checkpoints[t][m].was.mem
      <4>1. CheckpointsRestorable
        BY GoodMeans
      <4>2. checkpoints[t][m].snapshot # None
        BY <2>2, <2>4 DEF Load, HasSnapshot
      <4> QED BY <2>2, <4>1, <4>2 DEF CheckpointsRestorable
    <3> HIDE DEF e
    <3>3. /\ guest'[t].mem = e.mem /\ guest'[t].up = "up" /\ guest'[t].runner = guest[t].runner
      BY <1>0, <3>1 DEF Guests
    <3>4. record[t] => guest'[t].mem = Py(checkpoints[t], m)
      BY <1>0, <3>2, <3>3 DEF Rebuilt
    <3>5. Rebuilt(t)'
      BY <1>0, <2>1, <2>2, <3>4, RebuiltCut DEF Rebuilt
    <3>6. Equipped(t)'
      BY <1>0, <2>1, <2>2, <3>3 DEF Equipped
    <3> QED BY <3>5, <3>6
  <2>5. CASE Replay(t, k)
    <3>1. guest'[t] = Replayed(t, k)
      BY <2>5 DEF Replay, GuestInv
    <3>2. backend[t] # "local"
      BY <1>0, <2>2, <2>5 DEF Replay, HasSnapshot, Equipped
    <3>3. guest'[t].mem = Recorded(t, k)
      BY <1>0, <2>1, <3>1, <3>2, ReplayedMem DEF Equipped
    <3>4. /\ guest'[t].up = "up" /\ guest'[t].runner = guest[t].runner
      BY <2>5, <3>1, ReplayedType DEF Replay
    <3>5. Rebuilt(t)'
      BY <1>0, <2>1, <2>2, <2>3, <3>3, RebuiltCut DEF Rebuilt
    <3>6. Equipped(t)'
      BY <1>0, <2>1, <2>2, <3>4 DEF Equipped
    <3> QED BY <3>5, <3>6
  <2> QED BY <1>9, <2>4, <2>5
<1>10. ASSUME NEW k \in 1 .. counter[t], LoadFails(t, k)
       PROVE  FALSE
  <2>1. k \in Nat /\ AtStep(t, k) # {} /\ ~Restorable(Found(t, k).snapshot)
        /\ Found(t, k).snapshot # None
    BY <1>10 DEF LoadFails, HasSnapshot, FlagInv
  <2>2. PICK i \in DOMAIN checkpoints[t] : Found(t, k) = checkpoints[t][i]
    BY <2>1, FoundType
  <2>3. CheckpointsRestorable
    BY GoodMeans
  <2> QED BY <2>1, <2>2, <2>3 DEF CheckpointsRestorable
<1>11. CASE UNCHANGED vars
  BY <1>1, <1>11 DEF vars, SameFor
<1>12. ASSUME Next
       PROVE  Rebuilt(t)' /\ Equipped(t)'
  <2>1. ASSUME NEW s \in Sandboxes, s # t,
               \/ \E b \in Backends : Start(s, b) \/ StartFails(s, b)
               \/ Stop(s)
               \/ \E c \in Commands :
                    RunUnrecorded(s, c) \/ Run(s, c) \/ RunSnapshotFails(s, c)
                      \/ RunUnanswered(s, c)
               \/ \E name \in Free(s) : Checkpoint(s, name) \/ CheckpointFails(s, name)
               \/ \E k \in 1 .. counter[s] : Load(s, k) \/ LoadFails(s, k) \/ Replay(s, k)
        PROVE  SameFor(t)
    BY <2>1, OthersSame
  <2>2. \A x : ~StartFails(t, x) /\ ~RunSnapshotFails(t, x) /\ ~RunUnanswered(t, x)
    BY DEF StartFails, RunSnapshotFails, RunUnanswered
  <2> QED BY <1>1, <1>2, <1>3, <1>4, <1>6, <1>7, <1>8, <1>9, <1>10, <1>12, <2>1, <2>2 DEF Next
<1> QED
  BY <1>11, <1>12

(* Without recording there is no recorded step.                            *)
PlainInv == ~Record => \A s \in Sandboxes :
              ~record[s] /\ \A i \in DOMAIN checkpoints[s] : checkpoints[s][i].command = None

LEMMA PlainStep ==
  ASSUME OrderInv, PlainInv, [Next]_vars
  PROVE  PlainInv'
<1> USE DEF OrderInv
<1> SUFFICES ASSUME ~Record
             PROVE  \A s \in Sandboxes :
                      /\ ~record'[s]
                      /\ \A i \in DOMAIN checkpoints'[s] : checkpoints'[s][i].command = None
  BY DEF PlainInv
<1>1. \A s \in Sandboxes : ~record[s]
  BY DEF PlainInv
<1>2. \A s \in Sandboxes : ~record'[s]
  <2>1. CASE UNCHANGED vars
    BY <1>1, <2>1 DEF vars
  <2>2. ASSUME NEW s \in Sandboxes, Stop(s)
        PROVE  \A t \in Sandboxes : ~record'[t]
    BY <1>1, <2>2 DEF Stop, TypeInv, FlagInv
  <2>3. ASSUME NEW s \in Sandboxes,
               \/ \E b : Start(s, b) \/ StartFails(s, b)
               \/ \E c : RunUnrecorded(s, c) \/ Run(s, c) \/ RunSnapshotFails(s, c)
                           \/ RunUnanswered(s, c)
               \/ \E name : Checkpoint(s, name) \/ CheckpointFails(s, name)
               \/ \E k : Load(s, k) \/ LoadFails(s, k) \/ Replay(s, k)
        PROVE  UNCHANGED record
    BY <2>3 DEF Start, StartFails, RunUnrecorded, Run, RunSnapshotFails, RunUnanswered,
                Checkpoint, CheckpointFails, Load, LoadFails, Replay
  <2> QED BY <1>1, <2>1, <2>2, <2>3 DEF Next
<1> DEFINE Bare(cp) == cp.command = None
<1>3. ASSUME NEW s \in Sandboxes,
             Same(s) \/ Clear(s) \/ Skip(s) \/ Trim(s) \/ UNCHANGED checkpoints,
             NEW t \in Sandboxes, NEW i \in DOMAIN checkpoints'[t]
      PROVE  checkpoints'[t][i].command = None
  <2>1. \A cp : cp = checkpoints'[t][i] => Has(cp)'
    BY DEF Has
  <2>2. \A cp : cp = checkpoints'[t][i] => Has(cp)
    BY <1>3, <2>1, HadBefore
  <2>3. \A cp : Has(cp) => cp.command = None
    BY DEF PlainInv, Has
  <2> QED BY <2>2, <2>3
<1>4. ASSUME NEW s \in Sandboxes, NEW name \in Free(s), Checkpoint(s, name),
             NEW t \in Sandboxes, NEW i \in DOMAIN checkpoints'[t]
      PROVE  checkpoints'[t][i].command = None
  <2>1. Checkpointed(s, None, name, guest[s]) /\ Count(s)
    BY <1>4 DEF Checkpoint
  <2>2. \A cp : cp = checkpoints'[t][i] => Has(cp)'
    BY DEF Has
  <2>3. \A cp : cp = checkpoints'[t][i] => Has(cp) \/ cp = NewRecord(s, None, name, guest[s])
    BY <2>1, <2>2, HadOrNew
  <2>4. \A cp : Has(cp) => cp.command = None
    BY DEF PlainInv, Has
  <2>5. NewRecord(s, None, name, guest[s]).command = None
    BY DEF NewRecord
  <2> QED BY <2>3, <2>4, <2>5
<1>5. ASSUME NEW t \in Sandboxes, NEW i \in DOMAIN checkpoints'[t]
      PROVE  checkpoints'[t][i].command = None
  <2>1. CASE UNCHANGED vars
    BY <2>1 DEF vars, PlainInv
  <2>2. ASSUME NEW s \in Sandboxes, NEW c \in Commands, Run(s, c) \/ RunSnapshotFails(s, c)
        PROVE  FALSE
    BY <1>1, <2>2 DEF Run, RunSnapshotFails
  <2>3. CASE Next
    BY <1>3, <1>4, <2>2, <2>3, ListSteps DEF Next, TypeInv
  <2> QED BY <2>1, <2>3
<1> QED
  BY <1>2, <1>5

LEMMA InitReplay == Init => ReplayInv /\ PlainInv
<1> SUFFICES ASSUME Init
             PROVE  ReplayInv /\ PlainInv
  OBVIOUS
<1>1. ASSUME NEW s \in Sandboxes
      PROVE  Rebuilt(s) /\ Equipped(s)
  BY TimeTravelAssumption DEF Init, Rebuilt, Equipped, NoGuest
<1>2. PlainInv
  BY TimeTravelAssumption DEF Init, PlainInv
<1> QED
  BY <1>1, <1>2 DEF ReplayInv

(* A replay gives back the namespace of the step, for any number of        *)
(* sandboxes, starts, restores and replays, if no call fails on the way.   *)
THEOREM ReplaysRebuild ==
  ASSUME ~Failures
  PROVE  Spec => RestoresNamespace
<1> DEFINE Rebuilds ==
      \A s \in Sandboxes, k \in 1 .. MaxSteps :
        Replay(s, k) /\ (record[s] \/ Found(s, k).command # None)
          => guest'[s].mem = Found(s, k).was.mem
<1>1. ASSUME Record
      PROVE  Spec => [][Rebuilds]_vars
  <2> DEFINE Inv == TravelInv /\ ReplayInv
  <2>1. Init => Inv
    BY InitTravel, InitReplay
  <2>2. Inv /\ [Next]_vars => Inv'
    BY <1>1, TravelStep, ReplayStep DEF Apart
  <2>3. ASSUME Inv
        PROVE  Rebuilds
    <3> SUFFICES ASSUME NEW s \in Sandboxes, NEW k \in 1 .. MaxSteps, Replay(s, k),
                        record[s] \/ Found(s, k).command # None
                 PROVE  guest'[s].mem = Found(s, k).was.mem
      OBVIOUS
    <3>1. k \in Nat /\ AtStep(s, k) # {} /\ client[s] /\ ~HasSnapshot(s, k)
      BY TimeTravelAssumption DEF Replay
    <3>2. TypeInv /\ StepsIncrease /\ Rebuilt(s) /\ Equipped(s)
      BY <2>3 DEF TravelInv, OrderInv, ReplayInv
    <3>3. PICK m \in DOMAIN checkpoints[s] :
            Found(s, k) = checkpoints[s][m] /\ UpTo(s, k) = 1 .. m
      BY <3>1, <3>2, FoundType DEF TypeInv
    <3>4. Recorded(s, k) = Py(checkpoints[s], m)
      BY <3>3, RecordedIsPy
    <3>5. Found(s, k).was.mem = Py(checkpoints[s], m)
      BY <3>2, <3>3 DEF Rebuilt
    <3>6. guest[s].runner /\ backend[s] # "local"
      BY <3>1, <3>2, <3>3 DEF HasSnapshot, Equipped
    <3>7. guest'[s].mem = Replayed(s, k).mem
      BY <3>2 DEF Replay, TypeInv, GuestInv
    <3>8. Replayed(s, k).mem = Recorded(s, k)
      BY <3>2, <3>6, ReplayedMem DEF TypeInv
    <3> QED BY <3>4, <3>5, <3>7, <3>8
  <2> HIDE DEF Inv, Rebuilds
  <2> QED BY <2>1, <2>2, <2>3, PTL DEF Spec
<1>2. ASSUME ~Record
      PROVE  Spec => [][Rebuilds]_vars
  <2> DEFINE Inv == OrderInv /\ PlainInv
  <2>1. Init => Inv
    BY InitOrder, InitReplay
  <2>2. Inv /\ [Next]_vars => Inv'
    BY TypeStep, OrderStep, PlainStep DEF OrderInv
  <2>3. ASSUME Inv
        PROVE  Rebuilds
    <3> SUFFICES ASSUME NEW s \in Sandboxes, NEW k \in 1 .. MaxSteps, Replay(s, k)
                 PROVE  ~record[s] /\ Found(s, k).command = None
      OBVIOUS
    <3>1. k \in Nat /\ AtStep(s, k) # {}
      BY TimeTravelAssumption DEF Replay
    <3>2. PICK m \in DOMAIN checkpoints[s] : Found(s, k) = checkpoints[s][m]
      BY <2>3, <3>1, FoundType DEF OrderInv, TypeInv
    <3> QED BY <1>2, <2>3, <3>2 DEF PlainInv
  <2> HIDE DEF Inv, Rebuilds
  <2> QED BY <2>1, <2>2, <2>3, PTL DEF Spec
<1>3. Spec => [][Rebuilds]_vars
  <2> HIDE DEF Rebuilds
  <2> QED BY <1>1, <1>2
<1> QED
  BY <1>3 DEF RestoresNamespace, Rebuilds
=============================================================================
