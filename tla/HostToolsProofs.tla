-------------------------- MODULE HostToolsProofs --------------------------
(***************************************************************************)
(* Theorems about the two tools that work on the files of the user's home: *)
(* Bootstrap, for any number of calls, files and kills, and WatchSession,  *)
(* for any number of tool calls, directories, tests and failing hooks.     *)
(***************************************************************************)
EXTENDS Bootstrap, WatchSession, FiniteSetTheorems, TLAPS

(* A call inside a file is at a file of the bundle.                        *)
PartOK == \A c \in Calls : call[c].pc \in {"inside", "link"} => call[c].part \in Parts

(* The temporary file is the business of some call.                        *)
TempOK ==
  kills = 0 /\ tmp # None =>
    \E c \in Calls : call[c].pc \in {"download", "scan", "extract", "inside"}

(* What a call has done to the bundle so far is still there.               *)
DoneBy(c) ==
  /\ call[c].pc \in {"extract", "inside"} =>
       \A i \in Parts : i < call[c].part => bundle[i] = "release"
  /\ call[c].pc \in {"unlink", "link"} =>
       \A i \in Parts : i < call[c].part => bundle[i] = "local"
  /\ call[c].pc = "link" => bundle[call[c].part] = "absent"

(* As long as no call was cut short in a full bundle and no two were at it *)
(* at once, a full bundle that nobody is at is whole.                      *)
BundleOK ==
  ~cut /\ ~clash => /\ \A c \in Calls : DoneBy(c)
                    /\ Busy = {} /\ Ready => Whole

Inv == TypeOK /\ PartOK /\ TempOK /\ BundleOK

Frame == [pc : PCs \cup Ended, file : Calls \cup {None}, part : 1..(Files + 1)]

LEMMA PartsFrom1 == 1 \in Parts /\ 1 \in 1..(Files + 1) /\ Files \in Nat
                    /\ \A i \in Parts : i + 1 \in 1..(Files + 1) /\ i \in Nat
                    /\ None \notin Calls
BY BootstrapAssumption DEF BootstrapAssumption, Parts

LEMMA Types ==
  ASSUME TypeOK
  PROVE  /\ bundle \in [Parts -> {"absent", "partial", "release", "local"}]
         /\ tmp \in Calls \cup {None} /\ data \in [Calls -> SUBSET Parts]
         /\ call \in [Calls -> Frame]
BY DEF TypeOK, Frame

(* What the changes to a call's frame are.                                 *)
LEMMA Frames ==
  ASSUME TypeOK, NEW c \in Calls
  PROVE  /\ \A pc \in PCs \cup Ended : Goto(c, pc) =>
              /\ call'[c].pc = pc /\ call'[c].file = call[c].file /\ call'[c].part = 1
              /\ call' \in [Calls -> Frame] /\ \A d \in Calls \ {c} : call'[d] = call[d]
         /\ call[c].part \in Parts /\ NextPart(c) =>
              /\ call'[c].pc = call[c].pc /\ call'[c].file = call[c].file
              /\ call'[c].part = call[c].part + 1
              /\ call' \in [Calls -> Frame] /\ \A d \in Calls \ {c} : call'[d] = call[d]
         /\ \A pc \in PCs : call' = [call EXCEPT ![c].pc = pc] =>
              /\ call'[c].pc = pc /\ call'[c].file = call[c].file /\ call'[c].part = call[c].part
              /\ call' \in [Calls -> Frame] /\ \A d \in Calls \ {c} : call'[d] = call[d]
         /\ \A pc \in PCs : call[c].part \in Parts
              /\ call' = [call EXCEPT ![c].pc = pc, ![c].part = @ + 1] =>
              /\ call'[c].pc = pc /\ call'[c].file = call[c].file
              /\ call'[c].part = call[c].part + 1
              /\ call' \in [Calls -> Frame] /\ \A d \in Calls \ {c} : call'[d] = call[d]
         /\ \A pc \in PCs, file \in Calls :
              call' = [call EXCEPT ![c] = [pc |-> pc, file |-> file, part |-> 1]] =>
              /\ call'[c].pc = pc /\ call'[c].file = file /\ call'[c].part = 1
              /\ call' \in [Calls -> Frame] /\ \A d \in Calls \ {c} : call'[d] = call[d]
<1>1. call \in [Calls -> Frame] /\ call[c] \in Frame
  BY Types
<1>2. ASSUME NEW pc \in PCs \cup Ended, Goto(c, pc)
      PROVE  /\ call'[c].pc = pc /\ call'[c].file = call[c].file /\ call'[c].part = 1
             /\ call' \in [Calls -> Frame] /\ \A d \in Calls \ {c} : call'[d] = call[d]
  BY <1>1, <1>2, PartsFrom1 DEF Goto, Frame
<1>3. ASSUME call[c].part \in Parts, NextPart(c)
      PROVE  /\ call'[c].pc = call[c].pc /\ call'[c].file = call[c].file
             /\ call'[c].part = call[c].part + 1
             /\ call' \in [Calls -> Frame] /\ \A d \in Calls \ {c} : call'[d] = call[d]
  BY <1>1, <1>3, PartsFrom1 DEF NextPart, Frame
<1>4. ASSUME NEW pc \in PCs, call' = [call EXCEPT ![c].pc = pc]
      PROVE  /\ call'[c].pc = pc /\ call'[c].file = call[c].file /\ call'[c].part = call[c].part
             /\ call' \in [Calls -> Frame] /\ \A d \in Calls \ {c} : call'[d] = call[d]
  BY <1>1, <1>4 DEF Frame
<1>5. ASSUME NEW pc \in PCs, call[c].part \in Parts,
             call' = [call EXCEPT ![c].pc = pc, ![c].part = @ + 1]
      PROVE  /\ call'[c].pc = pc /\ call'[c].file = call[c].file
             /\ call'[c].part = call[c].part + 1
             /\ call' \in [Calls -> Frame] /\ \A d \in Calls \ {c} : call'[d] = call[d]
  BY <1>1, <1>5, PartsFrom1 DEF Frame
<1>6. ASSUME NEW pc \in PCs, NEW file \in Calls,
             call' = [call EXCEPT ![c] = [pc |-> pc, file |-> file, part |-> 1]]
      PROVE  /\ call'[c].pc = pc /\ call'[c].file = file /\ call'[c].part = 1
             /\ call' \in [Calls -> Frame] /\ \A d \in Calls \ {c} : call'[d] = call[d]
  BY <1>1, <1>6, PartsFrom1 DEF Frame
<1> QED BY <1>2, <1>3, <1>4, <1>5, <1>6

LEMMA InitInv == Init => Inv
<1> SUFFICES ASSUME Init PROVE Inv
  OBVIOUS
<1>1. TypeOK
  <2>1. call \in [Calls -> Frame] /\ \A c \in Calls : call[c].pc = "off"
    BY PartsFrom1 DEF Init, Frame, PCs
  <2>2. kills \in 0..MaxKills
    BY BootstrapAssumption DEF Init, BootstrapAssumption
  <2> QED BY <2>1, <2>2 DEF Init, TypeOK, Frame
<1>2. PartOK /\ TempOK
  BY DEF Init, PartOK, TempOK
<1>3. BundleOK
  BY PartsFrom1 DEF Init, BundleOK, DoneBy, Ready
<1> QED BY <1>1, <1>2, <1>3 DEF Inv

-----------------------------------------------------------------------------
(* What a step has to see to.                                              *)

(* c moves on in one of these ways; the rest is for the bundle.            *)
Advances(c) ==
  /\ call' \in [Calls -> Frame] /\ \A d \in Calls \ {c} : call'[d] = call[d]
  /\ bundle' \in [Parts -> {"absent", "partial", "release", "local"}]
  /\ tmp' \in Calls \cup {None} /\ data' \in [Calls -> SUBSET Parts]
  /\ build' \in BOOLEAN /\ kills' \in kills..MaxKills /\ cut' \in BOOLEAN /\ clash' \in BOOLEAN
  /\ call'[c].pc \in {"download", "extract", "inside"} => call'[c].file # None
  /\ call'[c].pc \in {"inside", "link"} => call'[c].part \in Parts

LEMMA AdvancesTypes == ASSUME TypeOK, PartOK, NEW c \in Calls, Advances(c) PROVE TypeOK' /\ PartOK'
<1>1. \A d \in Calls : /\ call'[d].pc \in {"download", "extract", "inside"} => call'[d].file # None
                       /\ call'[d].pc \in {"inside", "link"} => call'[d].part \in Parts
  BY DEF Advances, TypeOK, PartOK
<1>2. kills' \in 0..MaxKills
  BY BootstrapAssumption DEF Advances, TypeOK, BootstrapAssumption
<1> QED BY <1>1, <1>2 DEF Advances, TypeOK, PartOK, Frame

(* What a step of c has to see to for the bundle: a change is made alone,  *)
(* or is a clash.                                                          *)
LEMMA BundleStep ==
  ASSUME Inv, NEW c \in Calls, Advances(c), cut => cut', clash => clash',
         bundle' # bundle /\ ~clash' => Busy \ {c} = {},
         ~cut' /\ ~clash' => DoneBy(c)',
         ~cut' /\ ~clash' /\ Busy' = {} /\ Ready' => Whole'
  PROVE  BundleOK'
<1> SUFFICES ASSUME ~cut', ~clash' PROVE (\A d \in Calls : DoneBy(d)') /\ (Busy' = {} /\ Ready' => Whole')
  BY DEF BundleOK
<1>1. ~cut /\ ~clash
  BY DEF Inv, TypeOK
<1>2. ASSUME NEW d \in Calls \ {c} PROVE DoneBy(d)'
  <2>1. call'[d] = call[d] /\ DoneBy(d)
    BY <1>1, <1>2 DEF Inv, BundleOK, Advances
  <2>2. CASE bundle' = bundle
    BY <2>1, <2>2 DEF DoneBy
  <2>3. CASE bundle' # bundle
    <3>1. d \notin Busy
      BY <1>2, <2>3
    <3> QED BY <2>1, <3>1 DEF DoneBy, Busy
  <2> QED BY <2>2, <2>3
<1> QED BY <1>2

(* A step of a call that is not at the bundle, or does not stay there.     *)
LEMMA AwayKeeps ==
  ASSUME Inv, NEW c \in Calls, Advances(c), cut => cut', clash => clash', bundle' = bundle,
         call'[c].pc \notin {"extract", "inside", "unlink", "link"},
         c \in Busy /\ ~cut' /\ ~clash' /\ Ready => Whole
  PROVE  BundleOK'
<1>1. DoneBy(c)'
  BY DEF DoneBy
<1>2. ASSUME ~cut', ~clash', Busy' = {}, Ready' PROVE Whole'
  <2>1. Ready /\ ~cut /\ ~clash
    BY <1>2 DEF Ready, Inv, TypeOK
  <2>2. CASE c \in Busy
    BY <1>2, <2>1, <2>2 DEF Whole
  <2>3. CASE c \notin Busy
    <3>1. Busy = {}
      BY <1>2, <2>3 DEF Busy, Advances
    <3>2. Whole
      BY <2>1, <3>1 DEF Inv, BundleOK
    <3> QED BY <3>2 DEF Whole
  <2> QED BY <2>2, <2>3
<1> QED BY <1>1, <1>2, BundleStep

(* A call comes to the bundle.                                             *)
LEMMA EnterKeeps ==
  ASSUME Inv, NEW c \in Calls, Advances(c), UNCHANGED <<bundle, cut>>, clash => clash',
         call'[c].pc \in {"extract", "unlink"}, call'[c].part = 1
  PROVE  BundleOK'
<1>1. DoneBy(c)'
  BY PartsFrom1 DEF DoneBy, Parts
<1>2. c \in Busy'
  BY DEF Busy
<1> QED BY <1>1, <1>2, BundleStep

-----------------------------------------------------------------------------
(* The temporary file                                                      *)

(* While it is there somebody is at it, or c is from now on.               *)
LEMMA TempKeeps ==
  ASSUME Inv, NEW c \in Calls, Advances(c),
         \/ tmp' = None
         \/ kills' # 0
         \/ call'[c].pc \in {"download", "scan", "extract", "inside"}
         \/ tmp' = tmp /\ call[c].pc \notin {"download", "scan", "extract", "inside"}
  PROVE  TempOK'
<1>1. kills' = 0 => kills = 0
  BY BootstrapAssumption DEF Advances, Inv, TypeOK, BootstrapAssumption
<1>2. \A d \in Calls \ {c} : call'[d] = call[d]
  BY DEF Advances
<1> QED BY <1>1, <1>2 DEF Inv, TempOK

-----------------------------------------------------------------------------
(* The steps, one by one                                                   *)

LEMMA StepKeeps ==
  ASSUME Inv, NEW c \in Calls, Advances(c), TempOK', BundleOK'
  PROVE  Inv'
BY AdvancesTypes DEF Inv

(* A step that changes no more than the call.                              *)
LEMMA OnlyCall ==
  ASSUME Inv, NEW c \in Calls, call' \in [Calls -> Frame], \A d \in Calls \ {c} : call'[d] = call[d],
         UNCHANGED <<bundle, tmp, data, build, kills, cut>>, clash' \in BOOLEAN,
         call'[c].pc \in {"download", "extract", "inside"} => call'[c].file # None,
         call'[c].pc \in {"inside", "link"} => call'[c].part \in Parts
  PROVE  Advances(c)
<1>1. kills' \in kills..MaxKills
  BY BootstrapAssumption DEF Inv, TypeOK, BootstrapAssumption
<1> QED BY <1>1, Types DEF Inv, TypeOK, Advances

LEMMA EnsureReadyKeeps == ASSUME Inv, NEW c \in Calls, EnsureReady(c) PROVE Inv'
<1>1. /\ call[c].pc = "off" /\ call'[c].pc \in {"ready", "open"}
      /\ call' \in [Calls -> Frame] /\ \A d \in Calls \ {c} : call'[d] = call[d]
  BY Frames DEF Inv, EnsureReady, At, PCs, Ended
<1>2. UNCHANGED <<bundle, tmp, data, build, kills, cut>> /\ clash' \in BOOLEAN /\ (clash => clash')
  BY DEF EnsureReady, Touch, Inv, TypeOK
<1>3. Advances(c)
  BY <1>1, <1>2, OnlyCall
<1>4. BundleOK'
  BY <1>1, <1>2, <1>3, AwayKeeps DEF Busy
<1>5. TempOK'
  BY <1>1, <1>2, <1>3, TempKeeps
<1> QED BY <1>3, <1>4, <1>5, StepKeeps

LEMMA DownloadedKeeps == ASSUME Inv, NEW c \in Calls, Downloaded(c) PROVE Inv'
<1>0. call[c].pc = "download" /\ Goto(c, "scan") /\ "scan" \in PCs
  BY DEF Downloaded, At, PCs
<1>1. /\ call[c].pc = "download" /\ call'[c].pc = "scan"
      /\ call' \in [Calls -> Frame] /\ \A d \in Calls \ {c} : call'[d] = call[d]
  BY <1>0, Frames DEF Inv
<1>2. UNCHANGED <<bundle, tmp, data, build, kills, cut, clash>> /\ clash' \in BOOLEAN
  BY DEF Downloaded, Inv, TypeOK
<1>3. Advances(c)
  BY <1>1, <1>2, OnlyCall
<1>4. BundleOK'
  BY <1>1, <1>2, <1>3, AwayKeeps DEF Busy
<1>5. TempOK'
  BY <1>1, <1>2, <1>3, TempKeeps
<1> QED BY <1>3, <1>4, <1>5, StepKeeps

LEMMA OpenTempKeeps == ASSUME Inv, NEW c \in Calls, OpenTemp(c) PROVE Inv'
<1> DEFINE file == IF tmp = None THEN c ELSE tmp
<1>1. file \in Calls /\ file # None
  BY Types, PartsFrom1 DEF Inv
<1>2. /\ call[c].pc = "open" /\ tmp' = file /\ data' = [data EXCEPT ![file] = {}]
      /\ call' = [call EXCEPT ![c] = [pc |-> "download", file |-> file, part |-> 1]]
      /\ UNCHANGED <<bundle, build, kills, cut>>
  BY DEF OpenTemp, At
<1>3. clash' \in BOOLEAN /\ (clash => clash')
  BY DEF OpenTemp, Touch, Inv, TypeOK
<1> HIDE DEF file
<1>4. /\ call'[c].pc = "download" /\ call'[c].file = file
      /\ call' \in [Calls -> Frame] /\ \A d \in Calls \ {c} : call'[d] = call[d]
  BY <1>1, <1>2, Frames DEF Inv, PCs
<1>5. Advances(c)
  <2>1. kills' \in kills..MaxKills
    BY <1>2, BootstrapAssumption DEF Inv, TypeOK, BootstrapAssumption
  <2>2. data' \in [Calls -> SUBSET Parts]
    BY <1>1, <1>2, Types DEF Inv
  <2> QED BY <1>1, <1>2, <1>3, <1>4, <2>1, <2>2, Types DEF Inv, TypeOK, Advances
<1>6. BundleOK'
  BY <1>2, <1>3, <1>4, <1>5, AwayKeeps DEF Busy
<1>7. TempOK'
  BY <1>4, <1>5, TempKeeps
<1> QED BY <1>5, <1>6, <1>7, StepKeeps

LEMMA DownloadKeeps == ASSUME Inv, NEW c \in Calls, Download(c) PROVE Inv'
<1>1. /\ call[c].pc = "download" /\ call[c].part \in Parts /\ call[c].file \in Calls
      /\ data' = [data EXCEPT ![call[c].file] = @ \cup {call[c].part}]
      /\ UNCHANGED <<bundle, tmp, build, kills, cut, clash>>
  BY Types DEF Download, At, Inv, TypeOK, Frame
<1>2. /\ call'[c].pc = "download" /\ call'[c].file = call[c].file
      /\ call' \in [Calls -> Frame] /\ \A d \in Calls \ {c} : call'[d] = call[d]
  BY <1>1, Frames DEF Inv, Download
<1>3. Advances(c)
  <2>1. kills' \in kills..MaxKills
    BY <1>1, BootstrapAssumption DEF Inv, TypeOK, BootstrapAssumption
  <2>2. data' \in [Calls -> SUBSET Parts]
    BY <1>1, Types DEF Inv
  <2> QED BY <1>1, <1>2, <2>1, <2>2, Types, PartsFrom1 DEF Inv, TypeOK, Advances
<1>4. BundleOK'
  BY <1>1, <1>2, <1>3, AwayKeeps DEF Busy
<1>5. TempOK'
  BY <1>2, <1>3, TempKeeps
<1> QED BY <1>3, <1>4, <1>5, StepKeeps

LEMMA GiveUpKeeps ==
  ASSUME Inv, NEW c \in Calls, GiveUp(c), UNCHANGED <<bundle, data, build, kills>>,
         cut' \in BOOLEAN, cut => cut', clash' \in BOOLEAN, clash => clash',
         c \in Busy /\ Ready => cut'
  PROVE  Inv'
<1>1. /\ call'[c].pc = "dev" /\ tmp' = None
      /\ call' \in [Calls -> Frame] /\ \A d \in Calls \ {c} : call'[d] = call[d]
  BY Frames DEF Inv, GiveUp, PCs
<1>2. Advances(c)
  <2>1. kills' \in kills..MaxKills
    BY BootstrapAssumption DEF Inv, TypeOK, BootstrapAssumption
  <2> QED BY <1>1, <2>1, Types DEF Inv, TypeOK, Advances
<1>3. BundleOK'
  BY <1>1, <1>2, AwayKeeps
<1>4. TempOK'
  BY <1>1, <1>2, TempKeeps
<1> QED BY <1>2, <1>3, <1>4, StepKeeps

LEMMA DownloadFailsKeeps == ASSUME Inv, NEW c \in Calls, DownloadFails(c) PROVE Inv'
BY GiveUpKeeps DEF DownloadFails, At, Busy, Inv, TypeOK

LEMMA ExtractFailsKeeps == ASSUME Inv, NEW c \in Calls, ExtractFails(c) PROVE Inv'
<1>1. cut' \in BOOLEAN /\ (cut => cut') /\ (c \in Busy /\ Ready => cut')
  BY DEF ExtractFails, Cut, Ready, Inv, TypeOK
<1>2. clash' \in BOOLEAN /\ (clash => clash')
  BY DEF ExtractFails, Inv, TypeOK
<1> QED BY <1>1, <1>2, GiveUpKeeps DEF ExtractFails

LEMMA ScanKeeps == ASSUME Inv, NEW c \in Calls, Scan(c) PROVE Inv'
<1>1. /\ call[c].pc = "scan" /\ UNCHANGED <<bundle, data, build, kills, cut>>
      /\ clash' \in BOOLEAN /\ (clash => clash') /\ cut' \in BOOLEAN
  BY DEF Scan, At, Touch, Inv, TypeOK
<1>2. CASE GiveUp(c)
  BY <1>1, <1>2, GiveUpKeeps DEF Busy
<1>3. CASE /\ tmp # None /\ UNCHANGED tmp
           /\ call' = [call EXCEPT ![c] = [pc |-> "extract", file |-> tmp, part |-> 1]]
  <2>1. /\ call'[c].pc = "extract" /\ call'[c].file = tmp /\ call'[c].part = 1
        /\ call' \in [Calls -> Frame] /\ \A d \in Calls \ {c} : call'[d] = call[d]
    BY <1>3, Frames, Types DEF Inv, PCs
  <2>2. Advances(c)
    BY <1>1, <1>3, <2>1, OnlyCall
  <2>3. BundleOK'
    BY <1>1, <2>1, <2>2, EnterKeeps
  <2>4. TempOK'
    BY <2>1, <2>2, TempKeeps
  <2> QED BY <2>2, <2>3, <2>4, StepKeeps
<1> QED BY <1>2, <1>3 DEF Scan

(* c writes, removes or links one file of the bundle.                      *)
LEMMA FileKeeps ==
  ASSUME Inv, NEW c \in Calls, NEW i \in Parts, NEW v \in {"absent", "partial", "release", "local"},
         bundle' = [bundle EXCEPT ![i] = v], c \in Busy, Touch(c),
         call' \in [Calls -> Frame], \A d \in Calls \ {c} : call'[d] = call[d],
         UNCHANGED <<tmp, data, build, kills, cut>>,
         call'[c].pc \in {"extract", "inside"} =>
           call'[c].file # None /\ call[c].pc \in {"extract", "inside"},
         call'[c].pc \in {"extract", "inside", "unlink", "link"},
         call'[c].pc \in {"inside", "link"} => call'[c].part \in Parts,
         call[c].pc \in {"extract", "inside"} => call'[c].pc \in {"extract", "inside"},
         ~cut /\ ~clash => DoneBy(c)'
  PROVE  Inv'
<1>1. /\ bundle' \in [Parts -> {"absent", "partial", "release", "local"}]
      /\ clash' \in BOOLEAN /\ (clash => clash') /\ (~clash' => Busy \ {c} = {})
  BY Types DEF Touch, Inv, TypeOK
<1>2. Advances(c)
  <2>1. kills' \in kills..MaxKills
    BY BootstrapAssumption DEF Inv, TypeOK, BootstrapAssumption
  <2> QED BY <1>1, <2>1, Types DEF Inv, TypeOK, Advances
<1>3. BundleOK'
  <2>1. c \in Busy'
    BY DEF Busy
  <2>2. ~cut' /\ ~clash' => DoneBy(c)'
    BY <1>1
  <2> QED BY <1>1, <1>2, <2>1, <2>2, BundleStep
<1>4. TempOK'
  BY <1>2, TempKeeps DEF Busy
<1> QED BY <1>2, <1>3, <1>4, StepKeeps

LEMMA ExtractBeginKeeps == ASSUME Inv, NEW c \in Calls, ExtractBegin(c) PROVE Inv'
<1>1. /\ call[c].pc = "extract" /\ call[c].part \in Parts /\ call[c].file # None
      /\ bundle' = [bundle EXCEPT ![call[c].part] = "partial"] /\ Touch(c)
      /\ UNCHANGED <<tmp, data, build, kills, cut>>
  BY DEF ExtractBegin, At, Inv, TypeOK
<1>2. /\ call'[c].pc = "inside" /\ call'[c].part = call[c].part /\ call'[c].file = call[c].file
      /\ call' \in [Calls -> Frame] /\ \A d \in Calls \ {c} : call'[d] = call[d]
  BY Frames DEF Inv, ExtractBegin, PCs
<1>3. ASSUME ~cut, ~clash PROVE DoneBy(c)'
  <2>1. \A i \in Parts : i < call[c].part => bundle[i] = "release"
    BY <1>1, <1>3 DEF Inv, BundleOK, DoneBy
  <2> QED BY <1>1, <1>2, <2>1, Types, PartsFrom1 DEF DoneBy, Inv
<1>4. c \in Busy
  BY <1>1 DEF Busy
<1> QED BY <1>1, <1>2, <1>3, <1>4, FileKeeps

LEMMA ExtractEndKeeps == ASSUME Inv, NEW c \in Calls, ExtractEnd(c) PROVE Inv'
<1>1. /\ call[c].pc = "inside" /\ call[c].part \in Parts /\ call[c].file # None
      /\ bundle' = [bundle EXCEPT ![call[c].part] = "release"] /\ Touch(c)
      /\ UNCHANGED <<tmp, data, build, kills, cut>>
  BY DEF ExtractEnd, At, Inv, TypeOK, PartOK
<1>2. /\ call'[c].pc = "extract" /\ call'[c].part = call[c].part + 1 /\ call'[c].file = call[c].file
      /\ call' \in [Calls -> Frame] /\ \A d \in Calls \ {c} : call'[d] = call[d]
  BY <1>1, Frames DEF Inv, ExtractEnd, PCs
<1>3. ASSUME ~cut, ~clash PROVE DoneBy(c)'
  <2>1. \A i \in Parts : i < call[c].part => bundle[i] = "release"
    BY <1>1, <1>3 DEF Inv, BundleOK, DoneBy
  <2>2. ASSUME NEW i \in Parts, i < call[c].part + 1 PROVE bundle'[i] = "release"
    <3>1. i = call[c].part \/ i < call[c].part
      BY <1>1, <2>2, PartsFrom1
    <3> QED BY <1>1, <2>1, <3>1, Types DEF Inv
  <2> QED BY <1>2, <2>2 DEF DoneBy
<1>4. c \in Busy
  BY <1>1 DEF Busy
<1> QED BY <1>1, <1>2, <1>3, <1>4, FileKeeps

LEMMA UnlinkKeeps == ASSUME Inv, NEW c \in Calls, Unlink(c) PROVE Inv'
<1>1. /\ call[c].pc = "unlink" /\ call[c].part \in Parts
      /\ bundle' = [bundle EXCEPT ![call[c].part] = "absent"] /\ Touch(c)
      /\ UNCHANGED <<tmp, data, build, kills, cut>>
  BY DEF Unlink, At
<1>2. /\ call'[c].pc = "link" /\ call'[c].part = call[c].part
      /\ call' \in [Calls -> Frame] /\ \A d \in Calls \ {c} : call'[d] = call[d]
  BY Frames DEF Inv, Unlink, PCs
<1>3. ASSUME ~cut, ~clash PROVE DoneBy(c)'
  <2>1. \A i \in Parts : i < call[c].part => bundle[i] = "local"
    BY <1>1, <1>3 DEF Inv, BundleOK, DoneBy
  <2> QED BY <1>1, <1>2, <2>1, Types, PartsFrom1 DEF DoneBy, Inv
<1>4. c \in Busy
  BY <1>1 DEF Busy
<1> QED BY <1>1, <1>2, <1>3, <1>4, FileKeeps

LEMMA LinkKeeps == ASSUME Inv, NEW c \in Calls, Link(c) PROVE Inv'
<1>1. /\ call[c].pc = "link" /\ call[c].part \in Parts /\ c \in Busy
      /\ Touch(c) /\ UNCHANGED <<tmp, data, build, kills, cut>>
  BY DEF Link, At, Inv, PartOK, Busy
<1>2. CASE bundle[call[c].part] = "local"
  <2>1. /\ call'[c].pc = "failed" /\ bundle' = bundle
        /\ call' \in [Calls -> Frame] /\ \A d \in Calls \ {c} : call'[d] = call[d]
    BY <1>2, Frames DEF Inv, Link, Ended
  <2>2. clash' \in BOOLEAN /\ (clash => clash')
    BY <1>1 DEF Touch, Inv, TypeOK
  <2>3. Advances(c)
    BY <1>1, <2>1, <2>2, OnlyCall
  <2>4. cut \/ clash
    BY <1>1, <1>2 DEF Inv, BundleOK, DoneBy
  <2>5. BundleOK'
    BY <1>1, <2>1, <2>2, <2>3, <2>4, AwayKeeps
  <2>6. TempOK'
    BY <1>1, <2>3, TempKeeps
  <2> QED BY <2>3, <2>5, <2>6, StepKeeps
<1>3. CASE bundle[call[c].part] # "local"
  <2>1. /\ bundle' = [bundle EXCEPT ![call[c].part] = "local"]
        /\ call' = [call EXCEPT ![c].pc = "unlink", ![c].part = @ + 1]
    BY <1>3 DEF Link
  <2>2. /\ call'[c].pc = "unlink" /\ call'[c].part = call[c].part + 1
        /\ call' \in [Calls -> Frame] /\ \A d \in Calls \ {c} : call'[d] = call[d]
    BY <1>1, <2>1, Frames DEF Inv, PCs
  <2>3. ASSUME ~cut, ~clash PROVE DoneBy(c)'
    <3>1. \A i \in Parts : i < call[c].part => bundle[i] = "local"
      BY <1>1, <2>3 DEF Inv, BundleOK, DoneBy
    <3>2. ASSUME NEW i \in Parts, i < call[c].part + 1 PROVE bundle'[i] = "local"
      <4>1. i = call[c].part \/ i < call[c].part
        BY <1>1, <3>2, PartsFrom1
      <4> QED BY <1>1, <2>1, <3>1, <4>1, Types DEF Inv
    <3> QED BY <2>2, <3>2 DEF DoneBy
  <2> QED BY <1>1, <2>1, <2>2, <2>3, FileKeeps
<1> QED BY <1>2, <1>3

(* A call that has been through all files has made all of them.            *)
LEMMA AllDone ==
  ASSUME Inv, NEW c \in Calls, ~cut, ~clash, call[c].pc \in {"extract", "unlink"}, call[c].part \notin Parts
  PROVE  Whole
<1>1. \A i \in Parts : i < call[c].part
  BY Types, PartsFrom1 DEF Inv, Frame, Parts
<1> QED BY <1>1 DEF Inv, BundleOK, DoneBy, Whole

LEMMA ExtractedKeeps == ASSUME Inv, NEW c \in Calls, Extracted(c) PROVE Inv'
<1>1. /\ call[c].pc = "extract" /\ call[c].part \notin Parts
      /\ tmp' = None /\ UNCHANGED <<bundle, data, build, kills, cut>>
      /\ clash' \in BOOLEAN /\ (clash => clash')
  BY DEF Extracted, At, Touch, Inv, TypeOK
<1>2. /\ call'[c].pc \in {"ready", "dev"}
      /\ call' \in [Calls -> Frame] /\ \A d \in Calls \ {c} : call'[d] = call[d]
  BY Frames DEF Inv, Extracted, PCs, Ended
<1>3. Advances(c)
  <2>1. kills' \in kills..MaxKills
    BY <1>1, BootstrapAssumption DEF Inv, TypeOK, BootstrapAssumption
  <2> QED BY <1>1, <1>2, <2>1, Types DEF Inv, TypeOK, Advances
<1>4. BundleOK'
  BY <1>1, <1>2, <1>3, AllDone, AwayKeeps DEF Inv, TypeOK
<1>5. TempOK'
  BY <1>1, <1>3, TempKeeps
<1> QED BY <1>3, <1>4, <1>5, StepKeeps

LEMMA LinkedKeeps == ASSUME Inv, NEW c \in Calls, Linked(c) PROVE Inv'
<1>1. /\ call[c].pc = "unlink" /\ call[c].part \notin Parts
      /\ UNCHANGED <<bundle, tmp, data, build, kills, cut>>
      /\ clash' \in BOOLEAN /\ (clash => clash')
  BY DEF Linked, At, Touch, Inv, TypeOK
<1>2. /\ call'[c].pc \in {"ready", "failed"}
      /\ call' \in [Calls -> Frame] /\ \A d \in Calls \ {c} : call'[d] = call[d]
  BY Frames DEF Inv, Linked, Ended
<1>3. Advances(c)
  BY <1>1, <1>2, OnlyCall
<1>4. BundleOK'
  BY <1>1, <1>2, <1>3, AllDone, AwayKeeps DEF Inv, TypeOK
<1>5. TempOK'
  BY <1>1, <1>3, TempKeeps
<1> QED BY <1>3, <1>4, <1>5, StepKeeps

LEMMA TryDevModeKeeps == ASSUME Inv, NEW c \in Calls, TryDevMode(c) PROVE Inv'
<1>1. /\ call[c].pc = "dev" /\ UNCHANGED <<bundle, tmp, data, build, kills, cut, clash>>
      /\ clash' \in BOOLEAN
  BY DEF TryDevMode, At, Inv, TypeOK
<1>2. /\ call'[c].pc \in {"unlink", "failed"} /\ call'[c].part = 1
      /\ call' \in [Calls -> Frame] /\ \A d \in Calls \ {c} : call'[d] = call[d]
  BY Frames DEF Inv, TryDevMode, PCs, Ended
<1>3. Advances(c)
  BY <1>1, <1>2, OnlyCall
<1>4. BundleOK'
  BY <1>1, <1>2, <1>3, EnterKeeps, AwayKeeps DEF Busy
<1>5. TempOK'
  BY <1>1, <1>3, TempKeeps
<1> QED BY <1>3, <1>4, <1>5, StepKeeps

LEMMA KillKeeps == ASSUME Inv, NEW c \in Calls, Kill(c) PROVE Inv'
<1>1. /\ UNCHANGED <<bundle, tmp, data, build, clash>> /\ kills' = kills + 1 /\ kills < MaxKills
      /\ cut' \in BOOLEAN /\ (cut => cut') /\ (c \in Busy /\ Ready => cut')
  BY DEF Kill, Cut, Ready, Inv, TypeOK
<1>2. /\ call'[c].pc = "killed"
      /\ call' \in [Calls -> Frame] /\ \A d \in Calls \ {c} : call'[d] = call[d]
  BY Frames DEF Inv, Kill, Ended
<1>3. kills' \in kills..MaxKills /\ kills' # 0
  BY <1>1, BootstrapAssumption DEF Inv, TypeOK, BootstrapAssumption
<1>4. Advances(c)
  BY <1>1, <1>2, <1>3, Types DEF Inv, TypeOK, Advances
<1>5. BundleOK'
  BY <1>1, <1>2, <1>4, AwayKeeps
<1>6. TempOK'
  BY <1>3, <1>4, TempKeeps
<1> QED BY <1>4, <1>5, <1>6, StepKeeps

LEMMA NextInv == Inv /\ [Next]_vars => Inv'
<1> SUFFICES ASSUME Inv, [Next]_vars PROVE Inv'
  OBVIOUS
<1>1. CASE UNCHANGED vars
  BY <1>1 DEF vars, Inv, TypeOK, PartOK, TempOK, BundleOK, DoneBy, Busy, Ready, Whole
<1>2. ASSUME NEW c \in Calls, \/ EnsureReady(c) \/ OpenTemp(c) \/ Download(c) \/ Downloaded(c)
                               \/ DownloadFails(c) \/ Scan(c)
      PROVE  Inv'
  BY <1>2, EnsureReadyKeeps, OpenTempKeeps, DownloadKeeps, DownloadedKeeps, DownloadFailsKeeps, ScanKeeps
<1>3. ASSUME NEW c \in Calls, ExtractBegin(c) \/ ExtractEnd(c) \/ ExtractFails(c) \/ Extracted(c)
      PROVE  Inv'
  BY <1>3, ExtractBeginKeeps, ExtractEndKeeps, ExtractFailsKeeps, ExtractedKeeps
<1>4. ASSUME NEW c \in Calls, TryDevMode(c) \/ Unlink(c) \/ Link(c) \/ Linked(c) \/ Kill(c)
      PROVE  Inv'
  BY <1>4, TryDevModeKeeps, UnlinkKeeps, LinkKeeps, LinkedKeeps, KillKeeps
<1> QED BY <1>1, <1>2, <1>3, <1>4 DEF Next

LEMMA InvAlways == Spec => []Inv
BY InitInv, NextInv, PTL DEF Spec

-----------------------------------------------------------------------------
(* The theorems                                                            *)

(* The bundle, the temporary file and the calls keep their types; a call   *)
(* that reads or writes has a file open (bootstrap.py:65-199).             *)
THEOREM BootstrapTypeCorrect == Spec => []TypeOK
<1>1. Inv => TypeOK
  BY DEF Inv
<1> QED BY <1>1, InvAlways, PTL

(* However many calls share the one path of the temporary file, and        *)
(* whatever they remove under each other, it is gone when all have ended,  *)
(* unless one was killed (bootstrap.py:182, 195, 199).                     *)
THEOREM TempAlwaysRemoved == Spec => []TempRemoved
<1>1. Inv => TempRemoved
  BY DEF Inv, TempOK, TempRemoved, Ended
<1> QED BY <1>1, InvAlways, PTL

(* A call that returns has found every file in full and all of one origin, *)
(* unless a call was cut short in the bundle when every file was there, or *)
(* two calls were at the bundle at once: for a bundle of any number of     *)
(* files (bootstrap.py:65, 71-97).                                         *)
THEOREM ReadyBundleWhole == Spec => ReadyIsWhole
<1>1. ASSUME Inv, Next, NEW c \in Calls, call[c].pc # "ready", call'[c].pc = "ready", ~cut', ~clash'
      PROVE  Whole'
  <2>1. PICK d \in Calls :
          \/ EnsureReady(d) \/ OpenTemp(d) \/ Download(d) \/ Downloaded(d) \/ DownloadFails(d)
          \/ Scan(d) \/ ExtractBegin(d) \/ ExtractEnd(d) \/ ExtractFails(d) \/ Extracted(d)
          \/ TryDevMode(d) \/ Unlink(d) \/ Link(d) \/ Linked(d) \/ Kill(d)
    BY <1>1 DEF Next
  <2>2. \A pc : Goto(d, pc) => d = c /\ pc = "ready"
    BY <1>1, Types DEF Goto, Inv
  <2>3. ASSUME NEW pc, call' = [call EXCEPT ![d].pc = pc] PROVE pc = "ready"
    <3>1. call \in [Calls -> Frame]
      BY <1>1, Types DEF Inv
    <3>2. d = c
      BY <1>1, <2>3, <3>1
    <3> QED BY <1>1, <2>3, <3>1, <3>2 DEF Frame
  <2>4. EnsureReady(d) \/ Extracted(d) \/ Linked(d)
    <3>1. ~OpenTemp(d) /\ ~Scan(d)
      BY <1>1, <2>2, Types DEF OpenTemp, Scan, GiveUp, Inv
    <3>2. ~Download(d) /\ ~Downloaded(d) /\ ~DownloadFails(d)
      BY <1>1, <2>2, Types DEF Download, NextPart, Downloaded, DownloadFails, GiveUp, At, Inv, Frame
    <3>3. ~ExtractBegin(d) /\ ~ExtractFails(d) /\ ~TryDevMode(d) /\ ~Unlink(d) /\ ~Kill(d)
      BY <2>2, <2>3 DEF ExtractBegin, ExtractFails, TryDevMode, Unlink, Kill, GiveUp
    <3>4. ASSUME NEW pc, call' = [call EXCEPT ![d].pc = pc, ![d].part = @ + 1] PROVE pc = "ready"
      <4>1. call \in [Calls -> Frame]
        BY <1>1, Types DEF Inv
      <4>2. d = c
        BY <1>1, <3>4, <4>1
      <4> QED BY <1>1, <3>4, <4>1, <4>2 DEF Frame
    <3>5. ~ExtractEnd(d) /\ ~Link(d)
      BY <2>2, <3>4 DEF ExtractEnd, Link
    <3> QED BY <2>1, <3>1, <3>2, <3>3, <3>5
  <2>5. ~cut /\ ~clash /\ bundle' = bundle /\ d = c
    BY <1>1, <2>2, <2>4 DEF EnsureReady, Extracted, Linked, Touch, Inv, TypeOK
  <2>6. CASE EnsureReady(d)
    <3>1. Ready
      <4>1. (IF Ready THEN "ready" ELSE "open") = "ready"
        BY <2>2, <2>6 DEF EnsureReady
      <4> QED BY <4>1
    <3>2. Busy = {}
      <4>1. call[c].pc = "off" /\ Busy \ {c} = {}
        BY <1>1, <2>5, <2>6 DEF EnsureReady, At, Touch
      <4> QED BY <4>1 DEF Busy
    <3>3. Whole
      BY <1>1, <2>5, <3>1, <3>2 DEF Inv, BundleOK
    <3> QED BY <2>5, <3>3 DEF Whole
  <2>7. CASE Extracted(d) \/ Linked(d)
    <3>1. Whole
      BY <1>1, <2>5, <2>7, AllDone DEF Extracted, Linked, At
    <3> QED BY <2>5, <3>1 DEF Whole
  <2> QED BY <2>4, <2>6, <2>7
<1>2. Inv /\ [Next]_vars =>
        [\A c \in Calls : ~At(c, "ready") /\ At(c, "ready")' /\ ~cut' /\ ~clash' => Whole']_vars
  BY <1>1 DEF At
<1> QED BY <1>2, InvAlways, PTL DEF Spec, ReadyIsWhole

-----------------------------------------------------------------------------
(* WatchSession: a log of any number of calls and directories, and what    *)
(* its review says.                                                         *)

(* ------------------------ The first and the last ----------------------- *)

(* A set of numbers that is not empty has a smallest one: of the sets of   *)
(* the numbers below an element, one has no other that is a part of it.    *)
LEMMA Smallest ==
  ASSUME NEW T, T \subseteq Nat, T # {}
  PROVE  \E x \in T : \A y \in T : x <= y
<1> DEFINE Below(x) == {y \in T : y < x}
           F == {Below(x) : x \in T}
<1>0. ASSUME NEW x \in T
      PROVE  /\ x \in Nat /\ Below(x) \subseteq T
             /\ \A y : y \in Below(x) <=> y \in T /\ y < x
  OBVIOUS
<1> HIDE DEF Below
<1>1. ASSUME NEW x \in T
      PROVE  Below(x) \in FiniteSubsetsOf(T)
  <2>1. Below(x) \in SUBSET Nat /\ x \in Nat
    BY <1>0
  <2>2. \A y \in Below(x) : y <= x
    BY <1>0, <2>1
  <2>3. IsFiniteSet(Below(x))
    BY <2>1, <2>2, FS_BoundedSetOfNaturals
  <2> QED BY <1>0, <2>3 DEF FiniteSubsetsOf
<1>2. PICK B \in F : \A C \in F : ~(<<C, B>> \in StrictSubsetOrdering(T))
  <2>1. F \subseteq FiniteSubsetsOf(T) /\ F # {}
    BY <1>1
  <2> HIDE DEF F
  <2> QED BY <2>1, FS_StrictSubsetOrderingWellFounded, WFMin
<1>3. PICK x \in T : B = Below(x)
  OBVIOUS
<1>4. ASSUME NEW y \in T, y < x
      PROVE  FALSE
  <2>1. Below(y) \in F
    OBVIOUS
  <2>2. y \in Below(x) /\ y \notin Below(y)
    BY <1>0, <1>4
  <2>3. Below(y) \subseteq Below(x) /\ Below(x) \subseteq T /\ Below(y) \subseteq T
    <3>1. x \in Nat /\ y \in Nat
      OBVIOUS
    <3>2. ASSUME NEW z \in Below(y)
          PROVE  z \in Below(x)
      <4>1. z \in T /\ z < y
        BY <1>0
      <4>2. z \in Nat
        BY <4>1
      <4>3. z < x
        BY <1>4, <3>1, <4>1, <4>2
      <4> QED BY <1>0, <4>1, <4>3
    <3>3. \A u \in T : Below(u) \subseteq T
      BY <1>0
    <3> QED BY <3>2, <3>3
  <2>4. <<Below(y), Below(x)>> \in StrictSubsetOrdering(T)
    <3>1. Below(y) # Below(x)
      BY <2>2
    <3>2. <<Below(y), Below(x)>> \in (SUBSET T) \X (SUBSET T)
      BY <2>3
    <3> QED BY <2>3, <3>1, <3>2 DEF StrictSubsetOrdering
  <2> QED BY <1>2, <1>3, <2>1, <2>4
<1>5. \A y \in T : x <= y
  BY <1>0, <1>4
<1> QED
  BY <1>5

LEMMA Largest ==
  ASSUME NEW n \in Nat, NEW T, T \subseteq 0..n, T # {}
  PROVE  \E x \in T : \A y \in T : y <= x
<1> DEFINE U == {n - t : t \in T}
<1>0. \A t \in T : t \in 0..n
  OBVIOUS
<1>1. U \subseteq Nat /\ U # {}
  <2>1. \A t \in 0..n : n - t \in Nat
    OBVIOUS
  <2>2. \A t \in T : n - t \in Nat
    BY <1>0, <2>1
  <2>3. \A u \in U : u \in Nat
    BY <2>2
  <2>4. PICK t \in T : TRUE
    OBVIOUS
  <2>5. n - t \in U
    OBVIOUS
  <2> HIDE DEF U
  <2> QED BY <2>3, <2>5
<1>2. PICK u \in U : \A v \in U : u <= v
  <2> HIDE DEF U
  <2> QED BY <1>1, Smallest
<1>3. PICK x \in T : u = n - x
  BY <1>2
<1>4. ASSUME NEW y \in T
      PROVE  y <= x
  <2>1. u <= n - y
    BY <1>2
  <2> QED BY <1>0, <1>3, <2>1
<1> QED
  BY <1>3, <1>4

(* ----------------------------- The recording --------------------------- *)

Pieces == {Fragment} \cup Events
LogType == log \in [Dirs -> Seq(Seq(Pieces))]

LEMMA EventFields ==
  /\ Nothing \notin Events /\ Fragment \notin Events
  /\ \A e \in Events : /\ e.n \in Nat /\ e.dir \in Dirs /\ e.tool \in {"Bash", "Edit"}
                       /\ e.command \in Cmds \cup {Nothing} /\ e.out \in Results \cup {Nothing}
                       /\ e.was \in [Tests -> Statuses] \cup {Nothing}
BY SessionAssumption DEF SessionAssumption, Events, Fragment

(* The log of d with one more piece: on its open last line or as a new one.*)
LEMMA PutLog ==
  ASSUME LogType, NEW d \in Dirs, open[d] => log[d] # <<>>,
         NEW piece \in Pieces, Put(d, piece)
  PROVE  /\ LogType' /\ \A e \in Dirs : e # d => log'[e] = log[e]
         /\ Len(log[d]) \in Nat /\ DOMAIN log[d] = 1..Len(log[d])
         /\ Len(log'[d]) \in Nat \ {0} /\ DOMAIN log'[d] = 1..Len(log'[d])
         /\ \A i \in 1..(Len(log'[d]) - 1) : i \in DOMAIN log[d] /\ log'[d][i] = log[d][i]
         /\ open[d] => /\ Len(log'[d]) = Len(log[d])
                       /\ log'[d][Len(log[d])] = Append(log[d][Len(log[d])], piece)
         /\ ~open[d] => /\ Len(log'[d]) = Len(log[d]) + 1
                        /\ log'[d][Len(log[d]) + 1] = <<piece>>
<1> DEFINE q == log[d]
           n == Len(log[d])
           r == IF open[d] THEN [q EXCEPT ![n] = Append(q[n], piece)] ELSE Append(q, <<piece>>)
<1>1. q \in Seq(Seq(Pieces)) /\ n \in Nat /\ DOMAIN q = 1..n
  BY DEF LogType
<1>2. log' = [log EXCEPT ![d] = r]
  BY DEF Put
<1>3. log'[d] = r /\ \A e \in Dirs : e # d => log'[e] = log[e]
  BY <1>2 DEF LogType
<1>4. CASE open[d]
  <2>1. n \in 1..n /\ q[n] \in Seq(Pieces)
    BY <1>1, <1>4
  <2>2. Append(q[n], piece) \in Seq(Pieces)
    BY <2>1
  <2>3. r = [q EXCEPT ![n] = Append(q[n], piece)]
    BY <1>4
  <2> HIDE DEF q, n, r
  <2>4. r \in Seq(Seq(Pieces)) /\ Len(r) = n /\ DOMAIN r = 1..n /\ r[n] = Append(q[n], piece)
        /\ \A i \in 1..n : i # n => r[i] = q[i]
    BY <1>1, <2>1, <2>2, <2>3
  <2>5. LogType'
    BY <1>2, <2>4 DEF LogType
  <2>6. \A i \in 1..(n - 1) : i \in 1..n /\ i # n
    BY <1>1
  <2>7. n \in Nat \ {0}
    BY <1>1, <2>1
  <2>8. log'[d] = r /\ log[d] = q /\ Len(log[d]) = n
    BY <1>3 DEF q, n
  <2> QED BY <1>1, <1>3, <1>4, <2>4, <2>5, <2>6, <2>7, <2>8
<1>5. CASE ~open[d]
  <2>1. r = Append(q, <<piece>>)
    BY <1>5
  <2>2. <<piece>> \in Seq(Pieces)
    OBVIOUS
  <2> HIDE DEF q, n, r
  <2>3. Len(q) = n
    BY DEF q, n
  <2>4. r \in Seq(Seq(Pieces)) /\ Len(r) = n + 1 /\ DOMAIN r = 1..(n + 1) /\ r[n + 1] = <<piece>>
        /\ \A i \in 1..n : r[i] = q[i]
    BY <1>1, <2>1, <2>2, <2>3
  <2>5. LogType'
    BY <1>2, <2>4 DEF LogType
  <2>6. \A i \in 1..((n + 1) - 1) : i \in 1..n
    BY <1>1
  <2> QED BY <1>1, <1>3, <1>5, <2>4, <2>5, <2>6 DEF q, n
<1> QED
  BY <1>4, <1>5

(* Whatever a log holds after that it held before, but for the piece.      *)
LEMMA PutPieces ==
  ASSUME LogType, NEW d \in Dirs, open[d] => log[d] # <<>>,
         NEW piece \in Pieces, Put(d, piece),
         NEW e \in Dirs, NEW i \in DOMAIN log'[e], NEW j \in DOMAIN log'[e][i]
  PROVE  \/ /\ i \in DOMAIN log[e] /\ j \in DOMAIN log[e][i]
            /\ log'[e][i][j] = log[e][i][j]
         \/ e = d /\ i = Len(log'[d]) /\ log'[e][i][j] = piece
<1> USE PutLog
<1>1. CASE e # d
  BY <1>1
<1>2. CASE e = d /\ i # Len(log'[d])
  <2>1. i \in 1..(Len(log'[d]) - 1)
    BY <1>2
  <2> QED BY <1>2, <2>1
<1>3. CASE e = d /\ i = Len(log'[d]) /\ ~open[d]
  <2>1. log'[e][i] = <<piece>>
    BY <1>3
  <2> QED BY <1>3, <2>1
<1>4. CASE e = d /\ i = Len(log'[d]) /\ open[d]
  <2>1. log'[e][i] = Append(log[d][i], piece) /\ i \in DOMAIN log[d]
    BY <1>4
  <2>2. log[d][i] \in Seq(Pieces)
    BY <2>1 DEF LogType
  <2>3. j \in 1..(Len(log[d][i]) + 1) /\ Len(log[d][i]) \in Nat
    BY <2>1, <2>2
  <2>4. j # Len(log[d][i]) + 1 => j \in DOMAIN log[d][i] /\ log'[e][i][j] = log[d][i][j]
    BY <2>1, <2>2, <2>3
  <2>5. j = Len(log[d][i]) + 1 => log'[e][i][j] = piece
    BY <2>1, <2>2, <2>3
  <2> QED BY <1>4, <2>1, <2>4, <2>5
<1> QED
  BY <1>1, <1>2, <1>3, <1>4

LEMMA OutcomesCounted ==
  ASSUME NEW s, NEW status
  PROVE  /\ In(s, status) \subseteq Tests /\ IsFiniteSet(In(s, status))
         /\ Cardinality(In(s, status)) \in 0..(Cardinality(Tests) + 1)
<1>1. In(s, status) \subseteq Tests /\ IsFiniteSet(Tests)
  BY SessionAssumption DEF In, SessionAssumption
<1>2. /\ IsFiniteSet(In(s, status)) /\ Cardinality(In(s, status)) <= Cardinality(Tests)
      /\ Cardinality(In(s, status)) \in Nat /\ Cardinality(Tests) \in Nat
  BY <1>1, FS_Subset, FS_CardinalityType
<1> QED
  BY <1>1, <1>2

LEMMA ResultType ==
  /\ \A s : Result(s) \in Results
  /\ CollectionError \in Results /\ [total |-> 1, silenced |-> 1] \in Results
<1>1. ASSUME NEW s
      PROVE  Result(s) \in Results
  BY OutcomesCounted DEF Result, Results
<1>2. Cardinality(Tests) \in Nat
  BY SessionAssumption, FS_CardinalityType DEF SessionAssumption
<1>3. CollectionError \in Results /\ [total |-> 1, silenced |-> 1] \in Results
  BY <1>2 DEF CollectionError, Results
<1> QED
  BY <1>1, <1>3

(* A test run tells of a test command, and what it says of the tests is    *)
(* their result.                                                           *)
Fits(e) ==
  e.tool = "Bash" /\ e.out # Nothing =>
    e.command \in Cmds /\ (e.was # Nothing => e.out = Result(e.was))

(* The kinds of steps.                                                     *)
Asks(a, e) == e.n = calls /\ Fits(e) /\ ToolCall(a, e) /\ suite' \in [Tests -> Statuses]

Writes(a, piece, o) ==
  /\ hook[a] # Nothing /\ Put(hook[a].dir, piece) /\ HookEnds(a)
  /\ open' = [open EXCEPT ![hook[a].dir] = o]
  /\ UNCHANGED <<suite, calls, failed>>

LEMMA TestCalls ==
  ASSUME SessionTypeOK, NEW a \in Callers, NEW d \in Dirs, NEW c \in Cmds, RunTests(a, d, c)
  PROVE  \E e \in Events : Asks(a, e)
<1> DEFINE Run(out, was) == [tool |-> "Bash", command |-> c, out |-> out,
                             n |-> calls, was |-> was, dir |-> d]
           s == Selected(c)
<1>1. PICK out \in Results \cup {Nothing}, was \in [Tests -> Statuses] \cup {Nothing} :
        /\ ToolCall(a, Run(out, was)) /\ UNCHANGED suite
        /\ was # Nothing => out = Result(was)
  <2>1. s \in [Tests -> Statuses]
    BY DEF SessionTypeOK, Selected, Statuses
  <2>2. \/ ToolCall(a, Run(Result(s), s))
        \/ ToolCall(a, Run(CollectionError, Nothing))
        \/ ToolCall(a, Run(Nothing, Nothing))
    BY DEF RunTests
  <2>3. UNCHANGED suite
    BY DEF RunTests
  <2> HIDE DEF s, Run
  <2> QED BY <2>1, <2>2, <2>3, ResultType
<1> DEFINE e == Run(out, was)
<1>2. calls \in Nat /\ suite \in [Tests -> Statuses]
  BY SessionAssumption DEF SessionTypeOK, SessionAssumption
<1>3. e \in Events
  BY <1>2 DEF Events
<1>4. e.n = calls /\ Fits(e)
  BY <1>1 DEF Fits
<1> HIDE DEF Run
<1> QED
  BY <1>1, <1>2, <1>3, <1>4 DEF Asks

LEMMA EditCalls ==
  ASSUME SessionTypeOK, NEW a \in Callers, NEW d \in Dirs, NEW t \in Tests,
         NEW status \in Statuses, EditTest(a, d, t, status)
  PROVE  \E e \in Events : Asks(a, e)
<1> DEFINE e == [tool |-> "Edit", command |-> Nothing, out |-> [total |-> 1, silenced |-> 1],
                 n |-> calls, was |-> Nothing, dir |-> d]
<1>1. calls \in Nat /\ suite' \in [Tests -> Statuses]
  BY SessionAssumption DEF SessionTypeOK, SessionAssumption, EditTest
<1>2. e \in Events
  BY <1>1, ResultType DEF Events
<1>3. e.n = calls /\ Fits(e)
  BY DEF Fits
<1>4. ToolCall(a, e)
  BY DEF EditTest
<1> HIDE DEF e
<1> QED
  BY <1>1, <1>2, <1>3, <1>4 DEF Asks

LEMMA StepCases ==
  ASSUME SessionTypeOK, SessionNext
  PROVE  \E a \in Callers :
           \/ \E e \in Events : Asks(a, e)
           \/ HookFails(a)
           \/ Writes(a, hook[a], FALSE) /\ torn' = torn
           \/ \E piece \in {Fragment, hook[a]} :
                Writes(a, piece, TRUE) /\ torn' = torn + 1 /\ Faults < MaxFaults
<1>1. ASSUME NEW a \in Callers, RecordEvent(a)
      PROVE  Writes(a, hook[a], FALSE) /\ torn' = torn
  BY <1>1 DEF RecordEvent, Writes
<1>2. ASSUME NEW a \in Callers, HookCut(a)
      PROVE  \E piece \in {Fragment, hook[a]} :
               Writes(a, piece, TRUE) /\ torn' = torn + 1 /\ Faults < MaxFaults
  BY <1>2 DEF HookCut, Writes
<1> QED
  BY <1>1, <1>2, TestCalls, EditCalls DEF SessionNext

LEMMA LogTyped ==
  ASSUME SessionTypeOK
  PROVE  /\ LogType /\ open \in [Dirs -> BOOLEAN]
         /\ \A d \in Dirs : open[d] => log[d] # <<>>
         /\ hook \in [Callers -> Events \cup {Nothing}]
         /\ suite \in [Tests -> Statuses] /\ calls \in 0..MaxCalls
         /\ MaxCalls \in Nat /\ MaxFaults \in Nat
         /\ failed \in 0..MaxFaults /\ torn \in 0..MaxFaults /\ failed + torn <= MaxFaults
BY SessionAssumption DEF SessionTypeOK, LogType, Pieces, Faults, SessionAssumption

(* Line i of the log of d holds the event e, alone or with others.         *)
Holds(d, i, e) == i \in DOMAIN log[d] /\ \E j \in DOMAIN log[d][i] : log[d][i][j] = e

LEMMA PutHolds ==
  ASSUME LogType, NEW d \in Dirs, open[d] => log[d] # <<>>,
         NEW piece \in Pieces, Put(d, piece),
         NEW x \in Dirs, NEW i, NEW e, Holds(x, i, e)'
  PROVE  Holds(x, i, e) \/ (x = d /\ i = Len(log'[d]) /\ e = piece)
BY PutPieces DEF Holds

LEMMA LinesOK ==
  ASSUME SessionTypeOK, NEW d \in Dirs, NEW piece \in Pieces, Put(d, piece),
         piece # Fragment => piece.dir = d
  PROVE  \A x \in Dirs :
           /\ x = d => log'[x] # <<>>
           /\ \A i \in DOMAIN log'[x] :
                /\ log'[x][i] # <<>>
                /\ \A j \in DOMAIN log'[x][i] : log'[x][i][j] # Fragment => log'[x][i][j].dir = x
<1>1. LogType /\ (open[d] => log[d] # <<>>)
  BY LogTyped
<1>2. ASSUME NEW x \in Dirs, NEW i \in DOMAIN log'[x], NEW j \in DOMAIN log'[x][i],
             log'[x][i][j] # Fragment
      PROVE  log'[x][i][j].dir = x
  <2>1. \/ /\ i \in DOMAIN log[x] /\ j \in DOMAIN log[x][i]
           /\ log'[x][i][j] = log[x][i][j]
        \/ x = d /\ log'[x][i][j] = piece
    BY <1>1, PutPieces
  <2>2. \A k \in DOMAIN log[x] : \A l \in DOMAIN log[x][k] :
          log[x][k][l] # Fragment => log[x][k][l].dir = x
    BY DEF SessionTypeOK
  <2> QED BY <1>2, <2>1, <2>2
<1>3. ASSUME NEW x \in Dirs, NEW i \in DOMAIN log'[x]
      PROVE  log'[x][i] # <<>>
  <2> USE <1>1, PutLog
  <2>1. CASE x # d
    BY <2>1 DEF SessionTypeOK
  <2>2. CASE x = d /\ i # Len(log'[d])
    <3>1. i \in 1..(Len(log'[d]) - 1)
      BY <2>2
    <3> QED BY <2>2, <3>1 DEF SessionTypeOK
  <2>3. CASE x = d /\ i = Len(log'[d]) /\ ~open[d]
    <3>1. log'[x][i] = <<piece>>
      BY <2>3
    <3> HIDE PutLog
    <3> QED BY <3>1
  <2>4. CASE x = d /\ i = Len(log'[d]) /\ open[d]
    <3>1. log[d][i] \in Seq(Pieces)
      BY <2>4 DEF LogType
    <3> QED BY <2>4, <3>1
  <2> QED BY <2>1, <2>2, <2>3, <2>4
<1>4. log'[d] # <<>>
  BY <1>1, PutLog
<1> QED
  BY <1>2, <1>3, <1>4

LEMMA WritesType ==
  ASSUME SessionTypeOK, NEW a \in Callers, NEW o \in BOOLEAN,
         NEW piece \in {Fragment, hook[a]}, Writes(a, piece, o),
         torn' \in 0..MaxFaults, failed' + torn' <= MaxFaults
  PROVE  SessionTypeOK'
<1> USE LogTyped
<1>1. hook[a] \in Events /\ hook[a].dir \in Dirs /\ piece \in Pieces
      /\ (piece # Fragment => piece.dir = hook[a].dir)
  BY EventFields DEF Writes, Pieces
<1>2. LogType'
  BY <1>1, PutLog DEF Writes
<1>3. open' \in [Dirs -> BOOLEAN] /\ \A x \in Dirs : x # hook[a].dir => open'[x] = open[x]
  BY <1>1 DEF Writes
<1>4. \A x \in Dirs : x # hook[a].dir => log'[x] = log[x]
  BY <1>1, PutLog DEF Writes
<1>5. Put(hook[a].dir, piece)
  BY DEF Writes
<1>6. \A x \in Dirs :
        /\ open'[x] => log'[x] # <<>>
        /\ \A i \in DOMAIN log'[x] :
             /\ log'[x][i] # <<>>
             /\ \A j \in DOMAIN log'[x][i] : log'[x][i][j] # Fragment => log'[x][i][j].dir = x
  BY <1>1, <1>3, <1>4, <1>5, LinesOK
<1>7. /\ hook' \in [Callers -> Events \cup {Nothing}]
      /\ suite' = suite /\ calls' = calls /\ failed' = failed
  BY DEF Writes, HookEnds
<1> QED
  BY <1>2, <1>3, <1>6, <1>7 DEF SessionTypeOK, LogType, Pieces, Faults

LEMMA SessionTypeStep ==
  ASSUME SessionTypeOK, [SessionNext]_sessionVars
  PROVE  SessionTypeOK'
<1> USE LogTyped
<1>1. CASE UNCHANGED sessionVars
  BY <1>1 DEF sessionVars, files, SessionTypeOK, Faults
<1>2. ASSUME NEW a \in Callers, NEW e \in Events, Asks(a, e)
      PROVE  SessionTypeOK'
  <2>1. /\ hook' \in [Callers -> Events \cup {Nothing}] /\ calls' \in 0..MaxCalls
        /\ UNCHANGED <<log, open, failed, torn>> /\ suite' \in [Tests -> Statuses]
    BY <1>2 DEF Asks, ToolCall, files
  <2> QED BY <2>1 DEF SessionTypeOK, Faults
<1>3. ASSUME NEW a \in Callers, HookFails(a)
      PROVE  SessionTypeOK'
  <2>1. /\ hook' \in [Callers -> Events \cup {Nothing}]
        /\ failed' \in 0..MaxFaults /\ failed' + torn <= MaxFaults
        /\ UNCHANGED <<suite, calls, log, open, torn>>
    BY <1>3 DEF HookFails, HookEnds, Faults, files
  <2> QED BY <2>1 DEF SessionTypeOK, Faults
<1>4. ASSUME NEW a \in Callers, Writes(a, hook[a], FALSE), torn' = torn
      PROVE  SessionTypeOK'
  <2>1. failed' = failed
    BY <1>4 DEF Writes
  <2> QED BY <1>4, <2>1, WritesType
<1>5. ASSUME NEW a \in Callers, NEW piece \in {Fragment, hook[a]},
             Writes(a, piece, TRUE), torn' = torn + 1, Faults < MaxFaults
      PROVE  SessionTypeOK'
  <2>1. failed' = failed /\ torn' \in 0..MaxFaults /\ failed' + torn' <= MaxFaults
    BY <1>5 DEF Writes, Faults
  <2> QED BY <1>5, <2>1, WritesType
<1> QED
  BY <1>1, <1>2, <1>3, <1>4, <1>5, StepCases

LEMMA SessionInitType == SessionInit => SessionTypeOK
<1> SUFFICES ASSUME SessionInit
             PROVE  SessionTypeOK
  OBVIOUS
<1>1. <<>> \in Seq(Seq({Fragment} \cup Events))
  OBVIOUS
<1>2. MaxCalls \in Nat /\ MaxFaults \in Nat
  BY SessionAssumption DEF SessionAssumption
<1>3. \A d \in Dirs : log[d] = <<>> /\ DOMAIN log[d] = {}
  BY DEF SessionInit
<1> QED
  BY <1>1, <1>2, <1>3 DEF SessionInit, SessionTypeOK, Faults

(* The suite, the hooks, the logs and their lines are well-formed for any  *)
(* number of calls, directories, tests and failing hooks.                  *)
THEOREM SessionTypeCorrect == SessionSpec => []SessionTypeOK
<1>1. SessionTypeOK /\ [SessionNext]_sessionVars => SessionTypeOK'
  BY SessionTypeStep
<1> QED
  BY SessionInitType, <1>1, PTL DEF SessionSpec

(* ------------------------------ The review ----------------------------- *)

(* What hooks have to record and what logs hold.                           *)
Known(e) == (\E a \in Callers : hook[a] = e) \/ \E d \in Dirs : \E i : Holds(d, i, e)

EventsFit == \A e \in Events : Known(e) => Fits(e)

LEMMA WritesKnown ==
  ASSUME SessionTypeOK, NEW a \in Callers, NEW o \in BOOLEAN,
         NEW piece \in {Fragment, hook[a]}, Writes(a, piece, o),
         NEW e \in Events
  PROVE  /\ hook[a] \in Events /\ hook[a].dir \in Dirs
         /\ Put(hook[a].dir, piece) /\ piece \in Pieces
         /\ \A b \in Callers : hook'[b] = IF b = a THEN Nothing ELSE hook[b]
         /\ \A d \in Dirs : \A i : Holds(d, i, e)' =>
              Holds(d, i, e) \/ (e = hook[a] /\ d = hook[a].dir /\ i = Len(log'[d]))
         /\ Known(e)' => Known(e)
<1>1. hook[a] \in Events /\ hook[a].dir \in Dirs /\ piece \in Pieces
  BY LogTyped, EventFields DEF Writes, Pieces
<1>2. Put(hook[a].dir, piece)
  BY DEF Writes
<1>3. \A b \in Callers : hook'[b] = IF b = a THEN Nothing ELSE hook[b]
  BY LogTyped DEF Writes, HookEnds
<1>4. ASSUME NEW d \in Dirs, NEW i, Holds(d, i, e)'
      PROVE  Holds(d, i, e) \/ (e = hook[a] /\ d = hook[a].dir /\ i = Len(log'[d]))
  <2>1. Holds(d, i, e) \/ (d = hook[a].dir /\ i = Len(log'[hook[a].dir]) /\ e = piece)
    BY <1>1, <1>2, <1>4, LogTyped, PutHolds
  <2> QED BY <2>1, EventFields
<1>5. Known(e)' => Known(e)
  <2>1. ASSUME NEW b \in Callers, hook'[b] = e
        PROVE  Known(e)
    BY <1>3, <2>1, EventFields DEF Known
  <2>2. ASSUME NEW d \in Dirs, NEW i, Holds(d, i, e)'
        PROVE  Known(e)
    BY <1>4, <2>2 DEF Known
  <2> QED BY <2>1, <2>2 DEF Known
<1> QED
  BY <1>1, <1>2, <1>3, <1>4, <1>5

LEMMA KnownStep ==
  ASSUME SessionTypeOK, [SessionNext]_sessionVars, NEW e \in Events, Known(e)'
  PROVE  Known(e) \/ \E a \in Callers : Asks(a, e)
<1>1. CASE UNCHANGED sessionVars
  BY <1>1 DEF sessionVars, files, Known, Holds
<1>2. ASSUME NEW a \in Callers, NEW f \in Events, Asks(a, f)
      PROVE  Known(e) \/ Asks(a, e)
  <2>1. hook' = [hook EXCEPT ![a] = f] /\ log' = log
    BY <1>2 DEF Asks, ToolCall, files
  <2>2. \A b \in Callers : hook'[b] = e => hook[b] = e \/ (b = a /\ e = f)
    BY <2>1, LogTyped
  <2> QED BY <1>2, <2>1, <2>2 DEF Known, Holds
<1>3. ASSUME NEW a \in Callers, HookFails(a)
      PROVE  Known(e)
  <2>1. hook' = [hook EXCEPT ![a] = Nothing] /\ log' = log
    BY <1>3 DEF HookFails, HookEnds, files
  <2>2. \A b \in Callers : hook'[b] = e => hook[b] = e
    BY <2>1, LogTyped, EventFields
  <2> QED BY <2>1, <2>2 DEF Known, Holds
<1>4. ASSUME NEW a \in Callers, NEW o \in BOOLEAN, NEW piece \in {Fragment, hook[a]},
             Writes(a, piece, o)
      PROVE  Known(e)
  BY <1>4, WritesKnown
<1> QED
  BY <1>1, <1>2, <1>3, <1>4, StepCases

ReviewInv == SessionTypeOK /\ EventsFit

LEMMA ReviewInitially == SessionInit => ReviewInv
<1> SUFFICES ASSUME SessionInit
             PROVE  EventsFit
  BY SessionInitType DEF ReviewInv
<1>1. ASSUME NEW e \in Events
      PROVE  ~Known(e)
  BY EventFields DEF SessionInit, Known, Holds
<1> QED
  BY <1>1 DEF EventsFit

LEMMA ReviewStep == ReviewInv /\ [SessionNext]_sessionVars => ReviewInv'
<1> SUFFICES ASSUME ReviewInv, [SessionNext]_sessionVars
             PROVE  EventsFit'
  BY SessionTypeStep DEF ReviewInv
<1>1. ASSUME NEW e \in Events, Known(e)'
      PROVE  Fits(e)
  BY <1>1, KnownStep DEF ReviewInv, EventsFit, Asks
<1>2. \A e \in Events : Known(e)' => Fits(e)
  BY <1>1
<1> QED
  BY <1>2 DEF EventsFit, Fits

LEMMA LinesKnown ==
  ASSUME SessionTypeOK, NEW d \in Dirs, NEW i \in LoadEvents(d)
  PROVE  /\ Event(d, i) \in Events /\ Holds(d, i, Event(d, i))
         /\ i \in 1..Len(log[d]) /\ Len(log[d]) \in Nat
<1>1. i \in DOMAIN log[d] /\ log[d] \in Seq(Seq(Pieces)) /\ Len(log[d]) \in Nat
      /\ DOMAIN log[d] = 1..Len(log[d])
  BY LogTyped DEF LoadEvents, LogType
<1>2. log[d][i] \in Seq(Pieces) /\ Len(log[d][i]) = 1 /\ log[d][i][1] # Fragment
  BY <1>1 DEF LoadEvents, Parses
<1>3. 1 \in DOMAIN log[d][i] /\ log[d][i][1] \in Pieces
  BY <1>2
<1> QED
  BY <1>1, <1>2, <1>3 DEF Event, Holds, Pieces

LEMMA RunsFit ==
  ASSUME ReviewInv, NEW d \in Dirs, NEW i \in TestRuns(d)
  PROVE  /\ i \in LoadEvents(d) /\ i \in 1..Len(log[d]) /\ Len(log[d]) \in Nat
         /\ Event(d, i).out \in Results /\ Event(d, i).command \in Cmds
         /\ Event(d, i).was \in [Tests -> Statuses] \cup {Nothing}
         /\ Event(d, i).was # Nothing => Event(d, i).out = Result(Event(d, i).was)
<1>1. i \in LoadEvents(d) /\ Event(d, i).tool = "Bash" /\ Event(d, i).out # Nothing
  BY DEF TestRuns
<1>2. Event(d, i) \in Events /\ Known(Event(d, i))
  BY <1>1, LinesKnown DEF ReviewInv, Known
<1>3. Fits(Event(d, i))
  BY <1>2 DEF ReviewInv, EventsFit
<1> QED
  BY <1>1, <1>2, <1>3, EventFields, LinesKnown DEF Fits, ReviewInv

(* A group has a first and a last run, of one command.                     *)
LEMMA GroupEnds ==
  ASSUME ReviewInv, NEW d \in Dirs, NEW g \in GroupByCommand(d)
  PROVE  \E i, j \in TestRuns(d) :
           /\ First(d, g) = Event(d, i) /\ Last(d, g) = Event(d, j)
           /\ Event(d, i).command = Event(d, j).command
<1>1. PICK r \in TestRuns(d) :
        g = {i \in TestRuns(d) : Event(d, i).command = Event(d, r).command}
  BY DEF GroupByCommand
<1>2. g \subseteq TestRuns(d) /\ g # {}
  BY <1>1
<1>3. Len(log[d]) \in Nat /\ \A i \in g : i \in 1..Len(log[d])
  BY <1>1, <1>2, RunsFit
<1>4. g \subseteq Nat /\ g \subseteq 0..Len(log[d])
  BY <1>3
<1>5. \E i \in g : \A j \in g : i <= j
  BY <1>2, <1>4, Smallest
<1>6. \E i \in g : \A j \in g : j <= i
  BY <1>2, <1>3, <1>4, Largest
<1> DEFINE f == CHOOSE i \in g : \A j \in g : i <= j
           l == CHOOSE i \in g : \A j \in g : j <= i
<1>7. f \in g /\ l \in g
  BY <1>5, <1>6
<1>8. First(d, g) = Event(d, f) /\ Last(d, g) = Event(d, l)
  BY DEF First, Last
<1>9. f \in TestRuns(d) /\ l \in TestRuns(d) /\ Event(d, f).command = Event(d, l).command
  <2> HIDE DEF f, l
  <2> QED BY <1>1, <1>7
<1> HIDE DEF f, l
<1> QED
  BY <1>8, <1>9

LEMMA ChangeBounded ==
  ASSUME ReviewInv, NEW d \in Dirs, NEW g \in GroupByCommand(d),
         NEW key \in {"total", "silenced"}, NEW direction
  PROVE  /\ Change(d, g, key, direction) \in Int /\ Cardinality(Tests) + 1 \in Nat
         /\ Change(d, g, key, direction) <= Cardinality(Tests) + 1
<1>1. First(d, g).out \in Results /\ Last(d, g).out \in Results
  BY GroupEnds, RunsFit
<1>2. Cardinality(Tests) \in Nat
  BY SessionAssumption, FS_CardinalityType DEF SessionAssumption
<1>3. \A r \in Results : r[key] \in 0..(Cardinality(Tests) + 1)
  BY DEF Results
<1>4. First(d, g).out[key] \in 0..(Cardinality(Tests) + 1)
      /\ Last(d, g).out[key] \in 0..(Cardinality(Tests) + 1)
  BY <1>1, <1>3
<1> QED
  BY <1>2, <1>4 DEF Change

(* If a group has changed, a flag is about one.                            *)
LEMMA ChangeFlagged ==
  ASSUME ReviewInv, NEW d \in Dirs, NEW g \in GroupByCommand(d),
         NEW key \in {"total", "silenced"}, NEW direction,
         Change(d, g, key, direction) > 0
  PROVE  LargestChange(d, key, direction) # {}
<1> DEFINE B == Cardinality(Tests) + 1
           G == {o \in GroupByCommand(d) : Change(d, o, key, direction) > 0}
           V == {Change(d, o, key, direction) : o \in G}
<1>1. \A o \in GroupByCommand(d) :
        Change(d, o, key, direction) \in Int /\ B \in Nat /\ Change(d, o, key, direction) <= B
  BY ChangeBounded
<1>2. V \subseteq 0..B /\ V # {} /\ B \in Nat
  <2> HIDE DEF B
  <2>1. \A o \in G : Change(d, o, key, direction) \in 0..B
    BY <1>1
  <2>2. g \in G
    OBVIOUS
  <2> HIDE DEF G
  <2> QED BY <1>1, <2>1, <2>2
<1>3. PICK v \in V : \A w \in V : w <= v
  <2> HIDE DEF V, B
  <2> QED BY <1>2, Largest
<1>4. PICK o \in G : v = Change(d, o, key, direction)
  BY <1>3
<1>5. ASSUME NEW p \in GroupByCommand(d)
      PROVE  Change(d, p, key, direction) <= Change(d, o, key, direction)
  <2>1. CASE p \in G
    <3>1. Change(d, p, key, direction) \in V
      BY <2>1
    <3> QED BY <1>3, <1>4, <3>1
  <2>2. CASE p \notin G
    <3>1. ~(Change(d, p, key, direction) > 0) /\ Change(d, o, key, direction) > 0
      BY <2>2
    <3>2. Change(d, p, key, direction) \in Int /\ Change(d, o, key, direction) \in Int
      BY <1>1
    <3> QED BY <3>1, <3>2
  <2> QED BY <2>1, <2>2
<1> QED
  BY <1>4, <1>5 DEF LargestChange

LEMMA ReviewOf ==
  ASSUME NEW d \in Dirs, NEW g \in GroupByCommand(d)
  PROVE  /\ Review(d).drop = LargestChange(d, "total", "down")
         /\ Review(d).silenced = LargestChange(d, "silenced", "up")
<1>1. LoadEvents(d) # {}
  BY DEF GroupByCommand, TestRuns
<1> QED
  BY <1>1 DEF Review, Analyze

LEMMA NoFalseAlarmHolds == ReviewInv => NoFalseAlarm
<1> SUFFICES ASSUME ReviewInv, NEW d \in Dirs, NEW g \in GroupByCommand(d)
             PROVE  LET first == First(d, g)
                        last  == Last(d, g)
                    IN /\ g \in Review(d).drop /\ Comparable(first, last) =>
                            \E t \in Present(first.was) : t \notin Present(last.was)
                       /\ g \in Review(d).silenced /\ Comparable(first, last) =>
                            \E t \in In(last.was, {"skip"}) : t \notin In(first.was, {"skip"})
                       /\ g \in Review(d).drop \cup Review(d).silenced =>
                            first.command \in Cmds /\ first.command = last.command
  BY DEF NoFalseAlarm
<1> DEFINE first == First(d, g)
           last  == Last(d, g)
<1>1. /\ first.command \in Cmds /\ first.command = last.command
      /\ first.was # Nothing => first.out = Result(first.was)
      /\ last.was # Nothing => last.out = Result(last.was)
  BY GroupEnds, RunsFit
<1> HIDE DEF first, last
<1>2. ASSUME g \in Review(d).drop, Comparable(first, last)
      PROVE  \E t \in Present(first.was) : t \notin Present(last.was)
  <2>1. Change(d, g, "total", "down") > 0
    BY <1>2, ReviewOf DEF LargestChange
  <2>2. first.out.total > last.out.total
    <3>1. first.out.total \in Int /\ last.out.total \in Int
      BY <1>1, <1>2, OutcomesCounted DEF Comparable, Result
    <3> QED BY <2>1, <3>1 DEF Change, first, last
  <2>3. Cardinality(Present(first.was)) > Cardinality(Present(last.was))
    BY <1>1, <1>2, <2>2 DEF Comparable, Result, Present
  <2>4. CASE Present(first.was) \subseteq Present(last.was)
    <3>1. /\ Cardinality(Present(first.was)) <= Cardinality(Present(last.was))
          /\ Cardinality(Present(first.was)) \in Int /\ Cardinality(Present(last.was)) \in Int
      BY <2>4, OutcomesCounted, FS_Subset DEF Present
    <3> QED BY <2>3, <3>1
  <2> QED BY <2>4
<1>3. ASSUME g \in Review(d).silenced, Comparable(first, last)
      PROVE  \E t \in In(last.was, {"skip"}) : t \notin In(first.was, {"skip"})
  <2>1. Change(d, g, "silenced", "up") > 0
    BY <1>3, ReviewOf DEF LargestChange
  <2>2. last.out.silenced > first.out.silenced
    <3>1. first.out.silenced \in Int /\ last.out.silenced \in Int
      BY <1>1, <1>3, OutcomesCounted DEF Comparable, Result
    <3> QED BY <2>1, <3>1 DEF Change, first, last
  <2>3. Cardinality(In(last.was, {"skip"})) > Cardinality(In(first.was, {"skip"}))
    BY <1>1, <1>3, <2>2 DEF Comparable, Result
  <2>4. CASE In(last.was, {"skip"}) \subseteq In(first.was, {"skip"})
    <3>1. /\ Cardinality(In(last.was, {"skip"})) <= Cardinality(In(first.was, {"skip"}))
          /\ Cardinality(In(last.was, {"skip"})) \in Int
          /\ Cardinality(In(first.was, {"skip"})) \in Int
      BY <2>4, OutcomesCounted, FS_Subset
    <3> QED BY <2>3, <3>1
  <2> QED BY <2>4
<1> QED
  BY <1>1, <1>2, <1>3 DEF first, last

LEMMA Smaller ==
  ASSUME NEW s, NEW t, NEW low, NEW high, In(s, low) \subseteq In(t, high),
         In(s, low) # In(t, high)
  PROVE  Cardinality(In(t, high)) - Cardinality(In(s, low)) > 0
<1>1. /\ Cardinality(In(s, low)) <= Cardinality(In(t, high))
      /\ Cardinality(In(s, low)) # Cardinality(In(t, high))
      /\ Cardinality(In(s, low)) \in Int /\ Cardinality(In(t, high)) \in Int
  BY OutcomesCounted, FS_Subset
<1> QED
  BY <1>1

LEMMA ShortcutsFlaggedHolds == ReviewInv => ShortcutsFlagged
<1> SUFFICES ASSUME ReviewInv, NEW d \in Dirs, NEW g \in GroupByCommand(d),
                    Comparable(First(d, g), Last(d, g)),
                    In(First(d, g).was, {"fail"}) # {}, In(Last(d, g).was, {"fail"}) = {},
                    In(First(d, g).was, {"fail"}) \cap In(Last(d, g).was, {"pass"}) = {},
                    Present(Last(d, g).was) \subseteq Present(First(d, g).was),
                    Active(Last(d, g).was) \subseteq Active(First(d, g).was)
             PROVE  Review(d).drop # {} \/ Review(d).silenced # {}
  BY DEF ShortcutsFlagged
<1> DEFINE first == First(d, g)
           last  == Last(d, g)
<1>1. first.was # Nothing /\ last.was # Nothing
  BY DEF Comparable
<1>2. first.out = Result(first.was) /\ last.out = Result(last.was)
  BY <1>1, GroupEnds, RunsFit
<1>3. CASE Present(last.was) # Present(first.was)
  <2>1. Cardinality(Present(first.was)) - Cardinality(Present(last.was)) > 0
    BY <1>3, Smaller DEF Present
  <2>2. Change(d, g, "total", "down") > 0
    BY <1>2, <2>1 DEF Change, Result, Present
  <2> QED BY <2>2, ChangeFlagged, ReviewOf
<1>4. CASE Present(last.was) = Present(first.was)
  <2>1. PICK t \in Tests : first.was[t] = "fail"
    BY DEF In
  <2>2. \A u \in Tests : /\ first.was[u] = "skip" => last.was[u] = "skip"
                         /\ first.was[u] = "fail" => last.was[u] = "skip"
    BY <1>4 DEF In, Present, Active
  <2>3. In(first.was, {"skip"}) \subseteq In(last.was, {"skip"})
        /\ In(first.was, {"skip"}) # In(last.was, {"skip"})
    BY <2>1, <2>2 DEF In
  <2>4. Cardinality(In(last.was, {"skip"})) - Cardinality(In(first.was, {"skip"})) > 0
    BY <2>3, Smaller
  <2>5. Change(d, g, "silenced", "up") > 0
    BY <1>2, <2>4 DEF Change, Result
  <2> QED BY <2>5, ChangeFlagged, ReviewOf
<1> QED
  BY <1>3, <1>4

(* A flag is about tests that are gone, or skipped, for any number of      *)
(* tests, commands, calls, directories and hooks that fail.                *)
THEOREM FlagsAreTrue == SessionSpec => []NoFalseAlarm
BY ReviewInitially, ReviewStep, NoFalseAlarmHolds, PTL DEF SessionSpec

(* Failing tests that were deleted or skipped are flagged.                 *)
THEOREM ShortcutsAreFlagged == SessionSpec => []ShortcutsFlagged
BY ReviewInitially, ReviewStep, ShortcutsFlaggedHolds, PTL DEF SessionSpec

(* ---------------------------- What is missing -------------------------- *)

(* A call has its number for itself, and its event is with its hook or in  *)
(* one line.                                                               *)
KnownBefore == \A e \in Events : Known(e) => e.n < calls

OneHook == \A a, b \in Callers :
  hook[a] # Nothing /\ hook[b] # Nothing /\ hook[a].n = hook[b].n => a = b

HookOrLog == \A a \in Callers, d \in Dirs, e \in Events : \A i :
  hook[a] # Nothing /\ Holds(d, i, e) => e.n # hook[a].n

OneLine == \A d, x \in Dirs, e, f \in Events : \A i, k :
  Holds(d, i, e) /\ Holds(x, k, f) /\ e.n = f.n => d = x /\ i = k

NumberInv == SessionTypeOK /\ KnownBefore /\ OneHook /\ HookOrLog /\ OneLine

LEMMA AsksNumbers ==
  ASSUME NumberInv, NEW a \in Callers, NEW c \in Events, Asks(a, c)
  PROVE  KnownBefore' /\ OneHook' /\ HookOrLog' /\ OneLine'
<1>1. /\ calls' = calls + 1 /\ calls \in Nat /\ log' = log /\ c.n = calls /\ c # Nothing
      /\ \A b \in Callers : hook'[b] = IF b = a THEN c ELSE hook[b]
  BY LogTyped, EventFields DEF NumberInv, Asks, ToolCall, files
<1>2. \A d, i, e : Holds(d, i, e)' <=> Holds(d, i, e)
  BY <1>1 DEF Holds
<1>3. \A e \in Events : e.n \in Nat
  BY EventFields
<1>4. \A b \in Callers : hook[b] # Nothing => hook[b] \in Events /\ hook[b].n < calls
  BY LogTyped DEF NumberInv, KnownBefore, Known
<1>5. \A d \in Dirs, e \in Events : \A i : Holds(d, i, e) => e.n < calls
  BY DEF NumberInv, KnownBefore, Known
<1>6. KnownBefore'
  <2>1. ASSUME NEW e \in Events, NEW b \in Callers, hook'[b] = e
        PROVE  e.n < calls'
    BY <1>1, <1>3, <1>4, <2>1, EventFields
  <2>2. ASSUME NEW e \in Events, NEW d \in Dirs, NEW i, Holds(d, i, e)'
        PROVE  e.n < calls'
    BY <1>1, <1>2, <1>3, <1>5, <2>2
  <2> QED BY <2>1, <2>2 DEF KnownBefore, Known
<1>7. OneHook'
  <2>1. ASSUME NEW b \in Callers, NEW e \in Callers, hook'[b] # Nothing, hook'[e] # Nothing,
               hook'[b].n = hook'[e].n
        PROVE  b = e
    BY <1>1, <1>3, <1>4, <2>1 DEF NumberInv, OneHook
  <2> QED BY <2>1 DEF OneHook
<1>8. HookOrLog'
  <2>1. ASSUME NEW b \in Callers, NEW d \in Dirs, NEW e \in Events, NEW i,
               hook'[b] # Nothing, Holds(d, i, e)'
        PROVE  e.n # hook'[b].n
    <3>1. Holds(d, i, e) /\ e.n < calls /\ e.n \in Nat
      BY <1>2, <1>3, <1>5, <2>1
    <3>2. CASE b = a
      BY <1>1, <3>1, <3>2
    <3>3. CASE b # a
      BY <1>1, <2>1, <3>1, <3>3 DEF NumberInv, HookOrLog
    <3> QED BY <3>2, <3>3
  <2> QED BY <2>1 DEF HookOrLog
<1>9. OneLine'
  BY <1>2 DEF NumberInv, OneLine
<1> QED
  BY <1>6, <1>7, <1>8, <1>9

LEMMA WritesNumbers ==
  ASSUME NumberInv, NEW a \in Callers, NEW o \in BOOLEAN,
         NEW piece \in {Fragment, hook[a]}, Writes(a, piece, o)
  PROVE  KnownBefore' /\ OneHook' /\ HookOrLog' /\ OneLine'
<1> DEFINE New(d, i, e) == e = hook[a] /\ d = hook[a].dir /\ i = Len(log'[d])
<1>1. /\ \A e \in Events : Known(e)' => Known(e)
      /\ \A b \in Callers : hook'[b] = IF b = a THEN Nothing ELSE hook[b]
      /\ \A e \in Events, d \in Dirs : \A i : Holds(d, i, e)' => Holds(d, i, e) \/ New(d, i, e)
      /\ hook[a] \in Events
  <2>1. hook[a] \in Events
    BY LogTyped DEF NumberInv, Writes
  <2> QED BY <2>1, WritesKnown DEF NumberInv
<1>2. calls' = calls
  BY DEF Writes
<1>3. hook[a] # Nothing
  BY DEF Writes
<1>4. KnownBefore'
  BY <1>1, <1>2 DEF NumberInv, KnownBefore
<1>5. OneHook'
  BY <1>1 DEF NumberInv, OneHook
<1>6. HookOrLog'
  <2>1. ASSUME NEW b \in Callers, NEW d \in Dirs, NEW e \in Events, NEW i,
               hook'[b] # Nothing, Holds(d, i, e)'
        PROVE  e.n # hook'[b].n
    <3>1. b # a /\ hook'[b] = hook[b]
      BY <1>1, <2>1
    <3>2. CASE Holds(d, i, e)
      BY <2>1, <3>1, <3>2 DEF NumberInv, HookOrLog
    <3>3. CASE New(d, i, e)
      BY <1>3, <2>1, <3>1, <3>3 DEF NumberInv, OneHook
    <3> QED BY <1>1, <2>1, <3>2, <3>3
  <2> QED BY <2>1 DEF HookOrLog
<1>7. OneLine'
  <2>1. ASSUME NEW d \in Dirs, NEW x \in Dirs, NEW e \in Events, NEW f \in Events, NEW i, NEW k,
               Holds(d, i, e)', Holds(x, k, f)', e.n = f.n
        PROVE  d = x /\ i = k
    <3>1. CASE Holds(d, i, e) /\ Holds(x, k, f)
      BY <2>1, <3>1 DEF NumberInv, OneLine
    <3>2. CASE Holds(d, i, e) /\ New(x, k, f)
      BY <1>3, <2>1, <3>2 DEF NumberInv, HookOrLog
    <3>3. CASE New(d, i, e) /\ Holds(x, k, f)
      BY <1>3, <2>1, <3>3 DEF NumberInv, HookOrLog
    <3>4. CASE New(d, i, e) /\ New(x, k, f)
      BY <3>4
    <3> QED BY <1>1, <2>1, <3>1, <3>2, <3>3, <3>4
  <2> QED BY <2>1 DEF OneLine
<1> QED
  BY <1>4, <1>5, <1>6, <1>7

LEMMA NumbersInitially == SessionInit => NumberInv
<1> SUFFICES ASSUME SessionInit
             PROVE  NumberInv
  OBVIOUS
<1>1. \A d \in Dirs : \A i, e : ~Holds(d, i, e)
  BY DEF SessionInit, Holds
<1>2. \A a \in Callers : hook[a] = Nothing
  BY DEF SessionInit
<1>3. \A e \in Events : ~Known(e)
  BY <1>1, <1>2, EventFields DEF Known
<1> QED
  BY <1>1, <1>2, <1>3, SessionInitType
     DEF NumberInv, KnownBefore, OneHook, HookOrLog, OneLine

LEMMA NumbersStep == NumberInv /\ [SessionNext]_sessionVars => NumberInv'
<1> SUFFICES ASSUME NumberInv, [SessionNext]_sessionVars
             PROVE  KnownBefore' /\ OneHook' /\ HookOrLog' /\ OneLine'
  BY SessionTypeStep DEF NumberInv
<1>1. CASE UNCHANGED sessionVars
  BY <1>1 DEF sessionVars, files, NumberInv, KnownBefore, OneHook, HookOrLog, OneLine,
     Known, Holds
<1>2. ASSUME NEW a \in Callers, HookFails(a)
      PROVE  KnownBefore' /\ OneHook' /\ HookOrLog' /\ OneLine'
  <2>1. /\ log' = log /\ calls' = calls
        /\ \A b \in Callers : hook'[b] = IF b = a THEN Nothing ELSE hook[b]
    BY <1>2, LogTyped DEF NumberInv, HookFails, HookEnds, files
  <2>2. \A d, i, e : Holds(d, i, e)' <=> Holds(d, i, e)
    BY <2>1 DEF Holds
  <2>3. \A e \in Events : Known(e)' => Known(e)
    BY <2>1, <2>2, EventFields DEF Known
  <2>4. KnownBefore' /\ OneHook'
    BY <2>1, <2>3 DEF NumberInv, KnownBefore, OneHook
  <2>5. HookOrLog' /\ OneLine'
    BY <2>1, <2>2 DEF NumberInv, HookOrLog, OneLine
  <2> QED BY <2>4, <2>5
<1> QED
  BY <1>1, <1>2, StepCases, AsksNumbers, WritesNumbers DEF NumberInv

(* The numbers hooks have to record; those that are nowhere any more.  The *)
(* logs with an open line, and those whose open line is an event that the  *)
(* next piece will spoil: each may cost one more.                          *)
Held    == {hook[a].n : a \in Running}
Missing == {n \in 0..(calls - 1) : n \notin Seen /\ n \notin Held}
Opened  == {d \in Dirs : open[d]}
Fragile == {d \in Opened : Len(log[d]) \in LoadEvents(d)}

CountInv ==
  Cardinality(Missing) + Cardinality(Opened) + Cardinality(Fragile) <= failed + 2 * torn

LEMMA SetsFinite ==
  ASSUME SessionTypeOK
  PROVE  /\ IsFiniteSet(Missing) /\ IsFiniteSet(Opened) /\ IsFiniteSet(Fragile)
         /\ Cardinality(Missing) \in Nat /\ Cardinality(Opened) \in Nat
         /\ Cardinality(Fragile) \in Nat /\ IsFiniteSet(0..(calls - 1))
         /\ Cardinality(0..(calls - 1)) = calls /\ calls \in Nat
<1>1. calls \in Nat /\ IsFiniteSet(Dirs)
  BY LogTyped, SessionAssumption DEF SessionAssumption
<1>2. IsFiniteSet(0..(calls - 1)) /\ Cardinality(0..(calls - 1)) = calls
  <2>1. calls - 1 \in Int /\ 0 \in Int
    BY <1>1
  <2>2. /\ IsFiniteSet(0..(calls - 1))
        /\ Cardinality(0..(calls - 1)) = IF 0 > calls - 1 THEN 0 ELSE (calls - 1) - 0 + 1
    BY <2>1, FS_Interval
  <2> QED BY <1>1, <2>2
<1>3. Missing \subseteq 0..(calls - 1) /\ Opened \subseteq Dirs /\ Fragile \subseteq Dirs
  BY DEF Missing, Opened, Fragile
<1>4. IsFiniteSet(Missing) /\ IsFiniteSet(Opened) /\ IsFiniteSet(Fragile)
  BY <1>1, <1>2, <1>3, FS_Subset
<1> QED
  BY <1>1, <1>2, <1>4, FS_CardinalityType

LEMMA OneMore ==
  ASSUME NEW S, IsFiniteSet(S), NEW T, NEW x, T \subseteq S \cup {x}
  PROVE  IsFiniteSet(T) /\ Cardinality(T) \in Nat /\ Cardinality(T) <= Cardinality(S) + 1
<1>1. /\ IsFiniteSet(S \cup {x}) /\ Cardinality(S \cup {x}) <= Cardinality(S) + 1
      /\ Cardinality(S) \in Nat /\ Cardinality(S \cup {x}) \in Nat
  BY FS_AddElement, FS_CardinalityType
<1>2. IsFiniteSet(T) /\ Cardinality(T) <= Cardinality(S \cup {x}) /\ Cardinality(T) \in Nat
  BY <1>1, FS_Subset, FS_CardinalityType
<1> QED
  BY <1>1, <1>2

LEMMA TwoMore ==
  ASSUME NEW S, IsFiniteSet(S), NEW T, NEW x, NEW y, T \subseteq S \cup {x, y}
  PROVE  Cardinality(T) <= Cardinality(S) + 2
<1>1. T \subseteq (S \cup {x}) \cup {y} /\ S \cup {x} \subseteq S \cup {x}
  OBVIOUS
<1>2. IsFiniteSet(S \cup {x}) /\ Cardinality(S \cup {x}) <= Cardinality(S) + 1
      /\ Cardinality(S \cup {x}) \in Nat /\ Cardinality(S) \in Nat
  BY <1>1, OneMore, FS_CardinalityType
<1>3. Cardinality(T) <= Cardinality(S \cup {x}) + 1 /\ Cardinality(T) \in Nat
  BY <1>1, <1>2, OneMore
<1> QED
  BY <1>2, <1>3

LEMMA AtMostSum ==
  ASSUME NEW S, NEW T, IsFiniteSet(S), IsFiniteSet(T)
  PROVE  /\ IsFiniteSet(S \cup T) /\ Cardinality(S \cup T) \in Nat
         /\ Cardinality(S \cup T) <= Cardinality(S) + Cardinality(T)
<1>1. IsFiniteSet(S \cup T) /\ IsFiniteSet(S \cap T)
      /\ Cardinality(S \cup T) = Cardinality(S) + Cardinality(T) - Cardinality(S \cap T)
  BY FS_Union, FS_Intersection
<1>2. /\ Cardinality(S) \in Nat /\ Cardinality(T) \in Nat /\ Cardinality(S \cup T) \in Nat
      /\ Cardinality(S \cap T) \in Nat
  BY <1>1, FS_CardinalityType
<1> QED
  BY <1>1, <1>2

LEMMA OneLess ==
  ASSUME NEW S, IsFiniteSet(S), NEW T, NEW x \in S, T \subseteq S \ {x}
  PROVE  Cardinality(T) <= Cardinality(S) - 1
<1>1. IsFiniteSet(S \ {x}) /\ Cardinality(S \ {x}) = Cardinality(S) - 1
  BY FS_RemoveElement
<1> QED
  BY <1>1, FS_Subset

(* What a piece does to the lines that can be read.                        *)
LEMMA PutEvents ==
  ASSUME SessionTypeOK, NEW d \in Dirs, NEW piece \in Pieces, Put(d, piece)
  PROVE  /\ \A x \in Dirs : \A i \in LoadEvents(x) :
              \/ i \in LoadEvents(x)' /\ Event(x, i)' = Event(x, i)
              \/ open[d] /\ x = d /\ i = Len(log[d])
         /\ \A x \in Dirs : x # d => LoadEvents(x)' = LoadEvents(x)
         /\ open[d] => Len(log'[d]) \notin LoadEvents(d)'
         /\ ~open[d] /\ piece # Fragment =>
              (Len(log[d]) \in LoadEvents(d))' /\ Event(d, Len(log[d]))' = piece
         /\ ~open[d] /\ piece = Fragment => Len(log'[d]) \notin LoadEvents(d)'
<1>0. LogType /\ (open[d] => log[d] # <<>>)
  BY LogTyped
<1> PICK n \in Nat : n = Len(log[d])
  BY <1>0, PutLog
<1>1. ASSUME NEW x \in Dirs, NEW i \in LoadEvents(x), ~(open[d] /\ x = d /\ i = Len(log[d]))
      PROVE  i \in LoadEvents(x)' /\ Event(x, i)' = Event(x, i)
  <2>1. i \in DOMAIN log[x] /\ Parses(log[x][i])
    BY DEF LoadEvents
  <2>2. i \in DOMAIN log'[x] /\ log'[x][i] = log[x][i]
    <3>1. CASE x # d
      BY <1>0, <2>1, <3>1, PutLog
    <3>2. CASE x = d
      <4>1. /\ n \in Nat /\ DOMAIN log[d] = 1..n /\ Len(log'[d]) \in Nat
            /\ DOMAIN log'[d] = 1..Len(log'[d])
            /\ Len(log'[d]) = IF open[d] THEN n ELSE n + 1
            /\ \A k \in 1..(Len(log'[d]) - 1) : log'[d][k] = log[d][k]
        BY <1>0, PutLog
      <4>2. i \in 1..(Len(log'[d]) - 1) /\ i \in 1..Len(log'[d])
        BY <1>1, <2>1, <3>2, <4>1
      <4> QED BY <3>2, <4>1, <4>2
    <3> QED BY <3>1, <3>2
  <2> QED BY <2>1, <2>2 DEF LoadEvents, Event, Parses
<1>2. \A x \in Dirs : x # d => LoadEvents(x)' = LoadEvents(x)
  BY <1>0, PutLog DEF LoadEvents, Parses
<1>3. CASE open[d]
  <2>1. /\ n \in Nat /\ DOMAIN log[d] = 1..n /\ n # 0 /\ Len(log'[d]) = n
        /\ log'[d][n] = Append(log[d][n], piece)
    BY <1>0, <1>3, PutLog
  <2>2. n \in DOMAIN log[d] /\ log[d][n] \in Seq(Pieces) /\ log[d][n] # <<>>
    BY <1>0, <2>1 DEF SessionTypeOK, LogType
  <2>3. Len(Append(log[d][n], piece)) # 1
    <3> DEFINE q == log[d][n]
    <3> HIDE DEF q
    <3>1. q \in Seq(Pieces) /\ q # <<>>
      BY <2>2 DEF q
    <3>2. Len(Append(q, piece)) = Len(q) + 1 /\ Len(q) \in Nat /\ Len(q) # 0
      BY <3>1
    <3>3. Len(Append(q, piece)) # 1
      BY <3>2
    <3> QED BY <3>3 DEF q
  <2>4. n \notin LoadEvents(d)'
    BY <2>1, <2>3 DEF LoadEvents, Parses
  <2> QED BY <1>1, <1>2, <1>3, <2>1, <2>4
<1>4. CASE ~open[d]
  <2>1. /\ n \in Nat /\ Len(log'[d]) = n + 1 /\ DOMAIN log'[d] = 1..(n + 1)
        /\ log'[d][n + 1] = <<piece>>
    BY <1>0, <1>4, PutLog
  <2>2. n + 1 \in DOMAIN log'[d] /\ Len(<<piece>>) = 1 /\ <<piece>>[1] = piece
    BY <2>1
  <2>3. /\ piece # Fragment => n + 1 \in LoadEvents(d)' /\ Event(d, n + 1)' = piece
        /\ piece = Fragment => n + 1 \notin LoadEvents(d)'
    BY <2>1, <2>2 DEF LoadEvents, Parses, Event
  <2> QED BY <1>1, <1>2, <1>4, <2>1, <2>3
<1> QED
  BY <1>3, <1>4

LEMMA WritesMissing ==
  ASSUME SessionTypeOK, NEW a \in Callers, NEW o \in BOOLEAN,
         NEW piece \in {Fragment, hook[a]}, Writes(a, piece, o),
         NEW n \in Missing'
  PROVE  \/ n \in Missing
         \/ n = hook[a].n /\ (open[hook[a].dir] \/ piece = Fragment)
         \/ /\ hook[a].dir \in Fragile
            /\ n = Event(hook[a].dir, Len(log[hook[a].dir])).n
<1> PICK d : d = hook[a].dir
  OBVIOUS
<1>1. /\ hook[a] \in Events /\ d \in Dirs /\ Put(d, piece) /\ piece \in Pieces
      /\ \A b \in Callers : hook'[b] = IF b = a THEN Nothing ELSE hook[b]
      /\ calls' = calls
  <2>1. hook[a] \in Events
    BY LogTyped DEF Writes
  <2> QED BY <2>1, WritesKnown DEF Writes
<1>2. n \in 0..(calls - 1) /\ n \notin Seen' /\ n \notin Held'
  BY <1>1 DEF Missing
<1>3. ASSUME n \in Held
      PROVE  n = hook[a].n
  <2>1. PICK b \in Callers : hook[b] # Nothing /\ n = hook[b].n
    BY <1>3 DEF Held, Running
  <2>2. b # a => n \in Held'
    BY <1>1, <2>1 DEF Held, Running
  <2> QED BY <1>2, <2>1, <2>2
<1>4. ASSUME ~open[d], piece # Fragment
      PROVE  n # hook[a].n
  <2>1. \E i : i \in LoadEvents(d)' /\ Event(d, i)' = hook[a]
    BY <1>1, <1>4, PutEvents
  <2>2. hook[a].n \in Seen'
    BY <1>1, <2>1 DEF Seen
  <2> QED BY <1>2, <2>2
<1>5. ASSUME n \in Seen
      PROVE  d \in Fragile /\ n = Event(d, Len(log[d])).n
  <2>1. PICK x \in Dirs : \E i \in LoadEvents(x) : n = Event(x, i).n
    BY <1>5 DEF Seen
  <2>2. PICK i \in LoadEvents(x) : n = Event(x, i).n
    BY <2>1
  <2>3. ~(i \in LoadEvents(x)' /\ Event(x, i)' = Event(x, i))
    BY <1>2, <2>2 DEF Seen
  <2>4. open[d] /\ x = d /\ i = Len(log[d])
    BY <1>1, <2>2, <2>3, PutEvents
  <2> QED BY <1>1, <2>2, <2>4 DEF Fragile, Opened
<1>6. n \in Missing \/ n \in Held \/ n \in Seen
  BY <1>2 DEF Missing
<1> QED
  BY <1>3, <1>4, <1>5, <1>6

LEMMA WritesCount ==
  ASSUME SessionTypeOK, CountInv, NEW a \in Callers, NEW o \in BOOLEAN,
         NEW piece \in {Fragment, hook[a]}, Writes(a, piece, o),
         SessionTypeOK',
         \/ ~o /\ piece = hook[a] /\ torn' = torn
         \/ o /\ torn' = torn + 1
  PROVE  CountInv'
<1> PICK d : d = hook[a].dir
  OBVIOUS
<1> DEFINE n == hook[a].n
           m == Event(d, Len(log[d])).n
<1>1. /\ hook[a] \in Events /\ d \in Dirs /\ Put(d, piece) /\ piece \in Pieces
      /\ failed' = failed /\ open' = [open EXCEPT ![d] = o]
  <2>1. hook[a] \in Events
    BY LogTyped DEF Writes
  <2> QED BY <2>1, WritesKnown DEF Writes
<1>2. piece = hook[a] => piece # Fragment
  BY <1>1, EventFields
<1>3. ASSUME NEW x \in Missing'
      PROVE  \/ x \in Missing
             \/ x = n /\ (open[d] \/ piece = Fragment)
             \/ d \in Fragile /\ x = m
  BY WritesMissing
<1> HIDE DEF n, m
<1>4. \A x \in Dirs : open'[x] = IF x = d THEN o ELSE open[x]
  BY <1>1, LogTyped
<1>5. \A x \in Dirs : x # d => log'[x] = log[x] /\ LoadEvents(x)' = LoadEvents(x)
  BY <1>1, LogTyped, PutEvents, PutLog
<1>6. /\ open[d] => Len(log'[d]) \notin LoadEvents(d)'
      /\ ~open[d] /\ piece = Fragment => Len(log'[d]) \notin LoadEvents(d)'
  BY <1>1, PutEvents
<1>7. /\ Opened' \subseteq Opened \cup {d} /\ (open[d] => d \in Opened)
      /\ (~o => Opened' \subseteq Opened \ {d})
      /\ (open[d] => Opened' \subseteq Opened)
  BY <1>1, <1>4 DEF Opened
<1>8. /\ Fragile' \subseteq Fragile \cup {d}
      /\ (~o \/ open[d] \/ piece = Fragment => Fragile' \subseteq Fragile \ {d})
      /\ (d \in Fragile => open[d])
  BY <1>1, <1>4, <1>5, <1>6 DEF Opened, Fragile
<1> DEFINE M == Cardinality(Missing)
           O == Cardinality(Opened)
           F == Cardinality(Fragile)
           M1 == Cardinality(Missing')
           O1 == Cardinality(Opened')
           F1 == Cardinality(Fragile')
<1>9. /\ IsFiniteSet(Missing) /\ IsFiniteSet(Opened) /\ IsFiniteSet(Fragile)
      /\ M \in Nat /\ O \in Nat /\ F \in Nat /\ M1 \in Nat /\ O1 \in Nat /\ F1 \in Nat
      /\ failed \in Nat /\ torn \in Nat
  <2>1. /\ Opened' \subseteq Dirs /\ Fragile' \subseteq Dirs
        /\ Missing' \subseteq Missing \cup {n, m}
    BY <1>3 DEF Opened, Fragile
  <2>2. IsFiniteSet(Opened') /\ IsFiniteSet(Fragile')
    BY <2>1, SessionAssumption, FS_Subset DEF SessionAssumption
  <2>3. IsFiniteSet(Missing) /\ IsFiniteSet(Missing')
    <3>1. IsFiniteSet(Missing)
      BY SetsFinite
    <3>2. IsFiniteSet((Missing \cup {n}) \cup {m})
      BY <3>1, FS_AddElement
    <3>3. Missing' \subseteq (Missing \cup {n}) \cup {m}
      BY <2>1
    <3> QED BY <3>1, <3>2, <3>3, FS_Subset
  <2> QED BY <2>2, <2>3, SetsFinite, LogTyped, FS_CardinalityType
<1> HIDE DEF M, O, F, M1, O1, F1
<1>10. M + O + F <= failed + 2 * torn
  BY DEF CountInv, M, O, F
<1>11. CASE ~open[d] /\ piece # Fragment
  <2>1. Missing' \subseteq Missing
    BY <1>3, <1>8, <1>11
  <2>2. M1 <= M /\ O1 <= O + 1 /\ F1 <= F + 1
    BY <1>7, <1>8, <1>9, <2>1, FS_Subset, OneMore DEF M, O, F, M1, O1, F1
  <2>3. ~o => O1 <= O /\ F1 <= F
    BY <1>7, <1>8, <1>9, FS_Subset DEF O, F, O1, F1
  <2>4. M1 + O1 + F1 <= failed + 2 * torn'
    BY <1>9, <1>10, <2>2, <2>3
  <2> QED BY <1>1, <2>4 DEF CountInv, M1, O1, F1
<1>12. CASE ~open[d] /\ piece = Fragment
  <2>1. Missing' \subseteq Missing \cup {n} /\ o /\ torn' = torn + 1
    BY <1>2, <1>3, <1>8, <1>12
  <2>2. M1 <= M + 1 /\ O1 <= O + 1 /\ F1 <= F
    BY <1>7, <1>8, <1>9, <1>12, <2>1, FS_Subset, OneMore DEF M, O, F, M1, O1, F1
  <2>3. M1 + O1 + F1 <= failed + 2 * torn'
    BY <1>9, <1>10, <2>1, <2>2
  <2> QED BY <1>1, <2>3 DEF CountInv, M1, O1, F1
<1>13. CASE open[d] /\ d \notin Fragile
  <2>1. Missing' \subseteq Missing \cup {n}
    BY <1>3, <1>13
  <2>2. M1 <= M + 1 /\ O1 <= O /\ F1 <= F
    BY <1>7, <1>8, <1>9, <1>13, <2>1, FS_Subset, OneMore DEF M, O, F, M1, O1, F1
  <2>3. ~o => O1 <= O - 1
    BY <1>7, <1>9, <1>13, OneLess DEF O, O1
  <2>4. M1 + O1 + F1 <= failed + 2 * torn'
    BY <1>9, <1>10, <2>2, <2>3
  <2> QED BY <1>1, <2>4 DEF CountInv, M1, O1, F1
<1>14. CASE d \in Fragile
  <2>1. Missing' \subseteq Missing \cup {n, m} /\ open[d]
    BY <1>3, <1>8, <1>14
  <2>2. M1 <= M + 2
    BY <1>9, <2>1, TwoMore DEF M, M1
  <2>3. O1 <= O /\ F1 <= F - 1
    BY <1>7, <1>8, <1>9, <1>14, <2>1, FS_Subset, OneLess DEF O, F, O1, F1
  <2>4. ~o => O1 <= O - 1
    BY <1>7, <1>9, <2>1, OneLess DEF O, O1
  <2>5. M1 + O1 + F1 <= failed + 2 * torn'
    BY <1>9, <1>10, <2>2, <2>3, <2>4
  <2> QED BY <1>1, <2>5 DEF CountInv, M1, O1, F1
<1> QED
  BY <1>8, <1>11, <1>12, <1>13, <1>14

LEMMA CountStep ==
  ASSUME SessionTypeOK, CountInv, [SessionNext]_sessionVars
  PROVE  CountInv'
<1>0. SessionTypeOK'
  BY SessionTypeStep
<1>1. CASE UNCHANGED sessionVars
  BY <1>1 DEF sessionVars, files, CountInv, Missing, Held, Running, Seen, Opened, Fragile,
     LoadEvents, Event, Parses
<1>2. ASSUME NEW a \in Callers, NEW e \in Events, Asks(a, e)
      PROVE  CountInv'
  <2>1. /\ UNCHANGED <<log, open, failed, torn>> /\ calls' = calls + 1 /\ calls \in Nat
        /\ hook[a] = Nothing /\ e.n = calls /\ e # Nothing
        /\ \A b \in Callers : hook'[b] = IF b = a THEN e ELSE hook[b]
    BY <1>2, LogTyped, EventFields DEF Asks, ToolCall, files
  <2>2. Seen' = Seen /\ Opened' = Opened /\ Fragile' = Fragile
    BY <2>1 DEF Seen, Opened, Fragile, LoadEvents, Event, Parses
  <2>3. Held \subseteq Held' /\ calls \in Held'
    BY <2>1 DEF Held, Running
  <2>4. Missing' \subseteq Missing
    BY <2>1, <2>2, <2>3 DEF Missing
  <2>5. Cardinality(Missing') <= Cardinality(Missing) /\ Cardinality(Missing') \in Nat
    <3>1. IsFiniteSet(Missing)
      BY SetsFinite
    <3> QED BY <2>4, <3>1, FS_Subset, FS_CardinalityType
  <2> QED BY <2>1, <2>2, <2>5, SetsFinite, LogTyped DEF CountInv
<1>3. ASSUME NEW a \in Callers, HookFails(a)
      PROVE  CountInv'
  <2>1. /\ UNCHANGED <<log, open, calls, torn>> /\ failed' = failed + 1
        /\ \A b \in Callers : hook'[b] = IF b = a THEN Nothing ELSE hook[b]
    BY <1>3, LogTyped DEF HookFails, HookEnds, files
  <2>2. Seen' = Seen /\ Opened' = Opened /\ Fragile' = Fragile
    BY <2>1 DEF Seen, Opened, Fragile, LoadEvents, Event, Parses
  <2>3. Held \subseteq Held' \cup {hook[a].n}
    BY <2>1 DEF Held, Running
  <2>4. Missing' \subseteq Missing \cup {hook[a].n}
    BY <2>1, <2>2, <2>3 DEF Missing
  <2>5. Cardinality(Missing') <= Cardinality(Missing) + 1 /\ Cardinality(Missing') \in Nat
    BY <2>4, SetsFinite, OneMore
  <2>6. /\ Cardinality(Opened') = Cardinality(Opened) /\ Cardinality(Fragile') = Cardinality(Fragile)
        /\ Cardinality(Missing) \in Nat /\ Cardinality(Opened) \in Nat
        /\ Cardinality(Fragile) \in Nat /\ failed \in Nat /\ torn \in Nat
    BY <2>2, SetsFinite, LogTyped
  <2> QED BY <2>1, <2>5, <2>6 DEF CountInv
<1> QED
  BY <1>0, <1>1, <1>2, <1>3, StepCases, WritesCount

LEMMA CountInitially == SessionInit => CountInv
<1> SUFFICES ASSUME SessionInit
             PROVE  CountInv
  OBVIOUS
<1>1. calls = 0 /\ failed = 0 /\ torn = 0 /\ \A d \in Dirs : ~open[d]
  BY DEF SessionInit
<1>2. Missing = {} /\ Opened = {} /\ Fragile = {}
  BY <1>1 DEF Missing, Opened, Fragile
<1> QED
  BY <1>1, <1>2, FS_EmptySet DEF CountInv

LEMMA LogCompleteHolds == NumberInv /\ CountInv => LogComplete
<1> SUFFICES ASSUME NumberInv, CountInv
             PROVE  LogComplete
  OBVIOUS
<1> DEFINE All == 0..(calls - 1)
<1>1. SessionTypeOK
  BY DEF NumberInv
<1>2. \A d \in Dirs : \A i \in LoadEvents(d) :
        Event(d, i) \in Events /\ Holds(d, i, Event(d, i))
  BY <1>1, LinesKnown
<1>3. \A d, e \in Dirs : \A i \in LoadEvents(d), j \in LoadEvents(e) :
        Event(d, i).n = Event(e, j).n => d = e /\ i = j
  BY <1>2 DEF NumberInv, OneLine
<1>4. IsFiniteSet(All) /\ Cardinality(All) = calls /\ calls \in Nat
  BY <1>1, SetsFinite
<1>5. Seen \subseteq All
  <2>1. ASSUME NEW d \in Dirs, NEW i \in LoadEvents(d)
        PROVE  Event(d, i).n \in All
    <3>1. Event(d, i).n < calls /\ Event(d, i).n \in Nat
      BY <1>2, EventFields DEF NumberInv, KnownBefore, Known
    <3> QED BY <1>4, <3>1
  <2> HIDE DEF All
  <2> QED BY <2>1 DEF Seen
<1>6. IsFiniteSet(Running)
  BY SessionAssumption, FS_Subset DEF SessionAssumption, Running
<1>7. IsFiniteSet(Held) /\ Cardinality(Held) <= Cardinality(Running)
  <2> DEFINE f == [a \in Running |-> hook[a].n]
  <2>1. f \in Surjection(Running, Held)
    BY DEF Surjection, Held
  <2> QED BY <1>6, <2>1, FS_Surjection
<1>8. All \subseteq (Seen \cup Held) \cup Missing
  BY DEF Missing
<1>9. IsFiniteSet(Seen) /\ IsFiniteSet(Missing)
  BY <1>1, <1>4, <1>5, SetsFinite, FS_Subset
<1>10. /\ Cardinality(Seen) \in Nat /\ Cardinality(Held) \in Nat /\ Cardinality(Missing) \in Nat
       /\ Cardinality(Running) \in Nat
  BY <1>6, <1>7, <1>9, FS_CardinalityType
<1> HIDE DEF All
<1>11. calls <= Cardinality(Seen) + Cardinality(Held) + Cardinality(Missing)
  <2>1. IsFiniteSet(Seen \cup Held)
        /\ Cardinality(Seen \cup Held) <= Cardinality(Seen) + Cardinality(Held)
        /\ Cardinality(Seen \cup Held) \in Nat
    BY <1>7, <1>9, AtMostSum
  <2>2. IsFiniteSet((Seen \cup Held) \cup Missing)
        /\ Cardinality((Seen \cup Held) \cup Missing) <= Cardinality(Seen \cup Held) + Cardinality(Missing)
        /\ Cardinality((Seen \cup Held) \cup Missing) \in Nat
    BY <1>9, <2>1, AtMostSum
  <2>3. calls <= Cardinality((Seen \cup Held) \cup Missing)
    BY <1>4, <1>8, <2>2, FS_Subset
  <2> QED BY <1>4, <1>10, <2>1, <2>2, <2>3
<1>12. Cardinality(Missing) <= failed + 2 * torn /\ failed \in Nat /\ torn \in Nat
  BY <1>1, SetsFinite, LogTyped DEF CountInv
<1>13. calls <= Cardinality(Seen) + Cardinality(Running) + failed + 2 * torn
  BY <1>4, <1>7, <1>10, <1>11, <1>12
<1> QED
  BY <1>3, <1>13 DEF LogComplete

(* No call is missing in the logs without a reason and none is there twice,*)
(* for any number of calls at once, directories and hooks that fail.       *)
THEOREM LogIsComplete == SessionSpec => []LogComplete
<1> DEFINE Complete == NumberInv /\ CountInv
<1>1. SessionInit => Complete
  BY NumbersInitially, CountInitially
<1>2. Complete /\ [SessionNext]_sessionVars => Complete'
  BY NumbersStep, CountStep DEF NumberInv
<1>3. Complete => LogComplete
  BY LogCompleteHolds
<1> QED
  BY <1>1, <1>2, <1>3, PTL DEF SessionSpec

=============================================================================
