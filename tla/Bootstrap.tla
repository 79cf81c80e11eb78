------------------------------ MODULE Bootstrap ------------------------------
(***************************************************************************)
(* ensure_ready (bootstrap.py): the engine, the MCP server and every       *)
(* script with a VM of its own call it before they boot one.  It downloads *)
(* the bundle to one temporary file in the home directory, extracts it     *)
(* into one directory, or links a local build there.  Calls of different   *)
(* processes take no lock; a process may be killed at any point.           *)
(***************************************************************************)
EXTENDS Naturals, FiniteSets

CONSTANTS Calls,     \* calls of ensure_ready, each of a process of its own
          Files,     \* bound: the files of the bundle are 1..Files, in archive order
          None,
          MaxKills   \* bound on processes killed

ASSUME BootstrapAssumption ==
  /\ IsFiniteSet(Calls) /\ None \notin Calls
  /\ Files \in Nat \ {0} /\ MaxKills \in Nat

VARIABLES bundle,  \* file -> "absent", "partial", "release" or "local"
          tmp,     \* the temporary file at its path, named by the call that made it
          data,    \* temporary file -> the parts of the archive it holds
          call,    \* call -> where it is, the file it has open, and the next part
          build,   \* there is a local build
          kills,
          cut,     \* a call ended within the bundle when every file was there
          clash    \* calls were at the bundle at once

vars == <<bundle, tmp, data, call, build, kills, cut, clash>>

Parts == 1..Files

(* Mutant: the bundle is ready when anything is there.                     *)
ReadyIfAny == \E i \in Parts : bundle[i] # "absent"

(* BundlePaths.ready: every file exists.                                   *)
Ready == \A i \in Parts : bundle[i] # "absent"

Init ==
  /\ bundle = [i \in Parts |-> "absent"]
  /\ tmp = None /\ data = [c \in Calls |-> {}]
  /\ call = [c \in Calls |-> [pc |-> "off", file |-> None, part |-> 1]]
  /\ build \in BOOLEAN
  /\ kills = 0 /\ cut = FALSE /\ clash = FALSE

At(c, pc) == call[c].pc = pc
Goto(c, pc) == call' = [call EXCEPT ![c].pc = pc, ![c].part = 1]
NextPart(c) == call' = [call EXCEPT ![c].part = @ + 1]

(* c looks at or changes what another call is at.                          *)
Busy == {c \in Calls : call[c].pc \in {"extract", "inside", "unlink", "link"}}
Touch(c) == clash' = (clash \/ Busy \ {c} # {})
Cut(c) == cut' = (cut \/ (c \in Busy /\ \A i \in Parts : bundle[i] # "absent"))

-----------------------------------------------------------------------------

EnsureReady(c) ==
  /\ At(c, "off")
  /\ Goto(c, IF Ready THEN "ready" ELSE "open")
  /\ Touch(c)
  /\ UNCHANGED <<bundle, tmp, data, build, kills, cut>>

-----------------------------------------------------------------------------
(* _download_bundle                                                        *)

(* It returns False: the temporary file at the path is removed, whoever's. *)
GiveUp(c) == tmp' = None /\ Goto(c, "dev")

(* The server answers, and the temporary file is created, or cut to        *)
(* nothing if there is one.                                                *)
OpenTemp(c) ==
  /\ At(c, "open")
  /\ LET file == IF tmp = None THEN c ELSE tmp
     IN /\ tmp' = file /\ data' = [data EXCEPT ![file] = {}]
        /\ call' = [call EXCEPT ![c] = [pc |-> "download", file |-> file, part |-> 1]]
  /\ Touch(c)
  /\ UNCHANGED <<bundle, build, kills, cut>>

(* Mutant: the loop does not end with the data.                            *)
DownloadOn(c) ==
  /\ At(c, "download")
  /\ data' = [data EXCEPT ![call[c].file] = @ \cup {call[c].part}]
  /\ NextPart(c)
  /\ UNCHANGED <<bundle, tmp, build, kills, cut, clash>>

(* A part is written where this call is in the file, whatever became of    *)
(* its path and of the parts before it.                                    *)
Download(c) ==
  /\ At(c, "download") /\ call[c].part \in Parts
  /\ data' = [data EXCEPT ![call[c].file] = @ \cup {call[c].part}]
  /\ NextPart(c)
  /\ UNCHANGED <<bundle, tmp, build, kills, cut, clash>>

(* The end of the data; a connection that ends early looks the same.       *)
Downloaded(c) ==
  /\ At(c, "download")
  /\ Goto(c, "scan")
  /\ UNCHANGED <<bundle, tmp, data, build, kills, cut, clash>>

(* No release, no network, a full disk.                                    *)
DownloadFails(c) ==
  /\ At(c, "open") \/ At(c, "download")
  /\ GiveUp(c)
  /\ UNCHANGED <<bundle, data, build, kills, cut, clash>>

(* getmembers reads the archive at the path to its end.                    *)
Scan(c) ==
  /\ At(c, "scan")
  /\ IF tmp # None /\ data[tmp] = Parts
     THEN /\ call' = [call EXCEPT ![c] = [pc |-> "extract", file |-> tmp, part |-> 1]]
          /\ UNCHANGED tmp
     ELSE GiveUp(c)
  /\ Touch(c)
  /\ UNCHANGED <<bundle, data, build, kills, cut>>

(* extractall: a file is opened for writing, which cuts what was there,    *)
(* and then written.                                                       *)
ExtractBegin(c) ==
  /\ At(c, "extract") /\ call[c].part \in Parts
  /\ bundle' = [bundle EXCEPT ![call[c].part] = "partial"]
  /\ call' = [call EXCEPT ![c].pc = "inside"]
  /\ Touch(c)
  /\ UNCHANGED <<tmp, data, build, kills, cut>>

ExtractEnd(c) ==
  /\ At(c, "inside") /\ call[c].part \in data[call[c].file]
  /\ bundle' = [bundle EXCEPT ![call[c].part] = "release"]
  /\ call' = [call EXCEPT ![c].pc = "extract", ![c].part = @ + 1]
  /\ Touch(c)
  /\ UNCHANGED <<tmp, data, build, kills, cut>>

(* Mutant: the temporary file stays when the extraction fails.             *)
ExtractFailsDirty(c) ==
  /\ At(c, "inside") \/ (At(c, "extract") /\ call[c].part \in Parts)
  /\ Goto(c, "dev") /\ Cut(c)
  /\ UNCHANGED <<bundle, tmp, data, build, kills, clash>>

(* A full disk, or the archive has been cut meanwhile.                     *)
ExtractFails(c) ==
  /\ At(c, "inside") \/ (At(c, "extract") /\ call[c].part \in Parts)
  /\ GiveUp(c) /\ Cut(c)
  /\ UNCHANGED <<bundle, data, build, kills, clash>>

(* Then the temporary file is removed and the paths are looked at again.   *)
Extracted(c) ==
  /\ At(c, "extract") /\ call[c].part \notin Parts
  /\ tmp' = None
  /\ Goto(c, IF Ready THEN "ready" ELSE "dev")
  /\ Touch(c)
  /\ UNCHANGED <<bundle, data, build, kills, cut>>

-----------------------------------------------------------------------------
(* _try_dev_mode                                                           *)

TryDevMode(c) ==
  /\ At(c, "dev")
  /\ Goto(c, IF build THEN "unlink" ELSE "failed")
  /\ UNCHANGED <<bundle, tmp, data, build, kills, cut, clash>>

(* _link_or_copy: what is there is removed, then the link made.            *)
Unlink(c) ==
  /\ At(c, "unlink") /\ call[c].part \in Parts
  /\ bundle' = [bundle EXCEPT ![call[c].part] = "absent"]
  /\ call' = [call EXCEPT ![c].pc = "link"]
  /\ Touch(c)
  /\ UNCHANGED <<tmp, data, build, kills, cut>>

(* If another call has made the file meanwhile, the copy that is tried     *)
(* instead finds source and target the same, or goes over a release file.  *)
Link(c) ==
  /\ At(c, "link")
  /\ IF bundle[call[c].part] = "local"
     THEN Goto(c, "failed") /\ UNCHANGED bundle
     ELSE /\ bundle' = [bundle EXCEPT ![call[c].part] = "local"]
          /\ call' = [call EXCEPT ![c].pc = "unlink", ![c].part = @ + 1]
  /\ Touch(c)
  /\ UNCHANGED <<tmp, data, build, kills, cut>>

Linked(c) ==
  /\ At(c, "unlink") /\ call[c].part \notin Parts
  /\ Goto(c, IF Ready THEN "ready" ELSE "failed")
  /\ Touch(c)
  /\ UNCHANGED <<bundle, tmp, data, build, kills, cut>>

-----------------------------------------------------------------------------

Ended == {"ready", "failed", "killed"}

(* Whatever the call has open is left as it is.                            *)
Kill(c) ==
  /\ call[c].pc \notin Ended \cup {"off"} /\ kills < MaxKills
  /\ kills' = kills + 1
  /\ Goto(c, "killed")
  /\ Cut(c)
  /\ UNCHANGED <<bundle, tmp, data, build, clash>>

Next ==
  \E c \in Calls :
    \/ EnsureReady(c)
    \/ OpenTemp(c) \/ Download(c) \/ Downloaded(c) \/ DownloadFails(c)
    \/ Scan(c) \/ ExtractBegin(c) \/ ExtractEnd(c) \/ ExtractFails(c) \/ Extracted(c)
    \/ TryDevMode(c) \/ Unlink(c) \/ Link(c) \/ Linked(c)
    \/ Kill(c)

Spec == Init /\ [][Next]_vars

-----------------------------------------------------------------------------
(* Properties                                                              *)

PCs == {"off", "open", "download", "scan", "extract", "inside", "dev", "unlink", "link"}

(* Type invariant; a call inside a file of the bundle has an archive open. *)
TypeOK ==
  /\ bundle \in [Parts -> {"absent", "partial", "release", "local"}]
  /\ tmp \in Calls \cup {None} /\ data \in [Calls -> SUBSET Parts]
  /\ call \in [Calls -> [pc : PCs \cup Ended, file : Calls \cup {None}, part : 1..(Files + 1)]]
  /\ \A c \in Calls : call[c].pc \in {"download", "extract", "inside"} => call[c].file # None
  /\ build \in BOOLEAN /\ kills \in 0..MaxKills /\ cut \in BOOLEAN /\ clash \in BOOLEAN

(* bootstrap.py:65 "Ensure BunkerVM bundle is downloaded and ready": when  *)
(* a call returns, every file is there in full and all are of one origin.  *)
(* Connections that end early, calls that download into the same temporary *)
(* file or remove it under each other, kills in the middle of a download   *)
(* or of the first files, a full disk and the change to a local build do   *)
(* not break this; only an extraction that ends when every file is there,  *)
(* or two calls at the bundle at once, can.                                *)
Whole == \E origin \in {"release", "local"} : \A i \in Parts : bundle[i] = origin
ReadyIsWhole ==
  [][\A c \in Calls : ~At(c, "ready") /\ At(c, "ready")' /\ ~cut' /\ ~clash' => Whole']_vars

(* bootstrap.py:182, 195, 199: however a download or an extraction ends,   *)
(* and whoever else is at it, no temporary file is left once all calls     *)
(* have ended, unless a process was killed.                                *)
TempRemoved ==
  (\A c \in Calls : call[c].pc \in Ended \cup {"off"}) /\ kills = 0 => tmp = None

=============================================================================
