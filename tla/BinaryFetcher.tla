--------------------------- MODULE BinaryFetcher ---------------------------
(* binaryfetcher.GetOrFetch, which run (cloud-hypervisor) and the pull of a  *)
(* Tart image (EDK2 firmware) share: a missing binary is downloaded to a     *)
(* file in VETU_HOME/tmp, made executable and renamed to VETU_HOME/cache/bin.*)
(* The file in tmp/ has no lock, and every vetu command begins with          *)
(* temporary.GC, which removes what is not locked there.                     *)
EXTENDS Naturals, FiniteSets

CONSTANTS
  Proc,       \* process slots
  Packaged,   \* the binaries that are extracted from a .deb (the firmware, but on amd64)
  Path,       \* names that os.CreateTemp may make up; also the inodes they get
  Parts,      \* a download arrives in this many parts
  None,       \* "no such thing"
  MaxStarts,  \* bound: commands started in a behaviour
  MaxCrashes  \* bound: processes killed in a behaviour

\* run needs cloud-hypervisor, the pull of a Tart image the firmware, and other
\* commands need neither.
Op == {"run", "tart", "other"}
Binary == {"cloud-hypervisor", "firmware"}
Needs(op) == IF op = "run" THEN "cloud-hypervisor" ELSE "firmware"

ASSUME ConstantsAssumption ==
  /\ Packaged \subseteq Binary
  /\ None \notin Proc \cup Path
  /\ Parts \in Nat \ {0} /\ MaxStarts \in Nat /\ MaxCrashes \in Nat
  /\ IsFiniteSet(Path) /\ Cardinality(Path) >= MaxStarts

VARIABLES
  tmp,        \* the names of binaries in tmp/
  bin,        \* Binary -> the inode its name in cache/bin leads to
  inode,      \* Path -> what that inode holds
  debs,       \* packages in os.TempDir(), known by the file they are fetched for
  flock,      \* Path -> the collector that has its lock
  pc, loc,    \* where each process is, and its local state
  starts, crashes,
  abandoned   \* history: names left by a process that was killed or could not
              \* close or rename its file, and packages left by a failed download

vars == <<tmp, bin, inode, debs, flock, pc, loc, starts, crashes, abandoned>>
fsVars == <<tmp, bin, inode, debs>>
bounds == <<starts, crashes>>

Empty == [parts |-> 0, exec |-> FALSE]
Whole == [parts |-> Parts, exec |-> TRUE]
Fetching == {"package", "fetch", "chmod", "close", "rename"}
Idle == [op |-> "other", seen |-> {}, path |-> None, kernel |-> 0]

Init ==
  /\ tmp = {}
  /\ bin = [b \in Binary |-> None]
  /\ inode = [f \in Path |-> Empty]
  /\ debs = {}
  /\ flock = [f \in Path |-> None]
  /\ pc = [p \in Proc |-> "idle"] /\ loc = [p \in Proc |-> Idle]
  /\ starts = 0 /\ crashes = 0
  /\ abandoned = {}

Goto(p, label, l) ==
  /\ pc' = [pc EXCEPT ![p] = label]
  /\ loc' = [loc EXCEPT ![p] = l]

\* The command is over; a successful pull leaves its kernel to look at.
End(p) == Goto(p, "idle", Idle)

---------------------------------------------------------------------------
(* temporary.GC, at the start of every command.                            *)

Start(p) ==
  /\ pc[p] \in {"idle", "pulled"}
  /\ starts < MaxStarts
  /\ starts' = starts + 1
  /\ \E op \in Op : Goto(p, "gcNext", [Idle EXCEPT !.op = op, !.seen = tmp])
  /\ UNCHANGED <<fsVars, flock, crashes, abandoned>>

\* The next entry of the listing is opened; one that is gone is passed over.
GCOpen(p) ==
  /\ pc[p] = "gcNext"
  /\ \E f \in loc[p].seen :
       IF f \in tmp THEN Goto(p, "gcLock", [loc[p] EXCEPT !.path = f])
       ELSE Goto(p, "gcNext", [loc[p] EXCEPT !.seen = @ \ {f}])
  /\ UNCHANGED <<fsVars, flock, bounds, abandoned>>

\* Trylock of what was opened, wherever its name is by now.
GCTrylock(p) ==
  /\ pc[p] = "gcLock"
  /\ LET f == loc[p].path
     IN IF flock[f] \in {None, p}
        THEN flock' = [flock EXCEPT ![f] = p] /\ Goto(p, "gcRemove", loc[p])
        ELSE UNCHANGED flock /\ Goto(p, "gcNext", [loc[p] EXCEPT !.seen = @ \ {f}])
  /\ UNCHANGED <<fsVars, bounds, abandoned>>

\* os.RemoveAll(path), which may find nothing any more, and Unlock.
GCRemove(p) ==
  /\ pc[p] = "gcRemove"
  /\ LET f == loc[p].path
     IN /\ tmp' = tmp \ {f}
        /\ flock' = [flock EXCEPT ![f] = None]
        /\ Goto(p, "gcNext", [loc[p] EXCEPT !.seen = @ \ {f}, !.path = None])
  /\ UNCHANGED <<bin, inode, debs, bounds, abandoned>>

\* A command that needs no binary has nothing else to do here.
GCDone(p) ==
  /\ pc[p] = "gcNext" /\ loc[p].seen = {}
  /\ IF loc[p].op = "other" THEN End(p) ELSE Goto(p, "stat", loc[p])
  /\ UNCHANGED <<fsVars, flock, bounds, abandoned>>

---------------------------------------------------------------------------
(* GetOrFetch                                                              *)

\* A binary that is installed on the system is preferred, then a cached one.
Stat(p) ==
  /\ pc[p] = "stat"
  /\ \/ End(p)
     \/ Goto(p, IF bin[Needs(loc[p].op)] = None THEN "create" ELSE "use", loc[p])
  /\ UNCHANGED <<fsVars, flock, bounds, abandoned>>

\* The names for os.CreateTemp that lead to no file anybody knows.
Fresh ==
  {f \in Path : /\ inode[f] = Empty /\ f \notin tmp \cup debs \cup abandoned
                /\ \A q \in Proc : loc[q].path # f}

\* Whichever of them; there are as many as commands may start.
CreateTemp(p) ==
  /\ pc[p] = "create"
  /\ \E f \in {g \in Fresh : g = CHOOSE h \in Fresh : TRUE} :
       /\ tmp' = tmp \cup {f}
       /\ Goto(p, IF Needs(loc[p].op) \in Packaged THEN "package" ELSE "fetch",
               [loc[p] EXCEPT !.path = f])
  /\ UNCHANGED <<bin, inode, debs, flock, bounds, abandoned>>

\* Fault: the file stays behind when the download fails.
DropKeepsFile(p) == debs' = debs \ {loc[p].path} /\ End(p) /\ UNCHANGED tmp

\* GetOrFetch gives up: the file is removed by its name, and the deferred
\* os.Remove of a package runs.
Drop(p) == tmp' = tmp \ {loc[p].path} /\ debs' = debs \ {loc[p].path} /\ End(p)

\* determineDebURL and FetchURLToFile, which leaves its file where it is when the
\* copy to it fails.
FetchPackage(p) ==
  /\ pc[p] = "package"
  /\ \/ /\ debs' = debs \cup {loc[p].path}
        /\ Goto(p, "fetch", loc[p])
        /\ UNCHANGED <<tmp, abandoned>>
     \/ Drop(p) /\ UNCHANGED abandoned
     \/ /\ tmp' = tmp \ {loc[p].path}
        /\ debs' = debs \cup {loc[p].path}
        /\ abandoned' = abandoned \cup {loc[p].path}
        /\ End(p)
  /\ UNCHANGED <<bin, inode, flock, bounds>>

\* io.Copy from the response, or out of the package.
FetchPart(p) ==
  /\ pc[p] = "fetch"
  /\ inode[loc[p].path].parts < Parts
  /\ inode' = [inode EXCEPT ![loc[p].path].parts = @ + 1]
  /\ UNCHANGED <<tmp, bin, debs, flock, pc, loc, bounds, abandoned>>

FetchDone(p) ==
  /\ pc[p] = "fetch"
  /\ inode[loc[p].path].parts = Parts
  /\ debs' = debs \ {loc[p].path}
  /\ Goto(p, "chmod", loc[p])
  /\ UNCHANGED <<tmp, bin, inode, flock, bounds, abandoned>>

\* Fault: the error of the download is lost.
FetchFailIgnored(p) ==
  /\ pc[p] = "fetch"
  /\ debs' = debs \ {loc[p].path}
  /\ Goto(p, "chmod", loc[p])
  /\ UNCHANGED <<tmp, bin, inode, flock, bounds, abandoned>>

\* The request fails, the body ends early, the package does not have the file, or
\* SIGINT cancels the context.
FetchFail(p) ==
  /\ pc[p] = "fetch"
  /\ Drop(p)
  /\ UNCHANGED <<bin, inode, flock, bounds, abandoned>>

Chmod(p) ==
  /\ pc[p] = "chmod"
  /\ \/ /\ inode' = [inode EXCEPT ![loc[p].path].exec = TRUE]
        /\ Goto(p, "close", loc[p])
        /\ UNCHANGED <<tmp, debs>>
     \/ Drop(p) /\ UNCHANGED inode
  /\ UNCHANGED <<bin, flock, bounds, abandoned>>

\* An error of Close leaves the file to the next collection.
Close(p) ==
  /\ pc[p] = "close"
  /\ \/ Goto(p, "rename", loc[p]) /\ UNCHANGED abandoned
     \/ End(p) /\ abandoned' = abandoned \cup {loc[p].path}
  /\ UNCHANGED <<fsVars, flock, bounds>>

\* Fault: the error of rename is lost.
RenameIgnored(p) ==
  /\ pc[p] = "rename"
  /\ tmp' = tmp \ {loc[p].path}
  /\ bin' = [bin EXCEPT ![Needs(loc[p].op)] = IF loc[p].path \in tmp THEN loc[p].path ELSE @]
  /\ Goto(p, "use", [loc[p] EXCEPT !.path = None])
  /\ UNCHANGED <<inode, debs, flock, bounds, abandoned>>

\* rename(2) replaces what another process may have put there in the meantime. It
\* fails if the file has been collected, and may fail otherwise; nothing removes
\* the file then.
Rename(p) ==
  /\ pc[p] = "rename"
  /\ LET f == loc[p].path
     IN \/ /\ f \in tmp
           /\ tmp' = tmp \ {f}
           /\ bin' = [bin EXCEPT ![Needs(loc[p].op)] = f]
           /\ Goto(p, "use", [loc[p] EXCEPT !.path = None])
           /\ UNCHANGED abandoned
        \/ /\ End(p)
           /\ abandoned' = abandoned \cup ({f} \cap tmp)
           /\ UNCHANGED <<tmp, bin>>
  /\ UNCHANGED <<inode, debs, flock, bounds>>

---------------------------------------------------------------------------
(* What the path is for: run executes it, and a pull copies it to the VM.  *)

\* exec, which holds on to the inode it has found under the name.
Execute(p) ==
  /\ pc[p] = "use" /\ loc[p].op = "run"
  /\ bin[Needs(loc[p].op)] # None
  /\ End(p)
  /\ UNCHANGED <<fsVars, flock, bounds, abandoned>>

\* cp.Copy(firmwarePath, vmDir.KernelPath()) opens the file,
CopyOpen(p) ==
  /\ pc[p] = "use" /\ loc[p].op = "tart"
  /\ bin[Needs(loc[p].op)] # None
  /\ Goto(p, "copy", [loc[p] EXCEPT !.path = bin[Needs(loc[p].op)]])
  /\ UNCHANGED <<fsVars, flock, bounds, abandoned>>

\* copies what it can read of it,
CopyPart(p) ==
  /\ pc[p] = "copy"
  /\ loc[p].kernel < inode[loc[p].path].parts
  /\ Goto(p, "copy", [loc[p] EXCEPT !.kernel = @ + 1])
  /\ UNCHANGED <<fsVars, flock, bounds, abandoned>>

\* and the pull goes on to the disks.
CopyDone(p) ==
  /\ pc[p] = "copy"
  /\ loc[p].kernel = inode[loc[p].path].parts
  /\ Goto(p, "pulled", [Idle EXCEPT !.op = "tart", !.kernel = loc[p].kernel])
  /\ UNCHANGED <<fsVars, flock, bounds, abandoned>>

\* kill -9: files stay, locks go.
Crash(p) ==
  /\ pc[p] \notin {"idle", "pulled"}
  /\ crashes < MaxCrashes
  /\ crashes' = crashes + 1
  /\ flock' = [f \in Path |-> IF flock[f] = p THEN None ELSE flock[f]]
  /\ abandoned' = abandoned \cup
       (IF pc[p] \in Fetching THEN {loc[p].path} ELSE {})
  /\ End(p)
  /\ UNCHANGED <<fsVars, starts>>

Fetch(p) == FetchPackage(p) \/ FetchPart(p) \/ FetchDone(p) \/ FetchFail(p)
Step(p) ==
  \/ GCOpen(p) \/ GCTrylock(p) \/ GCRemove(p) \/ GCDone(p)
  \/ Stat(p) \/ CreateTemp(p) \/ Fetch(p) \/ Chmod(p) \/ Close(p) \/ Rename(p)
  \/ Execute(p) \/ CopyOpen(p) \/ CopyPart(p) \/ CopyDone(p)

\* Nobody runs vetu any more.
Quiet == (\A p \in Proc : pc[p] \in {"idle", "pulled"}) /\ starts = MaxStarts /\ UNCHANGED vars

Next == (\E p \in Proc : Start(p) \/ Step(p) \/ Crash(p)) \/ Quiet

Spec == Init /\ [][Next]_vars

---------------------------------------------------------------------------
\* cache/bin never shows a binary that is not complete and executable, whoever
\* else fetches it at the same time, collects the file or is killed.
CachedIsWhole == \A b \in Binary : bin[b] # None => inode[bin[b]] = Whole

\* A path that GetOrFetch returns without an error leads to a file when the
\* caller gets to it, and the kernel of a pulled Tart VM is all of the firmware.
FetchedIsUsable ==
  \A p \in Proc :
    /\ pc[p] = "use" => bin[Needs(loc[p].op)] # None
    /\ pc[p] = "pulled" => loc[p].kernel = Parts

\* A file in tmp/ or a package is there because its process works on it, or was
\* killed, or failed where the code does not clean up; in no other case does a
\* command that has ended leave one behind.
LeavesNothing ==
  /\ \A f \in tmp : f \in abandoned \/ \E p \in Proc : loc[p].path = f /\ pc[p] \in Fetching
  /\ \A f \in debs : f \in abandoned \/ \E p \in Proc : loc[p].path = f /\ pc[p] = "fetch"

=============================================================================
