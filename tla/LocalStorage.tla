--------------------------- MODULE LocalStorage ---------------------------
(* The local half of vetu's storage: VETU_HOME/vms/<name> and               *)
(* VETU_HOME/tmp/<uuid>, shared by any number of concurrent vetu processes  *)
(* that synchronise only through flock(2) on directories, fcntl(2) on       *)
(* config.json and the atomicity of rename(2).                              *)
(*                                                                          *)
(* A process runs one command: the garbage collection of tmp/ that precedes *)
(* every command (command/root.go), then create, clone, delete, set, run or *)
(* push.  One action is one system call, or a group of them that nothing    *)
(* else can observe halfway: a path is resolved anew at each call, while a  *)
(* flock stays on the inode that was opened.                                *)
EXTENDS Naturals, FiniteSets

CONSTANTS
  Proc,        \* process slots: at most Cardinality(Proc) commands at a time
  Name,        \* local VM names, the entries of vms/
  Dir,         \* directory inodes
  Uuid,        \* the names of entries of tmp/
  None,        \* "no such thing": ENOENT, no holder, no file descriptor
  Pick(_),     \* the inode or UUID handed out, of those that are free
  Commands,    \* the command lines users may enter
  InitialVMs,  \* what vms/ may hold at first
  MaxStarts,   \* bound: commands started in a behaviour
  MaxCrashes   \* bound: processes killed in a behaviour

Op == {"create", "clone", "delete", "set", "run", "push"}

\* A command line: the VMs it opens and the name it moves a new VM to.
Command == [op : Op, args : SUBSET Name, dst : Name \cup {None}]

ASSUME ConstantsAssumption ==
  /\ None \notin Proc \cup Name \cup Dir \cup Uuid
  /\ \A S \in ((SUBSET Dir) \cup (SUBSET Uuid)) \ {{}} : Pick(S) \in S
  /\ InitialVMs \subseteq [Name -> Dir \cup {None}]
  /\ \A v \in InitialVMs : \A m, n \in Name : v[m] = v[n] => m = n \/ v[m] = None
  /\ Commands \subseteq Command
  /\ \A c \in Commands : c.op = "create" <=> c.args = {}
  /\ \A c \in Commands : c.op \in {"create", "clone"} <=> c.dst # None
  /\ \A c \in Commands : c.op # "delete" => \A m, n \in c.args : m = n
  /\ MaxStarts \in Nat
  /\ MaxCrashes \in Nat

VARIABLES
  vms,        \* Name -> the inode at vms/<name>
  tmp,        \* Uuid -> the inode at tmp/<uuid>
  content,    \* inode -> file -> which command wrote it (0: no such file)
  glock,      \* the process that holds the flock on VETU_HOME
  excl, shrd, \* process -> the inodes it holds an exclusive/shared flock on
  pid,        \* process -> the inode on whose config.json it holds the PID lock
  pc, loc,    \* where each process is, and its local state (see Local)
  starts, crashes,
  lone,       \* history: no other process has been active since this one started
  displaced,  \* history: inodes a MoveIn (local or remote) moved out of vms/
  doomed,     \* history: inodes a delete has begun to empty
  suspect     \* history: inodes filled without the lock on them or on their
              \* source, or from a source a crashed delete had left incomplete

fsVars == <<vms, tmp, content>>
lockVars == <<glock, excl, shrd, pid>>
history == <<displaced, doomed, suspect>>
bounds == <<starts, crashes, lone>>
vars == <<fsVars, lockVars, pc, loc, bounds, history>>

\* "disk" stands for every file but config.json: kernel, initramfs and disks.
File == {"config", "disk"}
Stamp == 0 .. MaxStarts + 1
EmptyDir == [f \in File |-> 0]

Local == [
  op : Op \cup {"none"}, args : SUBSET Name, dst : Name \cup {None},
  id : Stamp,               \* what this command's writes leave in a file
  seen : SUBSET Uuid,       \* temporary.GC: entries read and not yet visited
  uuid : Uuid \cup {None},  \* the tmp/ entry it is collecting or building
  cur : Name \cup {None},   \* the VM name it opened
  fd : Dir \cup {None},     \* the inode filelock.New opened for it (or for GC)
  target : Dir \cup {None}, \* its own directory in tmp/, or what RemoveAll opened
  todo : SUBSET File,       \* entries ReadDir returned, still to copy or unlink
  hv : Dir \cup {None}]     \* the inode whose disks cloud-hypervisor has opened

Idle == [op |-> "none", args |-> {}, dst |-> None, id |-> 0, seen |-> {}, uuid |-> None,
         cur |-> None, fd |-> None, target |-> None, todo |-> {}, hv |-> None]

GCLabels == {"gcNext", "gcLock", "gcResolve", "gcRm"}
BuildLabels == {"initConfig", "openTmp", "lockTmp", "copyIn", "readSrc", "copySrc",
                "writeConfig", "moveIn"}
Label == GCLabels \cup BuildLabels \cup
  {"idle", "open", "lock", "delResolve", "delRm", "setRead", "setDisk", "setConfig",
   "runConfig", "runPid", "runNet", "runStart", "running", "orphan", "push", "mkTmp", "mvRm"}

---------------------------------------------------------------------------
(* The file system, as a process p finds it through a path.                *)

Present(d) == {f \in File : content[d][f] # 0}
Complete(d) == Present(d) = File
HasFile(d, f) == d # None /\ content[d][f] # 0

There(p) == vms[loc[p].cur]    \* what vms/<name> holds now
Built(p) == tmp[loc[p].uuid]   \* what tmp/<uuid> holds now

Write(d, f, s) == content' = [content EXCEPT ![d][f] = s]

\* A new inode is none that a path or an open descriptor still refers to.
FreshDirs ==
  {d \in Dir :
     /\ \A n \in Name : vms[n] # d
     /\ \A u \in Uuid : tmp[u] # d
     /\ \A p \in Proc : /\ d \notin {loc[p].fd, loc[p].target, loc[p].hv, pid[p]}
                        /\ d \notin excl[p] \cup shrd[p]}

\* uuid.NewString() returns a name that nobody has or remembers.
FreshUuids ==
  {u \in Uuid : tmp[u] = None /\ \A p \in Proc : loc[p].uuid # u /\ u \notin loc[p].seen}

\* mkdir(tmp/<u>), which the process fills with the files c.
Mkdir(u, d, c) ==
  /\ tmp' = [tmp EXCEPT ![u] = d]
  /\ content' = [content EXCEPT ![d] = c]
  /\ displaced' = displaced \ {d}
  /\ doomed' = doomed \ {d}

\* rmdir(path), the end of os.RemoveAll, fails on a directory with files in it.
Removable(d) == d = None \/ Present(d) = {}

---------------------------------------------------------------------------
(* filelock.Trylock: LOCK_EX | LOCK_NB or LOCK_SH | LOCK_NB.               *)

\* Fault: an exclusive lock is granted next to shared ones.
ExclusiveBesideShared(p, d) == \A q \in Proc \ {p} : d \notin excl[q]

Exclusive(p, d) == \A q \in Proc \ {p} : d \notin excl[q] \cup shrd[q]
Shared(p, d) == \A q \in Proc \ {p} : d \notin excl[q]

\* The lock a command asks for on the VM it opens.
TakesShared(p) == loc[p].op \in {"clone", "push"}
\* Fault: every command asks for a shared lock.
CanLockShared(p, d) == Shared(p, d)


CanLock(p, d) == IF TakesShared(p) THEN Shared(p, d) ELSE Exclusive(p, d)

---------------------------------------------------------------------------
(* Control.                                                                *)

Goto(p, l, r) == pc' = [pc EXCEPT ![p] = l] /\ loc' = [loc EXCEPT ![p] = r]

\* Fault: a failed callback's global lock outlives the command.
ExitKeepsGlobalLock(p) ==
  /\ Goto(p, "idle", Idle)
  /\ excl' = [excl EXCEPT ![p] = {}]
  /\ shrd' = [shrd EXCEPT ![p] = {}]
  /\ pid' = [pid EXCEPT ![p] = None]
  /\ UNCHANGED glock

\* The process ends: the kernel closes its descriptors, which drops every
\* flock and PID lock it has, the global one included.
Exit(p) ==
  /\ Goto(p, "idle", Idle)
  /\ excl' = [excl EXCEPT ![p] = {}]
  /\ shrd' = [shrd EXCEPT ![p] = {}]
  /\ pid' = [pid EXCEPT ![p] = None]
  /\ glock' = IF glock = p THEN None ELSE glock

\* An error return: nothing in the file system is undone.
Fail(p) == Exit(p) /\ UNCHANGED <<fsVars, history, bounds>>

\* A step that changes nothing but the process itself.
Continue(p, l, r) == Goto(p, l, r) /\ UNCHANGED <<fsVars, lockVars, history, bounds>>

---------------------------------------------------------------------------
(* The start of a command, and the collection of tmp/ that precedes it.    *)

Init ==
  /\ vms \in InitialVMs
  /\ tmp = [u \in Uuid |-> None]
  /\ content = [d \in Dir |-> [f \in File |-> IF \E n \in Name : vms[n] = d THEN 1 ELSE 0]]
  /\ glock = None
  /\ excl = [p \in Proc |-> {}]
  /\ shrd = [p \in Proc |-> {}]
  /\ pid = [p \in Proc |-> None]
  /\ pc = [p \in Proc |-> "idle"]
  /\ loc = [p \in Proc |-> Idle]
  /\ starts = 0
  /\ crashes = 0
  /\ lone = [p \in Proc |-> FALSE]
  /\ displaced = {} /\ doomed = {} /\ suspect = {}

\* A user enters a command line; temporary.GC reads the entries of tmp/.
Start(p) ==
  /\ pc[p] = "idle"
  /\ starts < MaxStarts
  /\ starts' = starts + 1
  /\ \E c \in Commands :
       Goto(p, "gcNext", [Idle EXCEPT !.op = c.op, !.args = c.args, !.dst = c.dst,
                                      !.id = starts + 2,
                                      !.seen = {u \in Uuid : tmp[u] # None}])
  /\ lone' = [q \in Proc |-> q = p /\ \A r \in Proc \ {p} : pc[r] = "idle"]
  /\ UNCHANGED <<fsVars, lockVars, history, crashes>>

\* Fault: the entry is used although filelock.New did not find it.
GCOpenMissing(p) ==
  /\ pc[p] = "gcNext"
  /\ \E u \in loc[p].seen :
       Continue(p, "gcLock",
                [loc[p] EXCEPT !.seen = @ \ {u}, !.uuid = u, !.fd = tmp[u]])

\* filelock.New on the next entry; one that is gone is skipped.
GCOpen(p) ==
  /\ pc[p] = "gcNext"
  /\ \E u \in loc[p].seen :
       LET rest == loc[p].seen \ {u}
       IN IF tmp[u] = None
          THEN Continue(p, "gcNext", [loc[p] EXCEPT !.seen = rest])
          ELSE Continue(p, "gcLock",
                        [loc[p] EXCEPT !.seen = rest, !.uuid = u, !.fd = tmp[u]])

\* GC is done with an entry and drops the lock on the inode it opened.
GCUnlock(p) ==
  /\ Goto(p, "gcNext", [loc[p] EXCEPT !.uuid = None, !.fd = None, !.target = None])
  /\ excl' = [excl EXCEPT ![p] = @ \ {loc[p].fd}]
  /\ UNCHANGED <<glock, shrd, pid, history, bounds>>

\* Fault: ErrAlreadyLocked is ignored.
GCTrylockIgnored(p) ==
  /\ pc[p] = "gcLock"
  /\ Continue(p, "gcResolve", loc[p])

\* Trylock: "Avoid garbage collection if this directory is in use".
GCTrylock(p) ==
  /\ pc[p] = "gcLock"
  /\ IF Exclusive(p, loc[p].fd)
     THEN /\ excl' = [excl EXCEPT ![p] = @ \cup {loc[p].fd}]
          /\ Goto(p, "gcResolve", loc[p])
          /\ UNCHANGED <<glock, shrd, pid, history, bounds>>
     ELSE GCUnlock(p)
  /\ UNCHANGED fsVars

\* Fault: GC locks and unlocks the entry without removing it.
GCResolveNothing(p) == pc[p] = "gcResolve" /\ GCUnlock(p) /\ UNCHANGED fsVars

\* os.RemoveAll(path) resolves the path again, which may be gone or hold
\* another directory than the one that was locked.
GCResolve(p) ==
  /\ pc[p] = "gcResolve"
  /\ IF Built(p) = None
     THEN GCUnlock(p) /\ UNCHANGED fsVars
     ELSE Continue(p, "gcRm",
                   [loc[p] EXCEPT !.target = Built(p), !.todo = Present(Built(p))])

\* os.RemoveAll unlinks the files it has listed in the directory it has opened;
\* one that is gone already is not an error.
Unlink(p) ==
  /\ pc[p] \in {"gcRm", "mvRm", "delRm"}
  /\ \E f \in loc[p].todo :
       /\ Write(loc[p].target, f, 0)
       /\ Goto(p, pc[p], [loc[p] EXCEPT !.todo = @ \ {f}])
  /\ UNCHANGED <<vms, tmp, lockVars, history, bounds>>

GCRmdir(p) ==
  /\ pc[p] = "gcRm"
  /\ loc[p].todo = {}
  /\ IF Removable(Built(p))
     THEN /\ tmp' = [tmp EXCEPT ![loc[p].uuid] = None]
          /\ GCUnlock(p)
          /\ UNCHANGED <<vms, content>>
     ELSE Fail(p)

\* remote.GC runs under the global lock and touches nothing of this module.
GCDone(p) ==
  /\ pc[p] = "gcNext"
  /\ loc[p].seen = {}
  /\ glock = None
  /\ Continue(p, IF loc[p].op = "create" THEN "mkTmp" ELSE "open", loc[p])

---------------------------------------------------------------------------
(* Opening and locking a VM under the global lock.                         *)

AfterLock(op) ==
  CASE op = "clone"  -> "mkTmp"
    [] op = "delete" -> "delResolve"
    [] op = "set"    -> "setRead"
    [] op = "run"    -> "runConfig"
    [] OTHER         -> "push"

\* runDelete keeps the global lock and goes on with the next name whatever
\* became of this one; the command ends after the last name.
DeleteNext(p, rest) ==
  IF rest = {}
  THEN Exit(p)
  ELSE /\ Goto(p, "open", [loc[p] EXCEPT !.args = rest, !.cur = None, !.fd = None,
                                         !.target = None])
       /\ glock' = p
       /\ excl' = [excl EXCEPT ![p] = @ \ {loc[p].fd}]
       /\ UNCHANGED <<shrd, pid>>

\* What a failure to open or lock a VM does to the command.
Refused(p, rest) == IF loc[p].op = "delete" THEN DeleteNext(p, rest) ELSE Exit(p)

\* filelock.New(vms/<name>) inside globallock.With.
OpenNamed(p) ==
  /\ pc[p] = "open"
  /\ glock \in {None, p}
  /\ \E n \in loc[p].args :
       LET rest == loc[p].args \ {n}
       IN IF vms[n] = None
          THEN Refused(p, rest)
          ELSE /\ glock' = p
               /\ Goto(p, "lock", [loc[p] EXCEPT !.args = rest, !.cur = n, !.fd = vms[n]])
               /\ UNCHANGED <<excl, shrd, pid>>
  /\ UNCHANGED <<fsVars, history, bounds>>

\* Trylock on what was opened; every command but delete then leaves With.
LockNamed(p) ==
  /\ pc[p] = "lock"
  /\ IF CanLock(p, loc[p].fd)
     THEN /\ IF TakesShared(p)
             THEN shrd' = [shrd EXCEPT ![p] = @ \cup {loc[p].fd}] /\ UNCHANGED excl
             ELSE excl' = [excl EXCEPT ![p] = @ \cup {loc[p].fd}] /\ UNCHANGED shrd
          /\ glock' = IF loc[p].op = "delete" THEN p ELSE None
          /\ Goto(p, AfterLock(loc[p].op), loc[p])
          /\ UNCHANGED pid
     ELSE Refused(p, loc[p].args)
  /\ UNCHANGED <<fsVars, history, bounds>>

---------------------------------------------------------------------------
(* vetu delete: os.RemoveAll(vms/<name>), still under the global lock.     *)

DeleteResolve(p) ==
  /\ pc[p] = "delResolve"
  /\ IF There(p) = None
     THEN DeleteNext(p, loc[p].args) /\ UNCHANGED doomed
     ELSE /\ Goto(p, "delRm", [loc[p] EXCEPT !.target = There(p),
                                             !.todo = Present(There(p))])
          /\ doomed' = doomed \cup {There(p)}
          /\ UNCHANGED lockVars
  /\ UNCHANGED <<fsVars, bounds, displaced, suspect>>

DeleteRmdir(p) ==
  /\ pc[p] = "delRm"
  /\ loc[p].todo = {}
  /\ vms' = [vms EXCEPT ![loc[p].cur] = IF Removable(@) THEN None ELSE @]
  /\ DeleteNext(p, loc[p].args)
  /\ UNCHANGED <<tmp, content, history, bounds>>

---------------------------------------------------------------------------
(* vetu set, after the global lock: every file is reached by path.         *)

SetRead(p) ==
  /\ pc[p] = "setRead"
  /\ IF HasFile(There(p), "config") THEN Continue(p, "setDisk", loc[p]) ELSE Fail(p)

\* History: a set whose VM was replaced writes to a directory it never locked.
Touched(p) ==
  suspect' = IF There(p) = loc[p].fd THEN suspect ELSE suspect \cup {There(p)}

\* resizeDisk, when --disk-size is given: grows the disk, or fails because the
\* disk is missing or would shrink.
SetDisk(p) ==
  /\ pc[p] = "setDisk"
  /\ \/ Continue(p, "setConfig", loc[p])
     \/ /\ HasFile(There(p), "disk")
        /\ Write(There(p), "disk", loc[p].id)
        /\ Touched(p)
        /\ Goto(p, "setConfig", loc[p])
        /\ UNCHANGED <<vms, tmp, lockVars, displaced, doomed, bounds>>
     \/ Fail(p)

SetConfig(p) ==
  /\ pc[p] = "setConfig"
  /\ IF There(p) = None
     THEN UNCHANGED <<content, suspect>>
     ELSE Write(There(p), "config", loc[p].id) /\ Touched(p)
  /\ Exit(p)
  /\ UNCHANGED <<vms, tmp, displaced, doomed, bounds>>

---------------------------------------------------------------------------
(* vetu run and its cloud-hypervisor child.                                *)

RunConfig(p) ==
  /\ pc[p] = "runConfig"
  /\ IF HasFile(There(p), "config") THEN Continue(p, "runPid", loc[p]) ELSE Fail(p)

\* pidlock.Trylock on config.json: "VM is already running" if someone has it.
RunPid(p) ==
  /\ pc[p] = "runPid"
  /\ IF HasFile(There(p), "config") /\ \A q \in Proc \ {p} : pid[q] # There(p)
     THEN /\ pid' = [pid EXCEPT ![p] = There(p)]
          /\ Goto(p, "runNet", loc[p])
          /\ UNCHANGED <<fsVars, glock, excl, shrd, history, bounds>>
     ELSE Fail(p)

\* The architecture check, and the network initialised under the global lock.
RunNet(p) ==
  /\ pc[p] = "runNet"
  /\ \/ glock = None /\ Continue(p, "runStart", loc[p])
     \/ Fail(p)

\* cloud-hypervisor opens the kernel and the disks by path.
RunStart(p) ==
  /\ pc[p] = "runStart"
  /\ IF HasFile(There(p), "disk")
     THEN Continue(p, "running", [loc[p] EXCEPT !.hv = There(p)])
     ELSE Fail(p)

\* The guest powers off or is stopped, or an orphaned hypervisor ends.
RunExit(p) == pc[p] \in {"running", "orphan"} /\ Fail(p)

\* vetu push reads the VM under its shared lock.  Without --populate-cache, when
\* the upload fails, or when the cache has that digest already, that is all.
PushExit(p) == pc[p] = "push" /\ Fail(p)

\* --populate-cache: remote.MoveIn renames vms/<name> into the cache, without
\* the global lock; the link to the digest and the exit follow.
PushPopulate(p) ==
  /\ pc[p] = "push"
  /\ There(p) # None
  /\ vms' = [vms EXCEPT ![loc[p].cur] = None]
  /\ displaced' = displaced \cup {There(p)}
  /\ Exit(p)
  /\ UNCHANGED <<tmp, content, doomed, suspect, bounds>>

---------------------------------------------------------------------------
(* Building a VM in tmp/: temporary.Create, CreateTryLocked, CreateFrom.   *)

MakeTmp(p) ==
  /\ pc[p] = "mkTmp"
  /\ FreshUuids # {} /\ FreshDirs # {}
  /\ LET u == Pick(FreshUuids)
         d == Pick(FreshDirs)
     IN /\ Mkdir(u, d, EmptyDir)
        /\ suspect' = suspect \ {d}
        /\ Goto(p, IF loc[p].op = "create" THEN "initConfig" ELSE "openTmp",
                [loc[p] EXCEPT !.uuid = u])
  /\ UNCHANGED <<vms, lockVars, bounds>>

\* temporary.Create writes a default config before the directory is locked.
InitConfig(p) ==
  /\ pc[p] = "initConfig"
  /\ IF Built(p) = None
     THEN Fail(p)
     ELSE /\ Write(Built(p), "config", loc[p].id)
          /\ Goto(p, "openTmp", loc[p])
          /\ UNCHANGED <<vms, tmp, lockVars, history, bounds>>

OpenTmp(p) ==
  /\ pc[p] = "openTmp"
  /\ IF Built(p) = None
     THEN Fail(p)
     ELSE Continue(p, "lockTmp", [loc[p] EXCEPT !.target = Built(p)])

\* Fault: the new directory is never locked.
LockTmpNot(p) ==
  /\ pc[p] = "lockTmp"
  /\ Continue(p, IF loc[p].op = "create" THEN "copyIn" ELSE "readSrc", loc[p])

\* The lock is on the inode that was opened, which may have been removed since.
LockTmp(p) ==
  /\ pc[p] = "lockTmp"
  /\ IF Exclusive(p, loc[p].target)
     THEN /\ excl' = [excl EXCEPT ![p] = @ \cup {loc[p].target}]
          /\ Goto(p, IF loc[p].op = "create" THEN "copyIn" ELSE "readSrc", loc[p])
          /\ UNCHANGED <<fsVars, glock, shrd, pid, history, bounds>>
     ELSE Fail(p)

\* runCreate copies kernel, initramfs and disks with otiai10/copy, which makes
\* the directory again if it is gone; a missing --kernel or file is an error.
CopyIn(p) ==
  /\ pc[p] = "copyIn"
  /\ \/ /\ Built(p) # None
        /\ Write(Built(p), "disk", loc[p].id)
        /\ Goto(p, "writeConfig", loc[p])
        /\ UNCHANGED <<vms, tmp, lockVars, history, bounds>>
     \/ /\ Built(p) = None
        /\ FreshDirs # {}
        /\ LET d == Pick(FreshDirs)
           IN /\ Mkdir(loc[p].uuid, d, [EmptyDir EXCEPT !["disk"] = loc[p].id])
              /\ suspect' = suspect \cup {d}
        /\ Goto(p, "writeConfig", loc[p])
        /\ UNCHANGED <<vms, lockVars, bounds>>
     \/ Fail(p)

\* CreateFrom(srcDir): os.ReadDir and then one os.Open per entry, by path.
ReadSource(p) ==
  /\ pc[p] = "readSrc"
  /\ IF There(p) = None
     THEN Fail(p)
     ELSE Continue(p, "copySrc", [loc[p] EXCEPT !.todo = Present(There(p))])

CopyFile(p) ==
  /\ pc[p] = "copySrc"
  /\ \E f \in loc[p].todo :
       IF HasFile(There(p), f) /\ Built(p) # None
       THEN /\ Write(Built(p), f, content[There(p)][f])
            /\ Goto(p, "copySrc", [loc[p] EXCEPT !.todo = @ \ {f}])
            /\ UNCHANGED <<vms, tmp, lockVars, history, bounds>>
       ELSE Fail(p)

\* The last SetConfig: create writes the whole config; clone needs the copied
\* one, in which it replaces the MAC address only.
WriteConfig(p) ==
  /\ pc[p] = "writeConfig" \/ (pc[p] = "copySrc" /\ loc[p].todo = {})
  /\ CASE ~HasFile(Built(p), "config") /\ loc[p].op = "clone" -> Fail(p)
       [] Built(p) = None -> Fail(p)
       [] OTHER ->
            /\ IF loc[p].op = "create"
               THEN Write(Built(p), "config", loc[p].id)
               ELSE UNCHANGED content
            /\ Goto(p, "moveIn", loc[p])
            /\ UNCHANGED <<vms, tmp, lockVars, history, bounds>>

---------------------------------------------------------------------------
(* local.MoveIn under the global lock.                                     *)

\* History: a clone is suspect if its source was replaced while it was copied,
\* or was itself damaged.
Published(p) ==
  suspect' = IF loc[p].op = "clone" /\ loc[p].fd \in displaced \cup doomed \cup suspect
             THEN suspect \cup {Built(p)}
             ELSE suspect

\* An error return: the built directory is gone, or rename(2) or the exchange
\* of the two names fails with both of them as they were.
MoveInFail(p) ==
  /\ pc[p] = "moveIn"
  /\ glock = None
  /\ Fail(p)

\* The target name is free: one rename(2).
MoveInRename(p) ==
  /\ pc[p] = "moveIn"
  /\ glock = None
  /\ Built(p) # None
  /\ vms[loc[p].dst] = None
  /\ vms' = [vms EXCEPT ![loc[p].dst] = Built(p)]
  /\ tmp' = [tmp EXCEPT ![loc[p].uuid] = None]
  /\ Published(p)
  /\ Exit(p)
  /\ UNCHANGED <<content, displaced, doomed, bounds>>

\* Fault: the VM to replace is moved away first, and the new one comes later.
MoveInTwoSteps(p) ==
  /\ pc[p] = "moveIn"
  /\ glock = None
  /\ Built(p) # None
  /\ vms[loc[p].dst] # None
  /\ vms' = [vms EXCEPT ![loc[p].dst] = None]
  /\ UNCHANGED <<tmp, content, lockVars, pc, loc, bounds, history>>

\* Fault: MoveIn is not under the global lock.
MoveInUnlocked(p) ==
  /\ pc[p] = "moveIn"
  /\ Built(p) # None
  /\ vms[loc[p].dst] # None
  /\ vms' = [vms EXCEPT ![loc[p].dst] = Built(p)]
  /\ tmp' = [tmp EXCEPT ![loc[p].uuid] = vms[loc[p].dst]]
  /\ displaced' = displaced \cup {vms[loc[p].dst]}
  /\ Goto(p, "mvRm", [loc[p] EXCEPT !.target = vms[loc[p].dst],
                                   !.todo = Present(vms[loc[p].dst])])
  /\ UNCHANGED <<content, lockVars, bounds, doomed, suspect>>

\* The target is a directory: renameat2(RENAME_EXCHANGE) swaps the two, whoever
\* holds a lock on the VM that is replaced.
MoveInExchange(p) ==
  /\ pc[p] = "moveIn"
  /\ glock = None
  /\ Built(p) # None
  /\ LET old == vms[loc[p].dst]
     IN /\ old # None
        /\ vms' = [vms EXCEPT ![loc[p].dst] = Built(p)]
        /\ tmp' = [tmp EXCEPT ![loc[p].uuid] = old]
        /\ displaced' = displaced \cup {old}
        /\ Goto(p, "mvRm", [loc[p] EXCEPT !.target = old, !.todo = Present(old)])
  /\ Published(p)
  /\ glock' = p
  /\ UNCHANGED <<content, excl, shrd, pid, bounds, doomed>>

\* ... and os.RemoveAll(tmp/<uuid>) then removes the VM that was replaced.
MoveInRmdir(p) ==
  /\ pc[p] = "mvRm"
  /\ loc[p].todo = {}
  /\ tmp' = [tmp EXCEPT ![loc[p].uuid] = IF Removable(@) THEN None ELSE @]
  /\ Exit(p)
  /\ UNCHANGED <<vms, content, history, bounds>>

---------------------------------------------------------------------------
\* Fault: the lock's descriptor is close-on-exec, so the hypervisor is left
\* without it.
CrashCloexec(p) ==
  /\ pc[p] \notin {"idle", "orphan"}
  /\ crashes < MaxCrashes
  /\ crashes' = crashes + 1
  /\ IF pc[p] = "running"
     THEN /\ Goto(p, "orphan", loc[p])
          /\ pid' = [pid EXCEPT ![p] = None]
          /\ excl' = [excl EXCEPT ![p] = {}]
          /\ UNCHANGED <<glock, shrd>>
     ELSE Exit(p)
  /\ UNCHANGED <<fsVars, history, starts, lone>>

\* SIGKILL, or an interrupt while waiting for the global lock.  A running
\* cloud-hypervisor outlives vetu; it has inherited the flock (filelock.New
\* opens without O_CLOEXEC) but not the PID lock.
Crash(p) ==
  /\ pc[p] \notin {"idle", "orphan"}
  /\ crashes < MaxCrashes
  /\ crashes' = crashes + 1
  /\ IF pc[p] = "running"
     THEN /\ Goto(p, "orphan", loc[p])
          /\ pid' = [pid EXCEPT ![p] = None]
          /\ UNCHANGED <<glock, excl, shrd>>
     ELSE Exit(p)
  /\ UNCHANGED <<fsVars, history, starts, lone>>

---------------------------------------------------------------------------
GC(p) == GCOpen(p) \/ GCTrylock(p) \/ GCResolve(p) \/ GCRmdir(p) \/ GCDone(p)
Build(p) == \/ MakeTmp(p) \/ InitConfig(p) \/ OpenTmp(p) \/ LockTmp(p) \/ CopyIn(p)
            \/ ReadSource(p) \/ CopyFile(p) \/ WriteConfig(p)
MoveIn(p) == MoveInFail(p) \/ MoveInRename(p) \/ MoveInExchange(p) \/ MoveInRmdir(p)
Delete(p) == DeleteResolve(p) \/ DeleteRmdir(p)
Set(p) == SetRead(p) \/ SetDisk(p) \/ SetConfig(p)
Push(p) == PushExit(p) \/ PushPopulate(p)
Run(p) == RunConfig(p) \/ RunPid(p) \/ RunNet(p) \/ RunStart(p) \/ RunExit(p)

\* What a started command does next.
Step(p) == \/ GC(p) \/ Unlink(p) \/ OpenNamed(p) \/ LockNamed(p) \/ Delete(p) \/ Set(p)
           \/ Run(p) \/ Push(p) \/ Build(p) \/ MoveIn(p)

\* No command runs; the bound on starts may not let another one begin.
Quiet == (\A p \in Proc : pc[p] = "idle") /\ UNCHANGED vars

Next == (\E p \in Proc : Start(p) \/ Step(p) \/ Crash(p)) \/ Quiet

Spec == Init /\ [][Next]_vars

\* The operating system schedules every process, so that the polling loop of
\* the global lock meets it free, and a guest is shut down at some point.
FairSpec == Spec /\ \A p \in Proc : WF_vars(Step(p))

---------------------------------------------------------------------------
(* Properties.                                                             *)

\* Every variable keeps its type.
TypeOK ==
  /\ vms \in [Name -> Dir \cup {None}]
  /\ tmp \in [Uuid -> Dir \cup {None}]
  /\ content \in [Dir -> [File -> Stamp]]
  /\ glock \in Proc \cup {None}
  /\ excl \in [Proc -> SUBSET Dir]
  /\ shrd \in [Proc -> SUBSET Dir]
  /\ pid \in [Proc -> Dir \cup {None}]
  /\ pc \in [Proc -> Label]
  /\ loc \in [Proc -> Local]
  /\ starts \in 0 .. MaxStarts
  /\ crashes \in 0 .. MaxCrashes
  /\ lone \in [Proc -> BOOLEAN]
  /\ displaced \subseteq Dir /\ doomed \subseteq Dir /\ suspect \subseteq Dir

\* A process past LockNamed that still reaches files through vms/<name>.
Working(p) == pc[p] \in {"delResolve", "delRm", "setRead", "setDisk", "setConfig", "runConfig",
                         "runPid", "runNet", "runStart", "push", "readSrc", "copySrc"}

\* The lock taken in run.go, set.go, push.go, clone.go and local.Delete is on
\* the directory the command then uses by path: vms/<name> still holds the
\* inode that was locked, unless a MoveIn has exchanged it away.  It takes two
\* commands to break: a delete that does not respect the lock, or a Trylock on
\* an inode that left vms/ after it was opened.
LockedIsNamed ==
  \A p \in Proc : Working(p) => There(p) = loc[p].fd \/ loc[p].fd \in displaced

\* local.Delete empties only the directory whose exclusive lock it holds, and
\* its name never denotes another one meanwhile, although os.RemoveAll resolves
\* the path again: the global lock keeps every local.MoveIn away.  (A push that
\* populates the cache does without that lock, and can take the name away.)
DeleteRemovesLocked ==
  \A p \in Proc : pc[p] = "delRm" =>
    /\ loc[p].target = loc[p].fd
    /\ There(p) \in {loc[p].target, None}
    /\ loc[p].target \in excl[p]
    /\ Exclusive(p, loc[p].target)

\* Two cloud-hypervisors never have the same disks open (run.go holds the lock
\* of the VM directory until it ends, and its child keeps it if run is killed),
\* except after a MoveIn replaced the VM of one of them.
HypervisorExclusive ==
  \A p, q \in Proc : p # q /\ loc[p].hv # None /\ loc[p].hv = loc[q].hv =>
    loc[p].fd \in displaced \/ loc[q].fd \in displaced

\* temporary.GC never empties a directory on which a command of another process
\* holds a lock, except a VM that MoveIn has replaced and left in tmp/.
GCSparesLocked ==
  \A p, q \in Proc : p # q /\ pc[p] = "gcRm" /\ loc[p].target \in excl[q] \cup shrd[q] =>
    pc[q] \in GCLabels \/ loc[p].target \in displaced

\* Whatever is reachable under vms/ has all its files at every moment, through
\* crashes and concurrent collections: a directory appears there complete and
\* stays so until a delete of it begins.  Not covered: a directory that create
\* rebuilt after losing it to a collection, and the clone of a source that was
\* replaced, or that a crashed delete had left incomplete.
PublishedComplete ==
  \A n \in Name : vms[n] # None =>
    Complete(vms[n]) \/ vms[n] \in doomed \cup suspect

\* clone.go: what is about to be moved in is file by file what the locked source
\* holds, so no set or delete got in between, unless the source was replaced or
\* a set that had lost its own VM wrote to it.
CloneIntact ==
  \A p \in Proc :
    /\ pc[p] = "moveIn" /\ loc[p].op = "clone" /\ Built(p) # None
    /\ loc[p].fd \notin displaced \cup suspect
    => content[Built(p)] = content[loc[p].fd]

\* A name disappears from vms/ only when a delete of it removes it or a push of
\* it populates the cache: replacing a VM (local.MoveIn over an existing name)
\* leaves no moment without one, whatever else runs or crashes.
NamesVanishOnPurpose ==
  [][\A n \in Name : vms[n] # None /\ vms'[n] = None =>
       \E p \in Proc : /\ loc[p].cur = n
                       /\ (pc[p] = "delRm" /\ glock = p) \/ pc[p] = "push"]_vars

\* Whatever crashes left in tmp/, a command that starts while no other runs has
\* collected all of it by the time it does its own work.
LoneGCCollectsAll ==
  \A p \in Proc : lone[p] /\ pc[p] \in {"open", "mkTmp"} => \A u \in Uuid : tmp[u] = None

\* Every command ends: nobody waits for ever for the global lock, which a
\* command whose callback failed keeps until it exits (globallock.With).
CommandsEnd == \A p \in Proc : pc[p] # "idle" ~> pc[p] = "idle"

---------------------------------------------------------------------------
(* The inductive invariant behind the theorems of LocalStorageProofs.      *)

\* flock(2): an exclusive lock excludes every other process.
Flocks ==
  \A p, q \in Proc : p # q => excl[p] \cap (excl[q] \cup shrd[q]) = {}

ExclusiveLabels == {"delResolve", "delRm", "setRead", "setDisk", "setConfig", "runConfig",
                    "runPid", "runNet", "runStart", "running", "orphan"}

\* The process has locked the VM it opened and not ended since.
Holds(p) == \/ pc[p] \in ExclusiveLabels \cup {"push"}
            \/ pc[p] \in BuildLabels \cup {"mkTmp"} /\ loc[p].op = "clone"

Control(p) ==
  /\ pc[p] # "idle" => loc[p].op \in Op
  /\ loc[p].op \in {"create", "clone"} => loc[p].dst \in Name
  /\ pc[p] \in BuildLabels \cup {"mkTmp", "mvRm"} => loc[p].op \in {"create", "clone"}
  /\ pc[p] \in {"readSrc", "copySrc"} => loc[p].op = "clone"
  /\ pc[p] \in BuildLabels \cup {"mvRm", "gcLock", "gcResolve", "gcRm"} => loc[p].uuid \in Uuid
  /\ pc[p] \in {"gcLock", "gcResolve", "gcRm", "lock"} => loc[p].fd \in Dir
  /\ pc[p] \in {"gcRm", "mvRm", "delRm", "lockTmp"} => loc[p].target \in Dir
  /\ pc[p] \in {"lock", "delResolve", "delRm", "mvRm"} => glock = p
  /\ pc[p] \in {"lock", "delResolve", "delRm"} =>
       /\ loc[p].cur \in Name
       /\ There(p) = loc[p].fd \/ (There(p) = None /\ loc[p].fd \in displaced)
  /\ pc[p] = "lock" => loc[p].op # "create"
  /\ pc[p] = "open" => loc[p].op # "create"
  /\ pc[p] \in {"delResolve", "delRm"} => loc[p].op = "delete"
  /\ pc[p] = "delRm" => loc[p].target = loc[p].fd
  /\ pc[p] \in ExclusiveLabels => loc[p].fd \in excl[p]
  /\ Holds(p) => /\ loc[p].cur \in Name
                 /\ loc[p].fd \in excl[p] \cup shrd[p]
                 /\ There(p) = loc[p].fd \/ loc[p].fd \in displaced
  /\ loc[p].hv # None => /\ pc[p] \in {"running", "orphan"}
                         /\ loc[p].hv = loc[p].fd \/ loc[p].fd \in displaced

\* Every process is where its locals say, whatever the others do.
IInv == TypeOK /\ Flocks /\ \A p \in Proc : Control(p)

===========================================================================
