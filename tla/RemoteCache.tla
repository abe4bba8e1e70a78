---------------------------- MODULE RemoteCache ----------------------------
(* The cache of remote images, VETU_HOME/cache/OCIs, for one namespace of   *)
(* one registry: a directory per digest, and a symbolic link per tag to one *)
(* of them.  Any number of vetu processes share it.  Collecting and         *)
(* deleting are done under the global lock, pulling under the lock of the   *)
(* registry, and populating it from a push under neither.                   *)
(*                                                                          *)
(* A process runs one command: remote.GC, which precedes every command      *)
(* (command/root.go), then pull, clone, delete or push.  One action is one  *)
(* system call or a group of them nothing can observe halfway.              *)
EXTENDS Naturals, FiniteSets

CONSTANTS
  Proc,       \* process slots: at most Cardinality(Proc) commands at a time
  Tag,        \* tags of the namespace
  Digest,     \* digests of its manifests
  None,       \* "no such thing"
  Commands,   \* the command lines users may enter
  MaxStarts,  \* bound: commands started in a behaviour
  MaxCrashes  \* bound: processes killed or interrupted in a behaviour

Op == {"pull", "clone", "delete", "push"}

\* A command line names tags and digests; only delete takes several.
Command == [op : Op, args : SUBSET (Tag \cup Digest)]

ASSUME ConstantsAssumption ==
  /\ None \notin Proc \cup Tag \cup Digest
  /\ Tag \cap Digest = {}
  /\ Commands \subseteq Command
  /\ \A c \in Commands : c.op # "delete" => \E r \in Tag \cup Digest : c.args = {r}
  /\ \A c \in Commands : c.op = "push" => c.args \subseteq Tag
  /\ MaxStarts \in Nat
  /\ MaxCrashes \in Nat

VARIABLES
  exists,    \* the digests that have a directory
  files,     \* Digest -> the files in that directory
  tags,      \* Tag -> the digest its symbolic link names (dangling if it is gone)
  registry,  \* Tag -> the digest the registry resolves it to (None: unknown)
  glock,     \* the process that holds the flock on VETU_HOME
  rlock,     \* the process that holds the flock on cache/OCIs/<registry>
  dlock,     \* Digest -> the puller whose exclusive flock is on the directory
  pc, loc,   \* where each process is, and its local state (see Local)
  starts, crashes,
  written,   \* history: tags and digests linked or marked since a GC listed them
  damaged,   \* history: digests whose directory a RemoveAll has begun to empty,
             \* or whose download was interrupted
  raced,     \* history: pulls during which something was removed or pushed
  populated  \* history: digests a push has put in the cache, or tried to

fsVars == <<exists, files, tags>>
lockVars == <<glock, rlock, dlock>>
bounds == <<starts, crashes>>
history == <<written, damaged, raced, populated>>
vars == <<fsVars, registry, lockVars, pc, loc, bounds, history>>

\* "disk" stands for every file of the image but config.json.
Image == {"config", "disk"}
Mark == ".explicitly-pulled"
File == Image \cup {Mark}

Local == [
  op : Op \cup {"none"},
  args : SUBSET (Tag \cup Digest),     \* delete: names still to delete
  ref : Tag \cup Digest \cup {None},   \* the name it is working on
  dig : Digest \cup {None},            \* the manifest's digest, or the directory in hand
  seen : SUBSET Tag,                   \* GC: links listed and not yet visited
  cur : Tag \cup {None},               \* GC: the link being visited
  refs : SUBSET Digest,                \* GC: keys of anyPathToNumReferences
  managed : SUBSET Digest,             \* GC: managedPaths not yet looked at
  todo : SUBSET File,                  \* entries ReadDir returned, to unlink or copy
  got : SUBSET File]                   \* files downloaded or copied to tmp/

Idle == [op |-> "none", args |-> {}, ref |-> None, dig |-> None, seen |-> {}, cur |-> None,
         refs |-> {}, managed |-> {}, todo |-> {}, got |-> {}]

GCLabels == {"gcVisit", "gcStat", "gcUnlink", "gcPick", "gcRm"}
\* Inside remote.Pull with the registry lock held.
PullLabels == {"manifest", "check", "download", "rename", "checkTag", "rmTag", "mkTag", "mark"}
Label == GCLabels \cup PullLabels \cup
  {"idle", "gcList", "delete", "delTag", "delRm", "lockReg", "pulled", "checkSrc", "openSrc",
   "readSrc", "copySrc", "push"}

---------------------------------------------------------------------------
(* The cache, as a process finds it.                                       *)

\* remote.Exists: the path resolves, through the link if it is a tag.
Target(r) == IF r \in Tag THEN tags[r] ELSE r
Exists(r) == Target(r) \in exists

Goto(p, l, r) == pc' = [pc EXCEPT ![p] = l] /\ loc' = [loc EXCEPT ![p] = r]

\* The pull p gives up its locks: on the registry and on its own directory.
Release(p) ==
  /\ rlock' = IF rlock = p THEN None ELSE rlock
  /\ dlock' = [d \in Digest |-> IF dlock[d] = p THEN None ELSE dlock[d]]

\* The process ends, and the kernel drops every lock it has.
Exit(p) == Goto(p, "idle", Idle) /\ Release(p) /\ glock' = IF glock = p THEN None ELSE glock

\* An error return: nothing in the file system is undone.
Fail(p) == Exit(p) /\ UNCHANGED <<fsVars, registry, bounds, history>>

\* A step that changes nothing but the process itself.
Continue(p, l, r) ==
  Goto(p, l, r) /\ UNCHANGED <<fsVars, registry, lockVars, bounds, history>>

\* runDelete goes on with the next name whatever became of this one.
DeleteNext(p) ==
  IF loc[p].args = {} THEN Fail(p) ELSE Continue(p, "delete", loc[p])

\* remote.GC runs before every command, and once more inside remote.Delete.
InDelete(p) == loc[p].op = "delete" /\ loc[p].ref # None
GCFail(p) == IF InDelete(p) THEN DeleteNext(p) ELSE Fail(p)

\* History: the pulls in progress, which a removal may have deprived of something.
Pulling == {p \in Proc : pc[p] \in PullLabels \cup {"pulled"}}

---------------------------------------------------------------------------
(* The start of a command, and remote.GC under the global lock.            *)

\* A cache that finished commands leave: whole images, marked or not, some of
\* them without a tag, and links to images that are there.
Init ==
  /\ exists \in SUBSET Digest
  /\ \E marked \in SUBSET exists :
       files = [d \in Digest |-> CASE d \in marked -> File
                                   [] d \in exists \ marked -> Image
                                   [] OTHER -> {}]
  /\ tags \in [Tag -> exists \cup {None}]
  /\ registry \in [Tag -> Digest \cup {None}]
  /\ glock = None /\ rlock = None
  /\ dlock = [d \in Digest |-> None]
  /\ pc = [p \in Proc |-> "idle"]
  /\ loc = [p \in Proc |-> Idle]
  /\ starts = 0 /\ crashes = 0
  /\ written = {} /\ damaged = {} /\ raced = {} /\ populated = {}

Start(p) ==
  /\ pc[p] = "idle"
  /\ starts < MaxStarts
  /\ starts' = starts + 1
  /\ \E c \in Commands : Goto(p, "gcList", [Idle EXCEPT !.op = c.op, !.args = c.args])
  /\ UNCHANGED <<fsVars, registry, lockVars, crashes, history>>

\* filepath.WalkDir reads the namespace's directory once.
GCList(p) ==
  /\ pc[p] = "gcList"
  /\ glock \in {None, p}
  /\ glock' = p
  /\ Goto(p, "gcVisit", [loc[p] EXCEPT !.seen = {t \in Tag : tags[t] # None}, !.refs = {},
                                       !.managed = exists])
  /\ written' = {}
  /\ UNCHANGED <<fsVars, registry, rlock, dlock, bounds, damaged, raced, populated>>

\* Fault: a link that is gone is used as if it had been read.
GCVisitMissing(p) ==
  /\ pc[p] = "gcVisit"
  /\ \E t \in loc[p].seen :
       Continue(p, "gcStat", [loc[p] EXCEPT !.seen = @ \ {t}, !.cur = t, !.dig = tags[t],
                                            !.refs = @ \cup {tags[t]}])

\* Fault: a link that is gone is tried again.
GCVisitAgain(p) ==
  /\ pc[p] = "gcVisit"
  /\ \E t \in loc[p].seen :
       IF tags[t] = None
       THEN Continue(p, "gcVisit", loc[p])
       ELSE Continue(p, "gcStat", [loc[p] EXCEPT !.seen = @ \ {t}, !.cur = t, !.dig = tags[t]])

\* os.Readlink on the next link; a pull may have removed it meanwhile, and then
\* the whole command fails.
GCVisit(p) ==
  /\ pc[p] = "gcVisit"
  /\ \E t \in loc[p].seen :
       IF tags[t] = None
       THEN GCFail(p)
       ELSE Continue(p, "gcStat", [loc[p] EXCEPT !.seen = @ \ {t}, !.cur = t, !.dig = tags[t]])

\* Fault: the reference is not counted.
GCStatUncounted(p) ==
  /\ pc[p] = "gcStat"
  /\ Continue(p, IF loc[p].dig \in exists THEN "gcVisit" ELSE "gcUnlink", loc[p])

\* os.Lstat on what the link named.  The reference counts, broken or not.
GCStat(p) ==
  /\ pc[p] = "gcStat"
  /\ Continue(p, IF loc[p].dig \in exists THEN "gcVisit" ELSE "gcUnlink",
              [loc[p] EXCEPT !.refs = @ \cup {loc[p].dig}])

\* os.Remove(path) of a broken link: whatever the path holds by now.
GCUnlink(p) ==
  /\ pc[p] = "gcUnlink"
  /\ IF tags[loc[p].cur] = None
     THEN GCFail(p)
     ELSE /\ tags' = [tags EXCEPT ![loc[p].cur] = None]
          /\ raced' = raced \cup Pulling
          /\ Goto(p, "gcVisit", loc[p])
          /\ UNCHANGED <<exists, files, registry, lockVars, bounds, written, damaged, populated>>

\* The next managed path: kept if it is referenced or marked, else RemoveAll
\* opens and lists it.  No flock on the directory is asked for.  The look at the
\* mark and the listing are one step: a mark made between the two is lost in the
\* code, and the digest is in `written` then.
GCPick(p) ==
  /\ pc[p] \in {"gcVisit", "gcPick"}
  /\ loc[p].seen = {}
  /\ \E d \in loc[p].managed :
       LET rest == [loc[p] EXCEPT !.managed = @ \ {d}]
       IN IF d \in loc[p].refs \/ Mark \in files[d]
          THEN Continue(p, "gcPick", rest)
          ELSE /\ Goto(p, "gcRm", [rest EXCEPT !.dig = d, !.todo = files[d]])
               /\ damaged' = damaged \cup {d}
               /\ raced' = raced \cup Pulling
               /\ UNCHANGED <<fsVars, registry, lockVars, bounds, written, populated>>

\* os.RemoveAll unlinks what it has listed ...
Unlink(p) ==
  /\ pc[p] \in {"gcRm", "delRm"}
  /\ \E f \in loc[p].todo :
       /\ files' = [files EXCEPT ![loc[p].dig] = @ \ {f}]
       /\ Goto(p, pc[p], [loc[p] EXCEPT !.todo = @ \ {f}])
  /\ UNCHANGED <<exists, tags, registry, lockVars, bounds, history>>

\* ... and then the directory, which fails if something was written meanwhile.
Rmdir(p) ==
  /\ exists' = exists \ {loc[p].dig}
  /\ dlock' = [dlock EXCEPT ![loc[p].dig] = None]
  /\ raced' = raced \cup Pulling
  /\ UNCHANGED <<files, tags, registry, glock, rlock, bounds, written, damaged, populated>>

GCRmdir(p) ==
  /\ pc[p] = "gcRm"
  /\ loc[p].todo = {}
  /\ IF files[loc[p].dig] = {}
     THEN Rmdir(p) /\ Goto(p, "gcPick", loc[p])
     ELSE GCFail(p)

\* GC is over: before the command proper, With releases the global lock.
GCDone(p) ==
  /\ pc[p] \in {"gcVisit", "gcPick"}
  /\ loc[p].seen = {} /\ loc[p].managed = {}
  /\ IF InDelete(p)
     THEN DeleteNext(p)
     ELSE /\ glock' = None
          /\ \E r \in loc[p].args :
               Goto(p, CASE loc[p].op = "pull" -> "lockReg" [] loc[p].op = "clone" -> "checkSrc"
                         [] OTHER -> loc[p].op,
                    IF loc[p].op = "delete" THEN loc[p] ELSE [loc[p] EXCEPT !.ref = r])
          /\ UNCHANGED <<fsVars, registry, rlock, dlock, bounds, history>>

---------------------------------------------------------------------------
(* vetu delete: several names under one global lock, each followed by GC.  *)

\* os.Stat follows the link; a tag's link is removed, a digest's directory is
\* listed by RemoveAll, whoever has a lock on it.
DeleteStat(p) ==
  /\ pc[p] = "delete"
  /\ glock \in {None, p}
  /\ \E r \in loc[p].args :
       LET this == [loc[p] EXCEPT !.args = @ \ {r}, !.ref = r, !.dig = Target(r)]
       IN CASE ~Exists(r) /\ this.args = {} -> Fail(p)
            [] ~Exists(r) /\ this.args # {} ->
                 /\ Goto(p, "delete", this) /\ glock' = p
                 /\ UNCHANGED <<fsVars, registry, rlock, dlock, bounds, history>>
            [] Exists(r) /\ r \in Tag ->
                 /\ Goto(p, "delTag", this) /\ glock' = p
                 /\ UNCHANGED <<fsVars, registry, rlock, dlock, bounds, history>>
            [] OTHER ->
                 /\ Goto(p, "delRm", [this EXCEPT !.todo = files[r]]) /\ glock' = p
                 /\ damaged' = damaged \cup {r}
                 /\ raced' = raced \cup Pulling
                 /\ UNCHANGED <<fsVars, registry, rlock, dlock, bounds, written, populated>>

DeleteTag(p) ==
  /\ pc[p] = "delTag"
  /\ IF tags[loc[p].ref] = None
     THEN DeleteNext(p)
     ELSE /\ tags' = [tags EXCEPT ![loc[p].ref] = None]
          /\ raced' = raced \cup Pulling
          /\ Goto(p, "gcList", loc[p])
          /\ UNCHANGED <<exists, files, registry, lockVars, bounds, written, damaged, populated>>

DeleteRmdir(p) ==
  /\ pc[p] = "delRm"
  /\ loc[p].todo = {}
  /\ IF files[loc[p].dig] = {}
     THEN Rmdir(p) /\ Goto(p, "gcList", loc[p])
     ELSE DeleteNext(p)

---------------------------------------------------------------------------
(* remote.Pull, under the registry lock only.                              *)

\* Fault: ErrAlreadyLocked is ignored.
LockRegistryIgnored(p) ==
  /\ pc[p] = "lockReg"
  /\ rlock' = p
  /\ raced' = raced \ {p}
  /\ Goto(p, "manifest", loc[p])
  /\ UNCHANGED <<fsVars, registry, glock, dlock, bounds, written, damaged, populated>>

\* Trylock, else the polling Lock.
LockRegistry(p) ==
  /\ pc[p] = "lockReg"
  /\ rlock = None
  /\ rlock' = p
  /\ raced' = raced \ {p}
  /\ Goto(p, "manifest", loc[p])
  /\ UNCHANGED <<fsVars, registry, glock, dlock, bounds, written, damaged, populated>>

\* ManifestGet resolves the name, or the registry does not answer.
ManifestGet(p) ==
  /\ pc[p] = "manifest"
  /\ LET d == IF loc[p].ref \in Tag THEN registry[loc[p].ref] ELSE loc[p].ref
     IN \/ d # None /\ Continue(p, "check", [loc[p] EXCEPT !.dig = d])
        \/ Fail(p)

\* Is the digest in the cache already?
CheckDigest(p) ==
  /\ pc[p] = "check"
  /\ Continue(p, IF loc[p].dig \notin exists THEN "download"
                 ELSE IF loc[p].ref \in Tag THEN "checkTag" ELSE "mark",
              loc[p])

\* Fault: an error while a disk is downloaded is lost.
DownloadUnfinished(p) ==
  /\ pc[p] = "download"
  /\ \E got \in {{"config"}, Image} : Continue(p, "rename", [loc[p] EXCEPT !.got = got])

\* oci.PullVMDirectory fills the temporary directory, or fails: the network, or
\* the directory was collected before it was locked (see LocalStorage).
Download(p) ==
  /\ pc[p] = "download"
  /\ \/ Continue(p, "rename", [loc[p] EXCEPT !.got = Image])
     \/ Fail(p)

\* A signal can also make it return nil without the disks (see DiskPull).
DownloadInterrupted(p) ==
  /\ pc[p] = "download"
  /\ crashes < MaxCrashes
  /\ crashes' = crashes + 1
  /\ Goto(p, "rename", [loc[p] EXCEPT !.got = {"config"}])
  /\ damaged' = damaged \cup {loc[p].dig}
  /\ UNCHANGED <<fsVars, registry, lockVars, starts, written, raced, populated>>

\* remote.MoveIn: os.Rename to the digest's path, where EEXIST is ignored.  A
\* pull's own lock comes along with the directory.
MoveIn(p) ==
  /\ pc[p] = "rename"
  /\ IF loc[p].dig \in exists
     THEN UNCHANGED <<exists, files, dlock, damaged>>
     ELSE /\ exists' = exists \cup {loc[p].dig}
          /\ files' = [files EXCEPT ![loc[p].dig] = loc[p].got]
          /\ dlock' = [dlock EXCEPT ![loc[p].dig] = IF loc[p].op = "push" THEN None ELSE p]
          /\ damaged' = IF loc[p].got = Image THEN damaged \ {loc[p].dig} ELSE damaged
  /\ Goto(p, IF loc[p].ref \in Tag THEN "rmTag" ELSE "pulled", loc[p])
  /\ UNCHANGED <<tags, registry, glock, rlock, bounds, written, raced, populated>>

\* Fault: a tag is linked only if it was never linked before.
CheckTagLinked(p) ==
  /\ pc[p] = "checkTag"
  /\ Continue(p, IF tags[loc[p].ref] # None THEN "pulled" ELSE "rmTag", loc[p])

\* The digest was there: link the tag unless it resolves, to whatever it does.
CheckTag(p) ==
  /\ pc[p] = "checkTag"
  /\ Continue(p, IF Exists(loc[p].ref) THEN "pulled" ELSE "rmTag", loc[p])

\* Both MoveIn and Link replace the symbolic link in two steps.
RemoveTag(p) ==
  /\ pc[p] = "rmTag"
  /\ tags' = [tags EXCEPT ![loc[p].ref] = None]
  /\ raced' = raced \cup (Pulling \ {p})
  /\ Goto(p, "mkTag", loc[p])
  /\ UNCHANGED <<exists, files, registry, lockVars, bounds, written, damaged, populated>>

MakeTag(p) ==
  /\ pc[p] = "mkTag"
  /\ IF tags[loc[p].ref] # None
     THEN Fail(p)
     ELSE /\ tags' = [tags EXCEPT ![loc[p].ref] = loc[p].dig]
          /\ written' = written \cup {loc[p].ref}
          /\ IF loc[p].op = "push"
             THEN Exit(p)
             ELSE Goto(p, "pulled", loc[p]) /\ UNCHANGED lockVars
          /\ UNCHANGED <<exists, files, registry, bounds, damaged, raced, populated>>

\* Open and SetExplicitlyPulled, for a digest that was in the cache already.
MarkExplicit(p) ==
  /\ pc[p] = "mark"
  /\ IF Exists(loc[p].ref)
     THEN /\ files' = [files EXCEPT ![loc[p].ref] = @ \cup {Mark}]
          /\ written' = written \cup {loc[p].ref}
          /\ Goto(p, "pulled", loc[p])
          /\ UNCHANGED <<exists, tags, registry, lockVars, bounds, damaged, raced, populated>>
     ELSE Fail(p)

\* Pull returns nil and unlocks; clone goes on with the image.
Pulled(p) ==
  /\ pc[p] = "pulled"
  /\ IF loc[p].op = "clone"
     THEN Goto(p, "openSrc", [loc[p] EXCEPT !.got = {}]) /\ Release(p) /\ UNCHANGED glock
     ELSE Exit(p)
  /\ UNCHANGED <<fsVars, registry, bounds, history>>

---------------------------------------------------------------------------
(* vetu clone of a remote name, up to the copy in tmp/.                    *)

CheckSource(p) ==
  /\ pc[p] = "checkSrc"
  /\ Continue(p, IF Exists(loc[p].ref) THEN "openSrc" ELSE "lockReg", loc[p])

\* Open and Trylock(shared) under the global lock: refused while a pull still
\* has its own lock on the directory.
OpenSource(p) ==
  /\ pc[p] = "openSrc"
  /\ glock = None
  /\ IF Exists(loc[p].ref) /\ dlock[Target(loc[p].ref)] \in {None, p}
     THEN Continue(p, "readSrc", [loc[p] EXCEPT !.dig = Target(loc[p].ref)])
     ELSE Fail(p)

\* temporary.CreateFrom: os.ReadDir and then one os.Open per entry, by path.
ReadSource(p) ==
  /\ pc[p] = "readSrc"
  /\ IF loc[p].dig \in exists
     THEN Continue(p, "copySrc", [loc[p] EXCEPT !.todo = files[loc[p].dig]])
     ELSE Fail(p)

CopyFile(p) ==
  /\ pc[p] = "copySrc"
  /\ \E f \in loc[p].todo :
       IF f \in files[loc[p].dig]
       THEN Continue(p, "copySrc", [loc[p] EXCEPT !.todo = @ \ {f}, !.got = @ \cup {f}])
       ELSE Fail(p)

\* The copied config.json gets a new MAC address; the rest is local.MoveIn.
CloneDone(p) == pc[p] = "copySrc" /\ loc[p].todo = {} /\ Fail(p)

---------------------------------------------------------------------------
(* vetu push: the registry's tag moves, and --populate-cache moves the VM   *)
(* into the cache by remote.MoveIn, under no lock of the cache.             *)

PushImage(p) ==
  /\ pc[p] = "push"
  /\ \/ \E d \in Digest, populate \in BOOLEAN :
          /\ registry' = [registry EXCEPT ![loc[p].ref] = d]
          /\ IF populate
             THEN /\ Goto(p, "rename", [loc[p] EXCEPT !.dig = d, !.got = Image])
                  /\ populated' = populated \cup {d}
                  /\ UNCHANGED lockVars
             ELSE Exit(p) /\ UNCHANGED populated
          /\ UNCHANGED <<fsVars, bounds, written, damaged, raced>>
     \/ Fail(p)

---------------------------------------------------------------------------
\* SIGKILL, or an interrupt while waiting for a lock or for the registry.
Crash(p) ==
  /\ pc[p] # "idle"
  /\ crashes < MaxCrashes
  /\ crashes' = crashes + 1
  /\ Exit(p)
  /\ UNCHANGED <<fsVars, registry, starts, history>>

GC(p) == \/ GCList(p) \/ GCVisit(p) \/ GCStat(p) \/ GCUnlink(p) \/ GCPick(p) \/ GCRmdir(p)
         \/ GCDone(p)
Delete(p) == DeleteStat(p) \/ DeleteTag(p) \/ DeleteRmdir(p)
Pull(p) == \/ LockRegistry(p) \/ ManifestGet(p) \/ CheckDigest(p) \/ Download(p)
           \/ DownloadInterrupted(p) \/ CheckTag(p) \/ MarkExplicit(p) \/ Pulled(p)
Publish(p) == MoveIn(p) \/ RemoveTag(p) \/ MakeTag(p)
Clone(p) == \/ CheckSource(p) \/ OpenSource(p) \/ ReadSource(p) \/ CopyFile(p) \/ CloneDone(p)

\* What a started command does next.
Step(p) == \/ GC(p) \/ Unlink(p) \/ Delete(p) \/ Pull(p) \/ Publish(p) \/ Clone(p)
           \/ PushImage(p)

\* No command runs; the bound on starts may not let another one begin.
Quiet == (\A p \in Proc : pc[p] = "idle") /\ UNCHANGED vars

Next == (\E p \in Proc : Start(p) \/ Step(p) \/ Crash(p)) \/ Quiet

Spec == Init /\ [][Next]_vars

\* The operating system schedules every process, the registry answers or the
\* request fails, and a polling Lock meets the lock free.
FairSpec == Spec /\ \A p \in Proc : WF_vars(Step(p))

---------------------------------------------------------------------------
(* Properties.                                                             *)

\* Every variable keeps its type.
TypeOK ==
  /\ exists \in SUBSET Digest
  /\ files \in [Digest -> SUBSET File]
  /\ tags \in [Tag -> Digest \cup {None}]
  /\ registry \in [Tag -> Digest \cup {None}]
  /\ glock \in Proc \cup {None}
  /\ rlock \in Proc \cup {None}
  /\ dlock \in [Digest -> Proc \cup {None}]
  /\ pc \in [Proc -> Label]
  /\ loc \in [Proc -> Local]
  /\ starts \in 0 .. MaxStarts
  /\ crashes \in 0 .. MaxCrashes
  /\ written \subseteq Tag \cup Digest
  /\ damaged \subseteq Digest
  /\ raced \subseteq Proc
  /\ populated \subseteq Digest

\* "We can now atomically move the temporary directory containing it to its
\* final destination" (pull.go): a digest's directory is whole from its first
\* moment, through failed downloads, crashes and concurrent pulls and pushes,
\* until a collection or a delete begins to remove it.  Not covered: a download
\* that a signal cut short without an error (see DiskPull).
CacheWhole == \A d \in exists : Image \subseteq files[d] \/ d \in damaged

\* remote.GC removes no directory that a link refers to or that is marked as
\* explicitly pulled, save for links and marks a concurrent pull or push made
\* after the collection had listed the cache.
GCSparesReferenced ==
  \A p \in Proc : pc[p] = "gcRm" =>
    /\ \A t \in Tag : tags[t] = loc[p].dig => t \in written
    /\ Mark \in files[loc[p].dig] => loc[p].dig \in written

\* What a pull found out under the registry lock still holds when it acts on it:
\* the digest it downloaded is not in the cache yet, and nobody made the link it
\* is about to make, unless a push that takes no lock did.
PullsDoNotCollide ==
  \A p \in Proc : loc[p].op # "push" =>
    /\ pc[p] = "rename" => loc[p].dig \notin exists \/ loc[p].dig \in populated
    /\ pc[p] = "mkTag" => tags[loc[p].ref] = None \/ tags[loc[p].ref] \in populated

\* remote.Pull returns nil with the name usable: it resolves to an image in the
\* cache, and a tag whose image was downloaded now to that image, unless a
\* collection, a delete or a push interfered during the pull.
PullDelivers ==
  \A p \in Proc : pc[p] = "pulled" /\ p \notin raced =>
    /\ Exists(loc[p].ref)
    /\ loc[p].got # {} => Target(loc[p].ref) = loc[p].dig

\* Every command ends: the walk of a collection passes over links that pulls
\* keep replacing, and no two commands wait for each other's lock.
CommandsEnd == \A p \in Proc : pc[p] # "idle" ~> pc[p] = "idle"

---------------------------------------------------------------------------
(* What comments in the code promise without the exceptions above.         *)

\* pull.go: "If the digest was used when pulling this VM image, mark it as
\* explicitly pulled to prevent the automatic garbage collection".
PulledByDigestIsMarked ==
  \A p \in Proc : pc[p] = "pulled" /\ loc[p].ref \in Digest /\ p \notin raced =>
    Mark \in files[loc[p].ref]

===========================================================================
