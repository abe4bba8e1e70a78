# A TLA+ model of vetu

vetu runs virtual machines with cloud-hypervisor, keeps them under one
directory (`VETU_HOME`, `~/.vetu`) and exchanges them with OCI registries. It
has no daemon: any number of `vetu` processes work on that directory at the same
time, and all they share is the file system, `flock(2)`, `fcntl(2)` locks and
the atomicity of `rename(2)`. That is where it is hard to get right and hard to
test, and what this project is about first; next come the concurrent parts of
pull and push, the shutdown of a running VM, and its network.

Paths below are relative to `src/internal` unless they start with `src/`.

## 1. Inventory

| component | state | operations | what makes it correct | what is hard |
|---|---|---|---|---|
| local storage (`storage/local`) | `vms/<name>` | Open, MoveIn, Delete, List | a name always denotes a complete VM; only delete (or push) removes one | replacing and deleting while others hold locks and paths |
| temporary storage (`storage/temporary`) | `tmp/<uuid>` | Create, CreateTryLocked, CreateFrom, GC | what a live command builds is left alone, what a dead one left is removed | GC runs before *every* command, without the global lock |
| file locks (`filelock`, `globallock`) | flocks of inodes | Trylock, Lock (polling), Unlock, With | mutual exclusion; nobody waits for ever | a lock is on an inode, work is done by path; With keeps the lock on error |
| PID lock (`pidlock`) | fcntl lock on `config.json` | Trylock, Pid | a running VM is seen as running | dropped by any close of the file |
| VM directory (`vmdirectory`) | config, kernel, initramfs, disks, explicit-pull mark | Config, SetConfig, SetExplicitlyPulled, State | - | files are written in place |
| commands (`command/*`) | a process | create, clone, delete, set, run, stop, push, pull, list, ip, fqn, login, logout | each ends, each leaves the storage consistent | error returns and kills between any two steps |
| root command (`command/root.go`, `src/cmd/vetu/main.go`) | signal context | both collections, then the command | - | a signal cancels what is in progress |
| hypervisor (`command/run`, `command/stop`, `externalcommand`) | child process | start, Cancel, WaitDelay; stop's SIGINT, poll and SIGKILL | one hypervisor per disk; a stopped VM is stopped | it outlives a killed vetu; two timers race; a PID grows stale |
| remote cache (`storage/remote`) | `cache/OCIs/<registry>/<namespace>`: a directory per digest, a link per tag | Exists, Link, MoveIn, Delete, RegistryLock, GC, Pull | images are whole; a referenced image stays; a pulled name is usable | GC and delete use one lock, pull another, push none |
| disk puller (`oci/diskpuller`, `sparseio`) | files of the disks, tasks | PullDisks, process, Copy | nil means the disks are complete | concurrent writers, sparse files, cancellation |
| push (`oci/push.go`, `chunker`) | chunk in progress, channel | Write, Close, pushDisk | the layers are the disk | two goroutines, chunk boundaries set by a compressor |
| Tart images (`oci/pull/tart`) | reader: dictionary, buffer, end seen | Read, processNextBlock | decoded data is the stream's; a damaged stream is an error | 32-bit sizes, reads and blocks that do not align |
| networks (`network/*`) | interfaces, addresses, neighbours | New, FindAvailableSubnet, DHCP, Close | subnets do not overlap; `vetu ip` is right | allocation in two steps; an interface outlives its process |
| forwarders (`network/software/gvisor`) | TCP slots, UDP flows, deadlines | forwardTCP, forwardUDP, transferWithTimeout, Run | no slot or flow is lost, none is cut while in use | two goroutines per flow that extend each other's deadline |
| binaries (`binaryfetcher`, `externalbinary`) | `cache/bin`, `tmp/` | GetOrFetch | a cached binary is complete | its temporary file is open to GC |
| names, configuration (`name`, `vmconfig`, `randommac`) | - | parsing | - | - |

How they interact: every command first runs `temporary.GC` and, under the global
lock, `remote.GC`. Commands on a local VM open and lock its directory under the
global lock and, except for delete, use it by path after releasing that lock.
create, clone and pull build in `tmp/` and publish by rename: create and clone
under the global lock into `vms/`, pull under the registry's lock into the
cache. push reads a VM under its shared lock and may rename it into the cache.
run sets its network up under the global lock, so that two VMs are not given one
subnet, and hands the TAP interface to its hypervisor. stop finds run through the
PID lock on `config.json`, signals it and polls that lock. run and the pull of a
Tart image fetch binaries into the `tmp/` that every command's collection cleans.

`PROJECT.json` lists every component with its status, and under `hazards` what
is hard to test in this code, at the line where it bites.

## 2. Modules

| module | models | lines |
|---|---|---|
| `LocalStorage` | `vms/`, `tmp/`, all their locks, and create, clone, delete, set, run, push as processes | storage/local, storage/temporary, filelock, globallock, pidlock, command/* |
| `RemoteCache` | `cache/OCIs` and GC, pull, clone, delete, push as processes | storage/remote, command/* |
| `DiskPull` | `PullDisks` and its tasks | oci/diskpuller, sparseio |
| `DiskPush` | `pushDisk` and the `Chunker` | oci/push.go, chunker |
| `Transfer` | abstract: what a copy of disk contents promises | |
| `DiskTransfer` | all disks of a VM pushed and pulled: `DiskPush`, `DiskPull` and `PushVMDirectory`; refines `Transfer` | oci/push.go, oci/pull/vetu |
| `AppleStream` | the reader of a Tart layer under `sparseio.Copy`; refines `Transfer` | oci/pull/tart/applestream, sparseio |
| `RunStop` | run, its hypervisor, stop and set around the PID lock and two timers | command/run, command/stop, command/set, pidlock, vmdirectory |
| `Subnets` | `FindAvailableSubnet` and a reference definition | network/subnetfinder |
| `Network` | the networks of VMs that start and end side by side | network/software, network/host, network/bridged, tuntap, command/ip |
| `Forwarder` | TCP slots and UDP flows of a software network | network/software/gvisor |
| `BinaryFetcher` | `GetOrFetch` by several commands next to `temporary.GC` | binaryfetcher, externalbinary, externalcommand, oci/pull/tart |
| `LocalStorageProofs`, `RemoteCacheProofs`, `RunStopProofs`, `BinaryFetcherProofs`, `NetworkProofs`, `DiskPullProofs`, `DiskTransferProofs`, `AppleStreamProofs` | theorems about the modules they are named after (`NetworkProofs` about `Subnets` and `Forwarder` too), see section 4 | |
| `MC...` | the instances of each for TLC | |

### LocalStorage

`vms` and `tmp` map names to directory inodes, and `content` gives each inode
its files, `config` (config.json) and `disk` (kernel, initramfs and disks
together), with a stamp of the command that wrote each. Inodes are what
flocks are on (`excl`, `shrd`, `pid`); names are what the code works with. One
action is one system call or a group nobody can observe halfway. So a collection
of `tmp/` is `GCOpen` (filelock.New), `GCTrylock`, `GCResolve` (RemoveAll opens
the path, which may denote another inode now, and lists it), `Unlink` for each
listed file and `GCRmdir`. Every path is resolved again at each call, as the code
does, and `os.RemoveAll` keeps working on the directory it opened.

A process runs one command: `Start`, the collection, then `OpenNamed` and
`LockNamed` (the callback of `globallock.With`), and the command's own steps:
`DeleteResolve`/`DeleteRmdir`; `SetRead`, `SetDisk`, `SetConfig`; `RunConfig`,
`RunPid`, `RunNet`, `RunStart`, `RunExit`; `PushExit`, `PushPopulate`; for create
and clone `MakeTmp`, `InitConfig`, `OpenTmp`, `LockTmp`, then `CopyIn` or
`ReadSource` and `CopyFile`, `WriteConfig`, and `MoveIn...`. An error return is
`Fail`, which undoes nothing; `Exit` drops the process's locks as the kernel
does. `Crash` kills a process anywhere. A killed `vetu run` leaves its hypervisor
as an `orphan` with the flock it inherited (filelock.New opens without
O_CLOEXEC) but without the PID lock.

Four history variables serve the properties only: `displaced` (directories a
MoveIn took out of `vms/`), `doomed` (a delete has begun), `suspect` (filled
without the locks, or from a damaged source) and `lone`. No guard depends on them.

A definition whose comment begins with "Fault:" is not part of the model: it is a
plausible bug in the action after it, with which the property named in
`PROJECT.json` under `mutants` must fail.

### RemoteCache

One namespace of one registry: `exists` and `files` for the digests'
directories, `tags` for the links, `registry` for what the registry answers. The
three locks are `glock`, `rlock` and `dlock` (the flock a pull has on the
directory it built, which the rename carries into the cache). `remote.GC` is
`GCList` (the walk reads the directory once), `GCVisit` (Readlink), `GCStat`
(Lstat), `GCUnlink`, `GCPick`, `Unlink`, `GCRmdir`, `GCDone`, and runs a second
time inside a delete. `remote.Pull` is `LockRegistry` ... `Pulled`, with
`MoveIn`, `RemoveTag` and `MakeTag` shared with push. What happens to a pull's
directory in `tmp/` before it is locked is LocalStorage's subject, and here only
makes `Download` fail. Histories: `written`, `damaged`, `raced`, `populated`.

### DiskPull, DiskPush

`DiskPull` starts from any manifest of a given set. A layer's data is a sequence
of blocks; block 0 is all zeros. `Create` truncates the files, `Spawn`/`Go`/`Wait`
are the errgroup loop, `BlobGet`/`CopyBlock`/`TaskDone`/`TaskFail` a task,
`Interrupt` a signal. `Whole` is the reference: a disk is its layers in order.
A layer has a `size`, its annotation, from which the offsets are computed; the
manifests of `disk_pull` annotate each layer with the size of its data, and
`DiskTransfer` takes whatever a push has annotated.

In `DiskPush` a `Write` adds a block to the chunk, and the compressor may or may
not produce output for it, which makes every placement of chunk boundaries
possible; `Emit` and `Close` hand the chunk over the unbuffered channel, `Upload`
and `Finish` are the caller.

### Transfer, DiskTransfer, AppleStream

`Transfer` has no code behind it. It is what every copy of disk contents in vetu
should look like from outside: what has been delivered is a beginning of the
source, `nil` is reported only with all of it, and nothing happens afterwards.

`DiskTransfer` extends `DiskPush` and instantiates `DiskPull`: `PushVMDirectory`
pushes one disk after the other (`PushDisk`, `AppendLayers`, `NextDisk`), puts the
manifest (`PutManifest`), and a pull runs on just that manifest (`PullDisks`).
`ArrivesWhole` maps it to `Transfer`: the source is all blocks of all disks,
`out` is what the files hold once the pull returned nil, so that success implies
block-for-block equality. An interrupted pull that returns nil is mapped to an
error; `NilMeansPulled` is the run about that.

In `AppleStream` the layer is a sequence of fields (marker, header, payload); a
payload is literals and references into the block or the dictionary, which makes
the dictionary matter. `Init` takes every encoding of every small list of chunks,
whole or with one damage: cut at any field or within a payload, an unknown marker,
another size, a size that makes the 32-bit sum wrap (`Word` for 2^32). One damage
stands for several, since the reader stops at the first. Other bytes in a payload and
lost or repeated blocks are not damages here: the format has no checksum, and such a
layer may be a good one of other contents. What a compressed payload takes in the
layer is `CompressedSize`: a run of one byte is a single match, so that a short
payload may expand to a long chunk, up to one that wraps the sum by itself. A step is
one `Read` of `sparseio.Copy`: from the buffer (`ReadBuffered`), with one more
block (`ReadBlock`), at the end (`ReadEOF`), or failing (`ReadFail`). `Delivers`
maps it to `Transfer` with the part of the file below the offset as `out`.

### RunStop

One VM, whose directory stays where it is (LocalStorage has the rest). A run goes
through `RunOpen` (flock under the global lock), `RunConfig`, `RunPid` (the fcntl
lock), `RunNet`, `RunNetDone`, `RunStart`, then waits for its hypervisor. A
cancelled context makes it send SIGTERM (`Cancel`) and, after `WaitDelay`, kill
(`KillHv`). stop is `StopAsk`, `StopSignal`, `StopPoll` and `StopKill`; it keeps
the PID it read first in `target`, and PIDs of ended runs are used again
(`OldPids`). set is a writer of config.json in two steps, `SetTruncate` and
`SetWrite`. Anything may be interrupted or killed; a killed run leaves a
hypervisor that was up with the flock and without the PID lock.

Time is `Tick`, which counts both timers down and happens only when nothing is
`Due`: an expired timer is served, a cancelled context noticed and the PID lock
polled before another stretch of seconds passes. Ticks stand for parts of the 30
seconds; `WaitDelay` and the timeouts differ by whole ticks.

### Subnets, Network

`Subnets` has the trie as a set of prefix blocks over a small address space and
the operations of package `ipaddr` as what the code uses them for.
`SubtractInterface` is one turn of the loop, `FindAvailableSubnet` the search, and
`FirstFree` the reference: the lowest block of the wanted size all of whose
addresses are private and free. How `ipaddr` reads an interface address with host
bits is a variable, `reading`, of either meaning; the network that the interface is
really in is `NetworkOf`.

`Network` goes through `New` step by step (`NewTAP`, `Find`, `Neigh`, `Addr`,
`Services`, or `NewBridged`) under the global lock, while `ForeignAdd` lets other
programs take addresses. An interface goes when the last of vetu and its
hypervisor has closed it. `Lease` is what DHCP answers, `ArpTableLookup` what
`vetu ip` finds by the VM's MAC address, which is taken to be unique. `Interfaces`
and `RoutesOf` are the kernel's side: the interfaces of vetu and those of other
programs that were there when a VM's subnet was searched for (`known`), and the one
with the most specific network around an address.

### Forwarder

A TCP request has a slot from `Syn` until `Complete`. A UDP flow has a connection
to the guest and one to the remote side, and a transfer that reads from each:
`Arm`, `Read`, `Write` (which extends the other's deadline), `TimeOut` and
`ReadFail` (which close its own source). Ticks are as in `RunStop`.

### BinaryFetcher

Commands that run (needing cloud-hypervisor), pull a Tart image (needing the
firmware) or do neither, each after a collection of `tmp/`. `GetOrFetch` is
`Stat`, `CreateTemp`, `Fetch...`, `Chmod`, `Close`, `Rename`, each of which may
fail; names and inodes are apart, so that a collection may remove the name of a file that is being
written, and the rename of another process replaces what a third is copying from.

## 3. Runs

Passing runs:

| run | instance | shows |
|---|---|---|
| `local_all` | 2 processes, 2 names, all commands, 1 crash, fair (297,579 states) | `TypeOK`, `LockedIsNamed`, `DeleteRemovesLocked`, `HypervisorExclusive`, `CloneIntact`, `GCSparesLocked`, `PublishedComplete`, `LoneGCCollectsAll`, `NamesVanishOnPurpose`, `CommandsEnd` |
| `remote_all` | 2 processes, 1 tag, 2 digests, all commands, 1 crash or interrupt, fair (787,000) | `TypeOK`, `CacheWhole`, `GCSparesReferenced`, `PullsDoNotCollide`, `PullDelivers`, `CommandsEnd` |
| `disk_pull` | 3 layers over 2 disks, 4 kinds of data, 2 slots (419,424) | `TypeOK`, `PulledIsWhole`, `WritesAreDisjoint` |
| `disk_transfer` | 2 disks of up to 3 blocks, chunk size 1, 2 slots, fair (79,000) | `PushedIsWhole`, `TransferEnds`, `ArrivesWhole` (refinement) |
| `apple_stream` | up to 3 blocks, all encodings and damages, limit 4, sizes modulo 16 (236,000) | `VerdictIsRight`, `BufferIsBounded`, `Delivers` (refinement) |
| `run_stop` | 2 runs, 1 stop, 1 set, 2 PIDs, 1 kill, fair (360,000) | `StateIsTrue`, `StopSparesOthers`, `StoppedIsGone`, `LongStopOrphansNone`, `ReadsWholeConfig`, `CancelledEnds` |
| `network` | 2 VMs, 16 addresses in 2 private blocks, 4 foreign addresses, 1 kill (126,000) | `FinderIsRight`, `SubnetsDisjoint`, `IpReachesVM` |
| `forwarder` | 2 requests for 1 slot, 2 flows of 1 port, 2 packets each way, fair (144,000) | `ClosedWhenIdle`, `FlowsEnd`, `Answered` |
| `binary_fetch` | 3 processes, 3 commands, 1 crash (168,000) | `CachedIsWhole`, `FetchedIsUsable`, `LeavesNothing` |

What each property says is in the comment above it.

Bounds. Two commands at a time meet in every order; a third process is there
where a bystander matters, as in `binary_fetch`, a collection next to two
commands that fetch the same binary.
`MaxStarts` equals the number of processes, so each behaviour is one generation
of overlapping commands on any initial storage; what an earlier generation leaves
behind is in the initial states (VMs, cached images, links, marks) or comes from
`Crash`. The commands of `remote_all` name one of the two digests and reach the other
through the tag; its invariants also hold with commands that name both (734,000
states up to symmetry), and with two tags and two digests
(12 million, too slow to keep), `LockedIsNamed`,
`DeleteRemovesLocked` and `IInv` with three processes that replace, run, set,
push, clone and delete one VM (2.75 million), and `GCSparesLocked` and
`PublishedComplete` with three that create, clone and push (2.9 million). There
are as many inodes and UUIDs as the commands can have in use at once, so
`FreshDirs` never runs dry. In `disk_transfer` the disks are empty, all zeros, or
begin or end with zeros, and the compressor makes chunks of one or more blocks; in
`apple_stream` a block may be shorter and longer than a read, at the limit, above it,
and so long that its sizes wrap around. `run_stop` has the
timeouts zero, `WaitDelay` and one longer, and the second run may have a PID of
its own or that of the first. In `network` the sizes are the powers of two up to
the whole space, and the foreign networks lie inside a private block, around one
and over all of one, with and without host bits. Symmetry is used for processes, in
safety runs only.

Fairness: weak fairness of each process's (or goroutine's) next step, that is,
the operating system schedules it, the registry answers or fails, a guest ends at
some point. For the polling `Lock` this also says that a process that waits finds
the lock free: every holder releases it by itself, and starvation by an endless
stream of other commands is outside a bounded number of starts. Where there is
time, weak fairness of `Tick`: time passes. `RunStop` assumes nothing of a guest or
a hypervisor, which may ignore SIGTERM for ever; `Forwarder` assumes that a
dial returns and that a guest repeats a SYN that got no answer.

Violations: a comment or a message of the code says more than the code does.

| run | property | the text | what happens |
|---|---|---|---|
| `remote_explicit` | `PulledByDigestIsMarked` | pull.go:99 | a digest that had to be downloaded is not marked and soon collected |
| `disk_pull_interrupt` | `NilMeansPulled` | pull.go:82 | an interrupted pull returns nil and is published without its disks |
| `apple_stream_limit` | `PerBlockLimit` | applestream.go:83 to 86 | the sizes of a block that expands to almost 2^32 bytes wrap around when added, and the block passes the "DoS check" |

Where the code gives less than a reader might expect, the passing properties name
the exception, so that they still say what holds in every other case:

* a collection may remove a directory of `tmp/` between its creation and its lock
  (temporary.go:102), or a binary that is being fetched, which has no lock;
* a create or clone onto the name of a VM exchanges it under a run or a set that
  has it locked (local.go:36): `displaced`;
* a delete that is killed leaves part of a VM under its name: `doomed`, `damaged`;
* `push --populate-cache` moves the VM into the cache (push.go:98): `populated`;
* a pull may link an image after the collection has counted its references
  (remote.go:295): `raced`;
* when a read of a disk fails, pushDisk waits for ever (push.go:227);
* stop's SIGKILL reaches vetu run only and leaves the hypervisor running, if it
  comes before run's own WaitDelay is over: a timeout of 30 seconds or less, or
  Ctrl-C of the stop (`LongStopOrphansNone`);
* a PID that the kernel has used again gets stop's signal (`StopSparesOthers`);
* a UDP flow whose dial fails keeps its endpoint (`FlowsEnd`);
* a block without contents in a Tart layer may end the copy early (`CutShort`);
* a block of a Tart layer that is long enough to wrap the sum of its sizes may pass
  the limit (`MayWrap`);
* the finder may overlook the network around an interface's address (`Overlooked`):
  net.InterfaceAddrs returns the address with its mask, such as 10.0.0.5/24, and by
  the rules of `ipaddr`, a library outside this repository, that is an address and
  only 10.0.0.0/24 the network, so that a VM may get another part of it. A comment
  says "If the interface uses a network that is covered by our trie, subtract that
  network" (subnetfinder.go:44) and src/README.md:58 "excluding parts of that address
  space already used on the host machine". Without `Overlooked`, TLC refutes
  `SubnetsDisjoint` with the address 1 in a network of 8, of which a VM is given 4 to
  7. What is always spared is the address, and a network no larger than a subnet;
* other programs may add an address inside a VM's subnet later on: the properties of
  `Network` are about those that were there at the search (`known`);
* a download whose copy to a file, close or rename fails leaves the file
  (`abandoned`).

## 4. Proofs

Eight modules hold proofs that TLAPS checks, for every value of the constants
that meets the named assumptions: any number of processes, names, layers, flows,
crashes and starts. They state 34 of the 40 properties that passing runs check:
every invariant, every action property and both refinements, all but the six
liveness properties. Each inductive invariant was first checked by TLC as an
invariant of the instance of the run.

| module | theorems | inductive invariant (states of the TLC check) |
|---|---|---|
| `LocalStorageProofs` | `TypeOK`, `LockedIsNamed`, `DeleteRemovesLocked`, `HypervisorExclusive`, `NamesVanishOnPurpose`; `GCSparesLocked`, `PublishedComplete`, `CloneIntact`, `LoneGCCollectsAll` | `IInv`, then `SInv` (297,579; with three processes 5.3 million) |
| `RemoteCacheProofs` | `TypeOK`, `CacheWhole`, `GCSparesReferenced`, `PullsDoNotCollide`, `PullDelivers` | `IInv` (734,022, commands that name both digests) |
| `RunStopProofs` | `StateIsTrue`, `StopSparesOthers`, `StoppedIsGone`, `LongStopOrphansNone`, `ReadsWholeConfig` | `IInv` (360,108; with two stops 15 million) |
| `BinaryFetcherProofs` | `CachedIsWhole`, `FetchedIsUsable`, `LeavesNothing` | `IInv` (168,005) |
| `NetworkProofs` | `FinderIsRight`, `SubnetsDisjoint`, `IpReachesVM` | `IInv` (125,632) |
| `NetworkProofs`, about `Forwarder` | `SlotsAreHeld`, `ClosedWhenIdle` | `ForwarderInv` (144,438) |
| `DiskPullProofs` | `TypeOK`, `PulledIsWhole`, `WritesAreDisjoint` | `IInv` (419,424) |
| `DiskTransferProofs` | `PushedIsWhole`, `ArrivesWhole` (the refinement of `Transfer`) | `TInv` (78,657) |
| `AppleStreamProofs` | `VerdictIsRight`, `BufferIsBounded`, `FileIsWhole`, `Delivers` (the refinement of `Transfer`) | `IInv` (10,845, with up to 2 blocks) |

All follow one layout: a lemma per action (or per group of actions that touch the
same variables) that the invariant is kept, frame lemmas for the processes
that do not move, the invariance theorem, and then the properties from it, the
action properties from the invariant and one step.

**LocalStorage.** `IInv == TypeOK /\ Flocks /\ \A p \in Proc : Control(p)`. None of
the properties is inductive by itself. That delete removes what it has locked
needs that its name has denoted the locked inode since `OpenNamed`; this needs
that every other step that changes `vms` waits for the global lock, which delete
has (`Control`), or is a push that takes the name away and so puts the inode in
`displaced`; and that a name locked by a run, set or clone is not deleted needs
the exclusion of flocks (`Flocks`). What a collection may touch needs much more,
`SInv`, because it works by path on an inode that may not be the one it locked:
no inode has two names and no UUID two builders (`Unique`, `Owned`), a builder's
directory has no name but its own in `tmp/` (`Private`), a lock in `tmp/` is a
collector's or the builder's (`Guarded`), and what a collector empties is what it
locked, what MoveIn replaced or what its builder has lost (`Aims`, `Collects`,
`Lost`). On that rest what builders and clones have written so far (`Filled`,
`Copied`) and that no collection reaches a published VM (`Reaches`).

**RemoteCache.** `CacheWhole` needs where each lock is held (`Locks`), that a
directory that is being removed is known as damaged (`Removing`) and what a pull
has downloaded (`Downloaded`, `Publishes`). `GCSparesReferenced` is about a count
made in several steps: `Counted` says that a collection has counted, or has yet
to visit, every link older than its listing.

**RunStop.** `RunInv` and `AskInv` tie a stop to the run it asked about through
the PID lock; `LongStopOrphansNone` needs an inequality between two timers
(`TimeInv`): the deadline of stop starts no later than the run's `WaitDelay`, and
by no more than the run needs to notice the signal.

**BinaryFetcher.** The name that a rename publishes may have been
collected and used again; `Control` says what a process has made sure of on its
way, of the inode and not of the name.

**Subnets, Network.** `FinderIsRight` is proved for every address space, set of
private blocks and set of interfaces: `Carves(used, trie)` says that the trie
holds just the free private addresses, in blocks none of which could be longer;
a turn of the loop keeps it, whichever address it takes, so that the fold over
the interfaces ends with it, and then the lowest long enough block starts with the
reference's answer. `Stage` says what an interface has been given at each label,
and `SubnetsDisjoint` follows from the global lock held between the search and
`AddrAdd`, and for other programs' interfaces from what `Parsed` keeps of each: its
address always, and its network unless it is `Overlooked`. `IpReachesVM` adds that an
overlooked network is larger than a subnet, so that the VM's interface still has the
most specific route.

**Forwarder.** `Waits` relates the deadline of each read to the time the flow has
been idle: it is never nearer than `Timeout` after the last packet, but for the
moment between a read of the other transfer and its extension of the deadline.
The proofs are a part of `NetworkProofs`, which extends both modules; this is why the
specification of `Forwarder` has names of its own (`ForwardInit`, `ForwardNext`,
`ForwardSpec`).

**DiskPull.** `Written` says of each file that it has its full length and, of each
layer, as many blocks as its task has dealt with, at the layer's offset. That two
layers do not overlap is a lemma about `Offsets`; that the file is then `Whole`,
a fold over the layers, one about `Joined`.

**DiskTransfer.** `Accounted` is the heart of a push: what is uploaded, received
and in the Chunker, one after the other, is what has been copied of the disk.
`Stages` has the order of goroutine and caller and that only an empty disk has an
empty chunk. `Carried` says that the manifest has each pushed disk whole and
nothing of the others: appending the layers of a disk changes the fold of that
disk alone (`WholeAppend`), which is where distinct names matter. The pull's
part is not proved again: `PullProofs == INSTANCE DiskPullProofs WITH ...` gives
its lemmas for the manifest that was pushed. The refinement then maps each step:
`Wait` with nil and no signal to `Deliver` of everything, `PushFail`, a failed
`PutManifest` and `Wait` otherwise to `Fail`, every other step to a stutter.

**AppleStream.** The layer is consumed as it is read, so the invariant speaks of the
layer `d` as it was: `Layer(d, g)` says that its first `g` blocks are those of the
first `g` chunks and that then either the end follows (a whole layer) or something
that is neither a block nor the end (`Broken`: cut off, an unknown marker, a
payload of another length than its header says, or a size that the payload does
not decode to). That every damage in `Damages` leads there is `DamageBreaks`, with a
lemma per kind of damage. `Reader` says that `k` of the `g` blocks have been read,
that they have passed the limit (`Passed`: none exceeds it but those that `MayWrap`)
and that the dictionary is the last chunk; `Output` that the file up to
`offset` and the buffer, one after the other, are the first `k` chunks, of which
the buffer has less than `Bound` bytes (`Limit`, if no chunk may wrap). What the next block is then follows:
`NextIsBlock` (its chunk comes out of it, if the sizes keep to the limit) or
`NextIsBroken` (an error). Both rest on `UncompressIs`: whatever mix of literals
and references the compressor chose, the fold over the payload gives back the
chunk, given the chunk before it as dictionary. The refinement maps every
successful `Read` to `Deliver`, a failing one to `Fail`, and so does the read that
an empty block ends (`CutShort`). `FileIsWhole` adds that the holes which
`sparseio.Copy` leaves out are zeros of the contents.

**Induction over data.** The library's induction theorems have a predicate as a
parameter, with which the installed provers can do nothing. `Least`, `Induction`
and `Largest` say the same of *sets* of numbers, and follow from `WFMin` and
`NatLessThanWellFounded`. A fold of the community modules is a function that
`CHOOSE` picks; that one exists is shown by such an induction over the size of
its domain (`JoinExists`, and the like for `Available`, `FlattenSeq`, `Streams` and
`Uncompress`), after which its equation may be used.

**Assumptions.** They are the `ASSUME`s of the models, which TLC evaluates in every
run, and say what the code or its environment guarantees: names, inodes, UUIDs and
processes are not `None`; a command names the VMs or images its arguments allow;
VMs of the initial state have distinct inodes; `Pick` (the allocator) returns an
element of the set it is given; there are PIDs enough for each run to have its own; there are as many
temporary names as commands may start; prefix lengths are powers of two (each size
divides the longer ones, and its double is a size) and no two private blocks make up
another, which holds of the private networks in subnetfinder.go; a wanted subnet
has room for the host and the guest (`Want >= 4`, /29 in the code); the disks of
a VM have distinct names, and there is at least one; a layer is annotated with
the size of its data, which `PushedIsWhole` establishes for what vetu pushes; and
the limit of a block's sizes is positive and below `Word`, and a chunk's size fits its
field of the header (is below `Word`). Nothing is assumed of the sum of the two sizes,
of a block or of a damaged header: where a long block makes it wrap around
`PerBlockLimit` fails, `VerdictIsRight` and `BufferIsBounded` say what is left, and
that a header which merely claims such sizes does not pass is part of
`VerdictIsRight`.

**What the proofs changed in the models.** `RemoteCache`: two cases of
`CheckDigest` overlapped. `RunStop`: `RunBegin` chose a PID from a set that could
be empty. `BinaryFetcher`: the name `CreateTemp` makes was a fixed choice and is any
fresh name now. `Subnets`: the assumptions above were not stated (if private
blocks could make up another one, the finder would miss subnets that lie across
them); the address space itself is now a size. `DiskPull`: the
annotation was assumed of the instance only. `DiskTransfer`: nothing said that a
VM has a disk. `AppleStream`: a limit of zero was not excluded, and blocks whose own
sizes wrap around, which are the run `apple_stream_limit` now, did not occur.

**Model-checked only.** `CommandsEnd` (local and remote), `CancelledEnds`,
`FlowsEnd`, `Answered` and `TransferEnds` are liveness: they need fairness and
ENABLED, which are out of the prover's reach. Everything else that a run checks is
proved as well.

## 5. Not modelled

fqn, login and logout talk to the registry, the credential store and the terminal,
and change nothing that other commands see. Of list and ip only what they show is
modelled (`State`, `ArpTableLookup`). The syntax of names, the JSON of the
configurations (Tart's too) and the arguments of the hypervisor are data that no
property here tells apart. The packet stack is gVisor's, the copying of an
established TCP connection tcpproxy's; the raw socket's options, the conntrack
entries that `host.Close` deletes, progress bars and Sentry are left out. Write
failures such as a full disk appear as failing steps; only config.json (in
`RunStop`) and downloads are written in parts. Rename across file systems (EXDEV)
is not considered: `tmp/`, `vms/` and `cache/` are below one directory. Only
Linux's RENAME_EXCHANGE is modelled.

## 6. Plan

* `Forwarder`, `RunStop`: the invariants behind the liveness properties (what
  each waiting process waits for) can be stated and proved, though the liveness
  itself cannot.
* `AppleStream`: compressed payloads longer than their chunk.
* `Network`: the conntrack entries that `host.Close` deletes.
