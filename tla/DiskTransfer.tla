---------------------------- MODULE DiskTransfer ----------------------------
(* The disks of a VM on their way to another host: PushVMDirectory pushes    *)
(* them one after the other (DiskPush) and puts the manifest, and a pull of  *)
(* that manifest (DiskPull) makes the files of the new VM.                   *)
EXTENDS DiskPush, Functions

CONSTANTS
  Names,       \* vmConfig.Disks: the sequence of the disks' names
  Concurrency  \* --concurrency of the pull

\* vetu create copies all disks into one directory by their base names, and does
\* not ask for a disk: a VM with two of one name, or with none, is incomplete
\* before it is ever pushed, and left out.
ASSUME NamesAssumption ==
  /\ Names \in Seq(Range(Names)) /\ IsInjective(Names) /\ Names # <<>>
  /\ 0 \in Block /\ Concurrency \in Nat \ {0}

VARIABLES
  vm,        \* the contents of the disks, in the order of Names
  at,        \* the disk that is being pushed
  manifest,  \* ociManifest.Layers: the disk layers
  phase,     \* "push", then "put" (ManifestPut), then "pull" or "error"
  fetched,   \* the disk layers that the pull finds in the manifest
  file, pc, next, task, pos, cancelled, failed, interrupted, pulled

Name == Range(Names)
pullVars == <<fetched, file, pc, next, task, pos, cancelled, failed, interrupted, pulled>>
transferVars == <<vars, vm, at, manifest, phase, pullVars>>

Pull == INSTANCE DiskPull WITH
  Disk <- Name, Manifests <- {}, layers <- fetched, result <- pulled

TransferInit ==
  /\ vm \in [DOMAIN Names -> Disks]
  /\ at = 1
  /\ manifest = <<>>
  /\ phase = "push"
  /\ Begin(vm[1])
  /\ Pull!Begin(<<>>)

\* A step of pushDisk for the current disk.
PushDisk ==
  /\ phase = "push"
  /\ Write \/ Emit \/ ReadFail \/ Close \/ Upload \/ Finish
  /\ UNCHANGED <<vm, at, manifest, phase, pullVars>>

\* Fault: the layers of a disk replace those of the disks before.
AppendLayersReplaces ==
  [i \in DOMAIN layers |->
     [disk |-> Names[at], data |-> layers[i].data, size |-> layers[i].size]]

\* The manifest with the layers of the disk that has been pushed, annotated with
\* its name.
AppendLayers ==
  manifest \o [i \in DOMAIN layers |->
                 [disk |-> Names[at], data |-> layers[i].data, size |-> layers[i].size]]

\* pushDisk returns layers, and the loop goes on to the next disk.
NextDisk ==
  /\ phase = "push" /\ consumer = "done"
  /\ manifest' = AppendLayers
  /\ IF at < Len(Names)
     THEN /\ at' = at + 1
          /\ disk' = vm[at + 1] /\ copied' = 0 /\ producer' = "copy"
          /\ data' = <<>> /\ size' = 0 /\ buffered' = 0 /\ emitted' = FALSE /\ closed' = FALSE
          /\ errCh' = "empty" /\ consumer' = "receive" /\ chunk' = NoChunk /\ layers' = <<>>
          /\ UNCHANGED phase
     ELSE phase' = "put" /\ UNCHANGED <<at, vars>>
  /\ UNCHANGED <<vm, pullVars>>

\* pushDisk returns an error, and so does PushVMDirectory.
PushFail ==
  /\ phase = "push" /\ consumer = "error"
  /\ phase' = "error"
  /\ UNCHANGED <<vars, vm, at, manifest, pullVars>>

\* ManifestPut fails, or somebody pulls the image later.
PutManifest ==
  /\ phase = "put"
  /\ \/ phase' = "error" /\ UNCHANGED pullVars
     \/ /\ phase' = "pull"
        /\ fetched' = manifest
        /\ task' = [i \in DOMAIN manifest |-> "new"]
        /\ pos' = [i \in DOMAIN manifest |-> 0]
        /\ UNCHANGED <<file, pc, next, cancelled, failed, interrupted, pulled>>
  /\ UNCHANGED <<vars, vm, at, manifest>>

\* A step of PullDisks.
PullDisks ==
  /\ phase = "pull"
  /\ Pull!Next
  /\ UNCHANGED <<vars, vm, at, manifest, phase>>

\* The push has failed, or hangs because a read has failed.
Over == (phase = "error" \/ producer = "failed") /\ UNCHANGED transferVars

TransferNext == PushDisk \/ NextDisk \/ PushFail \/ PutManifest \/ PullDisks \/ Over

\* All goroutines are scheduled, the loop of PushVMDirectory goes on, and a request
\* is answered or times out.
TransferSpec ==
  /\ TransferInit /\ [][TransferNext]_transferVars
  /\ WF_transferVars(PushDisk /\ (Write \/ Emit \/ Close))
  /\ WF_transferVars(PushDisk /\ (Upload \/ Finish))
  /\ WF_transferVars(NextDisk \/ PushFail \/ PutManifest)
  /\ WF_transferVars(PullDisks /\ (Pull!Create \/ Pull!Spawn \/ Pull!Go \/ Pull!Wait))
  /\ WF_transferVars(PullDisks /\ \E i \in Pull!Task : Pull!Progress(i))

---------------------------------------------------------------------------
\* The transfer returns, whichever uploads and downloads fail and whenever a signal
\* comes, unless a read of a disk fails: then the channel of chunks is never closed,
\* and the error that waits in errCh is never asked for.
TransferEnds == <>(phase = "error" \/ producer = "failed" \/ pc = "returned")

\* All blocks of the disks f, one disk after the other, each with its name.
Blocks(f) == FlattenSeq([d \in DOMAIN Names |-> [k \in DOMAIN f[d] |-> <<Names[d], f[d][k]>>]])

\* A VM that is pushed and pulled arrives with the disks it had, block for block:
\* the chunks, their annotated sizes, the order of the layers, the offsets, the
\* tasks and the holes together lose and mix up nothing.  (A pull that a signal
\* interrupts may return nil all the same: see NilMeansPulled.)
Whole == INSTANCE Transfer WITH
  source <- Blocks(vm),
  out <- IF pulled = "nil" /\ ~interrupted THEN Blocks([d \in DOMAIN Names |-> file[Names[d]]]) ELSE <<>>,
  result <- IF phase = "error" \/ (pulled = "nil" /\ interrupted) THEN "error" ELSE pulled
ArrivesWhole == Whole!Spec
=============================================================================
