------------------------------ MODULE DiskPull ------------------------------
(* diskpuller.PullDisks: the disk layers of a manifest are fetched by a      *)
(* group of concurrent tasks, each of which decompresses one layer into the  *)
(* file of its disk, at the offset where the previous layer of that disk     *)
(* ends, and leaves out blocks of zeros (sparseio.Copy).  The first error    *)
(* cancels the group; so does SIGINT or SIGTERM, through the context that    *)
(* main.go makes.                                                            *)
EXTENDS Naturals, FiniteSets, SequencesExt

CONSTANTS
  Disk,         \* names of disks
  Block,        \* contents of a block; 0 is the block of zeros
  Concurrency,  \* --concurrency
  Manifests     \* the sequences of disk layers a manifest may have

\* A layer: the disk it belongs to (AnnotationName), its data when decompressed,
\* and the size that its annotation gives.
Layer == [disk : Disk, data : Seq(Block), size : Nat]

\* PullDisks trusts the annotation, which is right in what PushVMDirectory puts
\* (DiskPush.PushedIsWhole).
ASSUME ConstantsAssumption ==
  /\ 0 \in Block
  /\ Concurrency \in Nat \ {0}
  /\ Manifests \subseteq Seq(Layer)
  /\ \A m \in Manifests : \A i \in DOMAIN m : m[i].size = Len(m[i].data)

VARIABLES
  layers,       \* the manifest's disk layers
  file,         \* Disk -> the blocks of its file
  pc,           \* PullDisks itself
  next,         \* the next layer to make a task for
  task,         \* layer -> the state of its task
  pos,          \* layer -> blocks of it that its task has dealt with
  cancelled,    \* diskTasksCtx.Err() # nil
  failed,       \* some task returned an error
  interrupted,  \* a signal came in
  result        \* what PullDisks returns

vars == <<layers, file, pc, next, task, pos, cancelled, failed, interrupted, result>>

Task == 1 .. Len(layers)
Running == {i \in Task : task[i] \in {"get", "copy"}}

---------------------------------------------------------------------------
\* diskNameToOffset after the first n layers.
Offsets ==
  LET offset[n \in 0 .. Len(layers)] ==
        IF n = 0 THEN [d \in Disk |-> 0]
        ELSE [offset[n - 1] EXCEPT ![layers[n].disk] = @ + layers[n].size]
  IN offset

\* Fault: every layer of a disk starts at its beginning.
OffsetZero(i) == 0

\* Where the i-th layer goes in the file of its disk.
Offset(i) == Offsets[i - 1][layers[i].disk]

\* PullDisks is called for the layers m.
Begin(m) ==
  /\ layers = m
  /\ file = [d \in Disk |-> <<>>]
  /\ pc = "create"
  /\ next = 1
  /\ task = [i \in DOMAIN m |-> "new"]
  /\ pos = [i \in DOMAIN m |-> 0]
  /\ cancelled = FALSE /\ failed = FALSE /\ interrupted = FALSE
  /\ result = "none"

Init == \E m \in Manifests : Begin(m)

\* Fault: the files are created and not extended.
CreateEmpty ==
  /\ pc = "create"
  /\ pc' = "spawn"
  /\ UNCHANGED <<layers, file, next, task, pos, cancelled, failed, interrupted, result>>

\* "Pre-create and truncate disk files": each gets its full length, as a hole.
Create ==
  /\ pc = "create"
  /\ file' = [d \in Disk |-> [k \in 1 .. Offsets[Len(layers)][d] |-> 0]]
  /\ pc' = "spawn"
  /\ UNCHANGED <<layers, next, task, pos, cancelled, failed, interrupted, result>>

\* Fault: the loop goes one task too far.
SpawnPastEnd ==
  /\ pc = "spawn"
  /\ pc' = IF cancelled \/ next > Len(layers) + 1 THEN "wait" ELSE "go"
  /\ UNCHANGED <<layers, file, next, task, pos, cancelled, failed, interrupted, result>>

\* The loop over the tasks, which a cancelled context ends.
Spawn ==
  /\ pc = "spawn"
  /\ pc' = IF cancelled \/ next > Len(layers) THEN "wait" ELSE "go"
  /\ UNCHANGED <<layers, file, next, task, pos, cancelled, failed, interrupted, result>>

\* errgroup's Go waits for one of the Concurrency slots.
Go ==
  /\ pc = "go"
  /\ Cardinality(Running) < Concurrency
  /\ task' = [task EXCEPT ![next] = "get"]
  /\ next' = next + 1
  /\ pc' = "spawn"
  /\ UNCHANGED <<layers, file, pos, cancelled, failed, interrupted, result>>

\* errgroup's Wait returns the error of a task, if there is one.
Wait ==
  /\ pc = "wait"
  /\ Running = {}
  /\ result' = IF failed THEN "error" ELSE "nil"
  /\ pc' = "returned"
  /\ UNCHANGED <<layers, file, next, task, pos, cancelled, failed, interrupted>>

---------------------------------------------------------------------------
(* diskTask.process                                                        *)

\* BlobGet, which a cancelled context makes fail.
BlobGet(i) ==
  /\ task[i] = "get"
  /\ ~cancelled
  /\ task' = [task EXCEPT ![i] = "copy"]
  /\ UNCHANGED <<layers, file, pc, next, pos, cancelled, failed, interrupted, result>>

\* File f with block b written at k; a write past the end extends it.
WriteAt(f, k, b) ==
  [j \in 1 .. (IF k > Len(f) THEN k ELSE Len(f)) |->
     IF j = k THEN b ELSE IF j \in DOMAIN f THEN f[j] ELSE 0]

\* sparseio.Copy: "Only write non-zero chunks".
CopyBlock(i) ==
  /\ task[i] = "copy"
  /\ pos[i] < Len(layers[i].data)
  /\ pos' = [pos EXCEPT ![i] = @ + 1]
  /\ LET b == layers[i].data[pos[i] + 1]
     IN file' = IF b = 0 THEN file
                ELSE [file EXCEPT ![layers[i].disk] = WriteAt(@, Offset(i) + pos[i] + 1, b)]
  /\ UNCHANGED <<layers, pc, next, task, cancelled, failed, interrupted, result>>

\* io.EOF: the task returns nil and gives its slot back.
TaskDone(i) ==
  /\ task[i] = "copy"
  /\ pos[i] = Len(layers[i].data)
  /\ task' = [task EXCEPT ![i] = "done"]
  /\ UNCHANGED <<layers, file, pc, next, pos, cancelled, failed, interrupted, result>>

\* Opening the file, the request, a read or a write fails, the latter two also
\* because the context is cancelled; the first error cancels the others.
TaskFail(i) ==
  /\ task[i] \in {"get", "copy"}
  /\ task' = [task EXCEPT ![i] = "failed"]
  /\ failed' = TRUE /\ cancelled' = TRUE
  /\ UNCHANGED <<layers, file, pc, next, pos, interrupted, result>>

\* SIGINT or SIGTERM cancels the context of the command.
Interrupt ==
  /\ pc # "returned" /\ ~interrupted
  /\ interrupted' = TRUE /\ cancelled' = TRUE
  /\ UNCHANGED <<layers, file, pc, next, task, pos, failed, result>>

Progress(i) == BlobGet(i) \/ CopyBlock(i) \/ TaskDone(i) \/ TaskFail(i)
Returned == pc = "returned" /\ UNCHANGED vars

Next == Create \/ Spawn \/ Go \/ Wait \/ (\E i \in Task : Progress(i)) \/ Interrupt \/ Returned

Spec == Init /\ [][Next]_vars

---------------------------------------------------------------------------
\* Every variable keeps its type.
TypeOK ==
  /\ layers \in Seq(Layer)
  /\ DOMAIN file = Disk /\ \A d \in Disk : file[d] \in Seq(Block)
  /\ pc \in {"create", "spawn", "go", "wait", "returned"}
  /\ next \in 1 .. Len(layers) + 1
  /\ task \in [Task -> {"new", "get", "copy", "done", "failed"}]
  /\ pos \in [Task -> Nat]
  /\ cancelled \in BOOLEAN /\ failed \in BOOLEAN /\ interrupted \in BOOLEAN
  /\ result \in {"none", "nil", "error"}

\* The reference: a disk is its layers, one after the other.
Whole(d) ==
  FoldLeft(LAMBDA done, l : IF l.disk = d THEN done \o l.data ELSE done, <<>>, layers)

\* PullDisks returns nil only if every disk is what its layers say, to the last
\* block and no longer, however its tasks interleave, and although blocks of
\* zeros are never written; not covered: a pull that a signal interrupts.
PulledIsWhole ==
  result = "nil" /\ ~interrupted => \A d \in Disk : file[d] = Whole(d)

\* Once written, a block is never written again with something else: the ranges
\* of the concurrent tasks do not overlap.
WritesAreDisjoint ==
  [][\A d \in Disk : \A k \in DOMAIN file[d] : file[d][k] # 0 => file'[d][k] = file[d][k]]_vars

\* pull.go: "We've successfully pulled the VM image, we can now atomically move
\* the temporary directory": PullDisks returned nil, so the disks are there.
NilMeansPulled == result = "nil" => \A d \in Disk : file[d] = Whole(d)

=============================================================================
