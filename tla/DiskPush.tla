------------------------------ MODULE DiskPush ------------------------------
(* oci.pushDisk and the Chunker: a goroutine copies a disk into the Chunker, *)
(* which compresses it and hands a chunk over an unbuffered channel whenever *)
(* its output has reached the target size; the caller uploads each chunk as  *)
(* a layer and, when the channel is closed, asks the goroutine's error       *)
(* channel how it went.                                                      *)
EXTENDS Naturals, SequencesExt

CONSTANTS
  Block,      \* contents of what one Write() gets
  ChunkSize,  \* NewChunker's chunkSize, in units of compressed output
  Disks       \* the disks that may be pushed: sequences of blocks

ASSUME ConstantsAssumption ==
  /\ ChunkSize \in Nat \ {0}
  /\ Disks \subseteq Seq(Block)

VARIABLES
  disk,     \* the disk being pushed
  copied,   \* blocks of it that io.Copy has passed to Write()
  producer, \* the goroutine: where it is in io.Copy, Write() or Close()
  data,     \* the uncompressed contents of the current chunk
  size,     \* uncompressedSize
  buffered, \* buf.Len(): how much compressed output there is
  emitted,
  closed,   \* close(chunker.chunks)
  errCh,    \* what the goroutine has sent to errCh
  consumer, \* the loop over chunker.Chunks()
  chunk,    \* the chunk received last
  layers    \* the layers uploaded so far

chunkerVars == <<data, size, buffered, emitted, closed>>
vars == <<disk, copied, producer, chunkerVars, errCh, consumer, chunk, layers>>

Chunk == [data : Seq(Block), size : Nat]
NoChunk == [data |-> <<>>, size |-> 0]

\* pushDisk is called for the disk d.
Begin(d) ==
  /\ disk = d
  /\ copied = 0
  /\ producer = "copy"
  /\ data = <<>> /\ size = 0 /\ buffered = 0 /\ emitted = FALSE /\ closed = FALSE
  /\ errCh = "empty"
  /\ consumer = "receive"
  /\ chunk = NoChunk
  /\ layers = <<>>

Init == \E d \in Disks : Begin(d)

---------------------------------------------------------------------------
(* The goroutine: io.Copy(chunker, diskFile), then chunker.Close().        *)

\* The block that io.Copy has read last joins the chunk <<d, s, n>>.  The
\* compressor turns it into output now or keeps it for later.
Take(d, s, n) ==
  /\ copied' = copied + 1
  /\ data' = Append(d, disk[copied + 1])
  /\ size' = s + 1
  /\ \E output \in {0, 1} : buffered' = n + output

\* Write() below the target size.
Write ==
  /\ producer = "copy"
  /\ copied < Len(disk)
  /\ buffered < ChunkSize
  /\ Take(data, size, buffered)
  /\ UNCHANGED <<disk, producer, emitted, closed, errCh, consumer, chunk, layers>>

\* Fault: the size of the chunk before is kept.
EmitKeepsSize ==
  /\ producer = "copy" /\ consumer = "receive"
  /\ copied < Len(disk)
  /\ buffered >= ChunkSize
  /\ chunk' = [data |-> data, size |-> size]
  /\ consumer' = "upload"
  /\ emitted' = TRUE
  /\ Take(<<>>, size, 0)
  /\ UNCHANGED <<disk, producer, closed, errCh, layers>>

\* Write() at the target size blocks until the chunk is received, resets the
\* per-chunk state and only then takes the block.
Emit ==
  /\ producer = "copy" /\ consumer = "receive"
  /\ copied < Len(disk)
  /\ buffered >= ChunkSize
  /\ chunk' = [data |-> data, size |-> size]
  /\ consumer' = "upload"
  /\ emitted' = TRUE
  /\ Take(<<>>, 0, 0)
  /\ UNCHANGED <<disk, producer, closed, errCh, layers>>

\* diskFile.Read fails: the goroutine ends and leaves the channel open.
ReadFail ==
  /\ producer = "copy"
  /\ producer' = "failed"
  /\ errCh' = "error"
  /\ UNCHANGED <<disk, copied, chunkerVars, consumer, chunk, layers>>

\* Fault: the channel is left open after the last chunk.
CloseLeavesOpen ==
  /\ producer = "copy" /\ consumer = "receive"
  /\ copied = Len(disk)
  /\ data # <<>> \/ ~emitted
  /\ chunk' = [data |-> data, size |-> size]
  /\ consumer' = "upload"
  /\ data' = <<>> /\ size' = 0 /\ buffered' = 0
  /\ producer' = "done"
  /\ errCh' = "nil"
  /\ UNCHANGED <<disk, copied, emitted, closed, layers>>

\* Close() flushes the compressor, so that buf is empty only if there is no data:
\* "Only emit a last chunk if we have some data available or there were no
\* chunks emitted before".  It blocks until that chunk is received.  (Data is
\* never missing after an Emit, which always takes a block.)
Close ==
  /\ producer = "copy" /\ consumer = "receive"
  /\ copied = Len(disk)
  /\ data # <<>> \/ ~emitted
  /\ chunk' = [data |-> data, size |-> size]
  /\ consumer' = "upload"
  /\ closed' = TRUE /\ data' = <<>> /\ size' = 0 /\ buffered' = 0
  /\ producer' = "done"
  /\ errCh' = "nil"
  /\ UNCHANGED <<disk, copied, emitted, layers>>

---------------------------------------------------------------------------
(* The caller: for compressedChunk := range chunker.Chunks().              *)

\* pushBytes uploads the chunk with its size as an annotation, or fails, and
\* then pushDisk returns at once; the goroutine is left behind.
Upload ==
  /\ consumer = "upload"
  /\ \/ layers' = Append(layers, chunk) /\ consumer' = "receive"
     \/ consumer' = "error" /\ UNCHANGED layers
  /\ UNCHANGED <<disk, copied, producer, chunkerVars, errCh, chunk>>

\* The range ends with the channel; then the goroutine's error is waited for.
Finish ==
  /\ consumer = "receive" /\ closed
  /\ errCh # "empty"
  /\ consumer' = IF errCh = "error" THEN "error" ELSE "done"
  /\ UNCHANGED <<disk, copied, producer, chunkerVars, errCh, chunk, layers>>

\* pushDisk has returned, or waits for a goroutine that is gone.
Stopped == (consumer \in {"done", "error"} \/ producer = "failed") /\ UNCHANGED vars

Next == Write \/ Emit \/ ReadFail \/ Close \/ Upload \/ Finish \/ Stopped

Spec == Init /\ [][Next]_vars

---------------------------------------------------------------------------
\* pushDisk succeeds only with the whole disk in the manifest: the layers in
\* order are the disk, wherever compression made the chunks end, and each is
\* annotated with its own size, from which a pull computes the offsets.  Even an
\* empty disk has a layer, and no other layer is empty.
PushedIsWhole ==
  consumer = "done" =>
    /\ FoldLeft(LAMBDA done, l : done \o l.data, <<>>, layers) = disk
    /\ \A i \in DOMAIN layers : layers[i].size = Len(layers[i].data)
    /\ layers # <<>>
    /\ \A i \in DOMAIN layers : layers[i].data = <<>> => disk = <<>>
=============================================================================
