---------------------------- MODULE AppleStream ----------------------------
(* The decompression of a disk layer of a Tart image: sparseio.Copy reads    *)
(* from applestream.Reader, which reads the layer block by block, and writes *)
(* to a part of the disk file that is a hole.  The stream comes from Apple's *)
(* Compression framework, and may end or be damaged anywhere.                *)
EXTENDS Integers, SequencesExt

CONSTANTS
  Byte,       \* contents; 0 is the zero that sparseio leaves out
  Chunks,     \* the contents a single block may have
  MaxBlocks,  \* the longest stream
  Limit,      \* maxAllocatedBytesPerBlockMarker
  Word,       \* sizes are unsigned integers modulo Word (2^32 in the code)
  BlockSize   \* sparseio's blockSize: the size of every Read

\* The size of a chunk fits the field of the header that holds it.
ASSUME ConstantsAssumption ==
  /\ 0 \in Byte /\ Chunks \subseteq Seq(Byte)
  /\ MaxBlocks \in Nat /\ BlockSize \in Nat \ {0}
  /\ Limit \in Nat \ {0} /\ Word \in Nat /\ Limit < Word
  /\ \A c \in Chunks : Len(c) < Word

VARIABLES
  plain,         \* the chunks that the compressor was given
  stream,        \* what is left of the layer: a sequence of fields
  damaged,       \* the layer is not what the compressor wrote
  lz4Dict,       \* Reader.lz4Dict
  uncompressed,  \* Reader.uncompressed
  readerEOF,     \* Reader.underlyingReaderEOF
  file, offset,  \* the part of the disk file that is the layer's; sparseio's offset
  result         \* what sparseio.Copy returns

vars == <<plain, stream, damaged, lz4Dict, uncompressed, readerEOF, file, offset, result>>

---------------------------------------------------------------------------
(* The layer.  A compressed payload is a sequence of literals and of         *)
(* references that repeat what is some bytes before, in the block itself or  *)
(* in the dictionary.                                                        *)

Lit(b) == [lit |-> TRUE, byte |-> b]
Ref(d) == [lit |-> FALSE, distance |-> d]

\* The bytes that LZ4 stores for a payload: references that repeat the one before
\* them belong to the same match, so a long run of one byte takes next to none.
CompressedSize(p) == Cardinality({i \in DOMAIN p : i = 1 \/ p[i].lit \/ p[i] # p[i - 1]})

\* The block of a chunk: marker, header and payload, as the compressor may
\* write it after a chunk `before`.
Encodings(before, chunk) ==
  LET history == before \o chunk
      At(i) == Len(before) + i
      Back(i) == {d \in 1 .. At(i) - 1 : history[At(i) - d] = chunk[i]}
      Nearest(i) == CHOOSE d \in Back(i) : \A e \in Back(i) : d <= e
      literals == [i \in DOMAIN chunk |-> Lit(chunk[i])]
      references == [i \in DOMAIN chunk |->
                       IF Back(i) = {} THEN Lit(chunk[i]) ELSE Ref(Nearest(i))]
  IN {<<"bv4-", [size |-> Len(chunk)], chunk>>} \union
     {<<"bv41", [size |-> Len(chunk), compressed |-> CompressedSize(p)], p>> :
        p \in {literals, references}}

\* All streams for the chunks; the last field is the marker of the end.
Streams(chunks) ==
  LET upTo[n \in 0 .. Len(chunks)] ==
        IF n = 0 THEN {<<>>}
        ELSE {s \o e : s \in upTo[n - 1],
                       e \in Encodings(IF n = 1 THEN <<>> ELSE chunks[n - 1], chunks[n])}
  IN {s \o <<"bv4$">> : s \in upTo[Len(chunks)]}

\* The stream that ends within the payload at i.
CutWithin(s, i) ==
  LET Stored(p) == IF s[i - 2] = "bv4-" THEN Len(p) ELSE CompressedSize(p)
      shorter == {n \in 0 .. Len(s[i]) : Stored(SubSeq(s[i], 1, n)) < Stored(s[i])}
  IN {Append(SubSeq(s, 1, i - 1), SubSeq(s[i], 1, n)) : n \in shorter}

\* The stream with another size in the header at i.
Resized(s, i) ==
  {[s EXCEPT ![i].size = (z + Word) % Word] :
     z \in {s[i].size - 1, s[i].size + 1, -s[i].compressed}} \union
  {[s EXCEPT ![i].compressed = (Word - s[i].size) % Word]}

\* What may become of a stream: it ends early or within a payload, a marker is
\* unknown, or one size of a compressed block is another one, up to one that
\* makes the sum of the two wrap around.  One such damage stands for any number
\* of them: the reader never looks behind the first.  Other bytes in a payload
\* and blocks that are lost or repeated are not among the damages: the format has
\* no checksum, and such a layer may be a good one of other contents.
Damages(s) ==
  LET markers == {i \in DOMAIN s : i % 3 = 1}
      headers == {i \in DOMAIN s : i % 3 = 2}
      payloads == {i \in DOMAIN s : i % 3 = 0}
  IN {SubSeq(s, 1, n) : n \in 0 .. Len(s) - 1} \union
     (UNION {CutWithin(s, i) : i \in payloads}) \union
     {[s EXCEPT ![i] = "????"] : i \in markers} \union
     UNION {Resized(s, i) : i \in {h \in headers : s[h - 1] = "bv41"}}

Init ==
  /\ plain \in UNION {[1 .. n -> Chunks] : n \in 0 .. MaxBlocks}
  /\ \E s \in Streams(plain) :
       \/ stream = s /\ damaged = FALSE
       \/ stream \in Damages(s) \ {s} /\ damaged = TRUE
  /\ lz4Dict = <<>> /\ uncompressed = <<>> /\ readerEOF = FALSE
  /\ file = [i \in 1 .. Len(FlattenSeq(plain)) |-> 0]
  /\ offset = 0
  /\ result = "none"

---------------------------------------------------------------------------
(* Reader.processNextBlock                                                 *)

\* lz4.UncompressBlockWithDict: <<>> in place of <<data>> for an error.
Uncompress(payload, size, dict) ==
  LET step(acc, token) ==
        IF acc = <<>> THEN <<>>
        ELSE LET history == dict \o acc[1]
             IN IF token.lit THEN <<Append(acc[1], token.byte)>>
                ELSE IF token.distance > Len(history) THEN <<>>
                ELSE <<Append(acc[1], history[Len(history) + 1 - token.distance])>>
      data == FoldLeft(step, <<<<>>>>, payload)
  IN IF data # <<>> /\ Len(data[1]) > size THEN <<>> ELSE data

\* Fault: without the DoS checks.
GoodBlockUnlimited ==
  /\ Len(stream) >= 3
  /\ LET header == stream[2]
         payload == stream[3]
     IN \/ /\ stream[1] = "bv41"
           /\ CompressedSize(payload) = header.compressed
           /\ LET data == Uncompress(payload, header.size, lz4Dict)
              IN data # <<>> /\ Len(data[1]) = header.size
        \/ /\ stream[1] = "bv4-"
           /\ Len(payload) = header.size

\* The block that starts the stream passes every check of processNextBlock: the
\* sum of the sizes wraps around before it is compared with the limit.
GoodBlock ==
  /\ Len(stream) >= 3
  /\ LET header == stream[2]
         payload == stream[3]
     IN \/ /\ stream[1] = "bv41"
           /\ (header.size + header.compressed) % Word <= Limit
           /\ CompressedSize(payload) = header.compressed
           /\ LET data == Uncompress(payload, header.size, lz4Dict)
              IN data # <<>> /\ Len(data[1]) = header.size
        \/ /\ stream[1] = "bv4-"
           /\ header.size <= Limit
           /\ Len(payload) = header.size

\* Its contents.
BlockData ==
  IF stream[1] = "bv4-" THEN stream[3] ELSE Uncompress(stream[3], stream[2].size, lz4Dict)[1]

AtEOFMarker == stream # <<>> /\ stream[1] = "bv4$"

---------------------------------------------------------------------------
(* sparseio.Copy, one Read of the Reader after the other                   *)

\* uncompressed.Read(p), with `buffer` in it, and what Copy makes of it: bytes
\* are written at the offset, unless all of them are zeros, and an empty buffer
\* is io.EOF, which ends the copy.
Deliver(buffer) ==
  LET n == IF Len(buffer) < BlockSize THEN Len(buffer) ELSE BlockSize
      zeros == \A i \in 1 .. n : buffer[i] = 0
  IN /\ uncompressed' = SubSeq(buffer, n + 1, Len(buffer))
     /\ offset' = offset + n
     /\ file' = IF zeros THEN file
                ELSE [i \in DOMAIN file |->
                        IF i \in offset + 1 .. offset + n THEN buffer[i - offset] ELSE file[i]]
     /\ result' = IF n = 0 THEN "nil" ELSE "none"

\* Read with enough in the buffer, or at the end of the stream.
ReadBuffered ==
  /\ result = "none"
  /\ Len(uncompressed) >= BlockSize \/ readerEOF
  /\ Deliver(uncompressed)
  /\ UNCHANGED <<plain, stream, damaged, lz4Dict, readerEOF>>

\* Fault: a block is taken although there is enough in the buffer.
ReadBlockAlways ==
  /\ result = "none"
  /\ ~readerEOF
  /\ GoodBlock
  /\ stream' = SubSeq(stream, 4, Len(stream))
  /\ lz4Dict' = BlockData
  /\ Deliver(uncompressed \o BlockData)
  /\ UNCHANGED <<plain, damaged, readerEOF>>

\* Fault: only a compressed block becomes the dictionary.
ReadBlockKeepsDict ==
  /\ result = "none"
  /\ Len(uncompressed) < BlockSize /\ ~readerEOF
  /\ GoodBlock
  /\ stream' = SubSeq(stream, 4, Len(stream))
  /\ lz4Dict' = IF stream[1] = "bv4-" THEN lz4Dict ELSE BlockData
  /\ Deliver(uncompressed \o BlockData)
  /\ UNCHANGED <<plain, damaged, readerEOF>>

\* Read that takes one more block, however little that adds.
ReadBlock ==
  /\ result = "none"
  /\ Len(uncompressed) < BlockSize /\ ~readerEOF
  /\ GoodBlock
  /\ stream' = SubSeq(stream, 4, Len(stream))
  /\ lz4Dict' = BlockData
  /\ Deliver(uncompressed \o BlockData)
  /\ UNCHANGED <<plain, damaged, readerEOF>>

\* Read that meets the marker of the end, and never looks behind it.
ReadEOF ==
  /\ result = "none"
  /\ Len(uncompressed) < BlockSize /\ ~readerEOF
  /\ AtEOFMarker
  /\ stream' = Tail(stream)
  /\ readerEOF' = TRUE
  /\ Deliver(uncompressed)
  /\ UNCHANGED <<plain, damaged, lz4Dict>>

\* Read that fails with ErrFailed; what is in the buffer stays there.
ReadFail ==
  /\ result = "none"
  /\ Len(uncompressed) < BlockSize /\ ~readerEOF
  /\ ~GoodBlock /\ ~AtEOFMarker
  /\ result' = "error"
  /\ UNCHANGED <<plain, stream, damaged, lz4Dict, uncompressed, readerEOF, file, offset>>

Returned == result # "none" /\ UNCHANGED vars

Next == ReadBuffered \/ ReadBlock \/ ReadEOF \/ ReadFail \/ Returned

Spec == Init /\ [][Next]_vars

---------------------------------------------------------------------------
\* The one early end: a block without contents, met while the buffer is empty,
\* makes Read return io.EOF, and the rest of the stream is never looked at.
CutShort == result = "nil" /\ ~readerEOF /\ (\E i \in DOMAIN plain : plain[i] = <<>>)

\* A block so long that the sum of its sizes may wrap around: what LZ4 stores of
\* it is no longer than its contents.
MayWrap(chunk) == 2 * Len(chunk) >= Word

\* A layer with one of the damages is never accepted: one that ends without its
\* marker is an error and not the end of the contents, and another size that
\* wraps the sum does not pass for long.  A layer as the compressor wrote it is
\* refused only for a block whose sizes really exceed the limit, and accepted
\* only if no block does, but for the blocks that MayWrap (see PerBlockLimit).
VerdictIsRight ==
  /\ result = "nil" => ~damaged \/ CutShort
  /\ result = "error" /\ ~damaged =>
       stream[2].size + (IF stream[1] = "bv41" THEN stream[2].compressed ELSE 0) > Limit
  /\ result = "nil" /\ ~CutShort =>
       \A i \in DOMAIN plain : Len(plain[i]) <= Limit \/ MayWrap(plain[i])

\* "This prevents high memory consumption": between two reads less than one
\* block of the largest size is held, however the blocks and the reads align,
\* unless the layer has a block that MayWrap.
BufferIsBounded == Len(uncompressed) < Limit \/ \E i \in DOMAIN plain : MayWrap(plain[i])

\* What the "DoS check" is to ensure: no block beyond "the per-block limit" is
\* taken in, so that less than one block of that size is ever left between two
\* reads.  The sum that it compares is of two uint32: a block that expands to
\* almost Word bytes passes it.
PerBlockLimit == Len(uncompressed) < Limit

\* Through all blocks and holes, the file receives the chunks in order, and the
\* copy succeeds only with all of them (but for CutShort).
Decompression == INSTANCE Transfer WITH
  source <- FlattenSeq(plain),
  out <- SubSeq(file, 1, offset),
  result <- IF CutShort THEN "error" ELSE result
Delivers == Decompression!Spec
=============================================================================
