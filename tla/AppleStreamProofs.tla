------------------------- MODULE AppleStreamProofs -------------------------
(* That the decompression of a Tart layer writes the contents that were      *)
(* compressed, never reports success for a damaged layer and, while no block *)
(* has sizes whose sum may wrap around, holds less than one largest block:   *)
(* for any contents, block sizes, limits and reads.                          *)
EXTENDS AppleStream, FiniteSetTheorems, SequenceTheorems, WellFoundedInduction, TLAPS

---------------------------------------------------------------------------
(* Induction over the natural numbers as facts about sets of numbers.  The  *)
(* theorems of the library are about predicates, NEW P(_), with which the   *)
(* provers at hand cannot do anything; a set {n \in Nat : P(n)} they can be *)
(* given.  What follows rests on WFMin and NatLessThanWellFounded.          *)

\* A set of natural numbers has a least one.
LEMMA Least ==
  ASSUME NEW S, S \subseteq Nat, S # {}
  PROVE  \E m \in S : \A n \in S : m <= n
<1>. DEFINE R == OpToRel(<, Nat)
<1>1. \A x, y \in Nat : x < y => <<x, y>> \in R
  BY DEF OpToRel
<1>2. IsWellFoundedOn(R, Nat)
  BY NatLessThanWellFounded
<1>. HIDE DEF R
<1>3. PICK m \in S : \A n \in S : <<n, m>> \notin R
  BY <1>2, WFMin
<1>4. ASSUME NEW n \in S PROVE m <= n
  <2>1. n \in Nat /\ m \in Nat /\ ~(n < m)
    BY <1>1, <1>3
  <2>. QED
    BY <2>1
<1>. QED
  BY <1>3, <1>4

\* What holds 0 and, with each number, the next one holds them all.
LEMMA Induction ==
  ASSUME NEW S, 0 \in S, \A n \in Nat : n \in S => n + 1 \in S
  PROVE  Nat \subseteq S
<1>. SUFFICES ASSUME Nat \ S # {} PROVE FALSE
  OBVIOUS
<1>1. PICK m \in Nat \ S : \A n \in Nat \ S : m <= n
  BY Least
<1>2. m # 0 /\ m - 1 \in Nat /\ m = (m - 1) + 1 /\ ~(m <= m - 1)
  BY <1>1
<1>. QED
  BY <1>1, <1>2

\* A set of natural numbers with a bound has a largest one.
LEMMA Largest ==
  ASSUME NEW S, S \subseteq Nat, S # {}, NEW bound \in Nat, \A n \in S : n <= bound
  PROVE  \E m \in S : \A n \in S : n <= m
<1>. DEFINE Above == {k \in Nat : \A n \in S : n <= k}
<1>1. Above \subseteq Nat /\ Above # {}
  OBVIOUS
<1>2. PICK m \in Above : \A k \in Above : m <= k
  BY <1>1, Least
<1>3. m \in Nat /\ \A n \in S : n \in Nat /\ n <= m
  BY <1>2
<1>4. CASE m = 0
  <2>1. PICK n \in S : TRUE
    OBVIOUS
  <2>2. n = m
    BY <1>3, <1>4, <2>1
  <2>. QED
    BY <1>3, <2>1, <2>2
<1>5. CASE m # 0
  <2>1. m - 1 \in Nat /\ m - 1 \notin Above
    BY <1>2, <1>3, <1>5
  <2>2. PICK n \in S : ~(n <= m - 1)
    BY <2>1
  <2>3. n = m
    BY <1>3, <2>1, <2>2
  <2>. QED
    BY <1>3, <2>3
<1>. QED
  BY <1>4, <1>5

---------------------------------------------------------------------------
(* The inductive invariant.                                                *)

Whole == FlattenSeq(plain)

\* The chunk whose contents are the dictionary of the n-th block.
Before(n) == IF n = 1 THEN <<>> ELSE plain[n - 1]

Token == [lit : {TRUE}, byte : Byte] \union [lit : {FALSE}, distance : Nat]

\* Payloads from which a chunk comes back, with the chunk before it as dictionary.
Payload(before, chunk) ==
  {p \in Seq(Token) :
     /\ Len(p) = Len(chunk)
     /\ \A i \in 1 .. Len(chunk) :
          \/ p[i] = Lit(chunk[i])
          \/ \E d \in 1 .. Len(before) + i - 1 :
               p[i] = Ref(d) /\ (before \o chunk)[Len(before) + i - d] = chunk[i]}

\* The marker, header and payload that the n-th chunk became.
IsBlock(n, m, h, p) ==
  \/ m = "bv4-" /\ h = [size |-> Len(plain[n])] /\ p = plain[n]
  \/ /\ m = "bv41" /\ h = [size |-> Len(plain[n]), compressed |-> CompressedSize(p)]
     /\ p \in Payload(Before(n), plain[n])

Field ==
  {"bv4-", "bv41", "bv4$", "????"} \union [size : Nat] \union [size : Nat, compressed : Nat]
    \union Seq(Byte) \union Seq(Token)

Intact(d, g) ==
  3 * g <= Len(d) /\ \A n \in 1 .. g : IsBlock(n, d[3 * n - 2], d[3 * n - 1], d[3 * n])

\* What follows g blocks is neither a block nor the marker of the end.
Broken(d, g) ==
  \/ Len(d) < 3 * g + 3 /\ (Len(d) > 3 * g => d[3 * g + 1] # "bv4$")
  \/ d[3 * g + 1] = "????"
  \/ d[3 * g + 1] = "bv4-" /\ Len(d[3 * g + 3]) # d[3 * g + 2].size
  \/ d[3 * g + 1] = "bv41" /\ CompressedSize(d[3 * g + 3]) # d[3 * g + 2].compressed
  \/ /\ d[3 * g + 1] = "bv41" /\ g < Len(plain)
     /\ d[3 * g + 3] \in Payload(Before(g + 1), plain[g + 1])
     /\ d[3 * g + 2].size \in Nat \ {Len(plain[g + 1])}

\* The layer as it was at the beginning, of which g blocks are as they should be.
Layer(d, g) ==
  /\ Intact(d, g)
  /\ IF damaged THEN Broken(d, g)
     ELSE g = Len(plain) /\ Len(d) = 3 * g + 1 /\ d[3 * g + 1] = "bv4$"

\* Where the chunks end in the contents.
Cuts(end) ==
  /\ end[0] = 0 /\ end[Len(plain)] = Len(Whole)
  /\ \A n \in 1 .. Len(plain) :
       /\ end[n] = end[n - 1] + Len(plain[n]) /\ end[n] <= Len(Whole)
       /\ \A i \in 1 .. Len(plain[n]) : plain[n][i] = Whole[end[n - 1] + i]

\* The first k blocks were let through.
Passed(k) == \A n \in 1 .. k : Len(plain[n]) <= Limit \/ MayWrap(plain[n])

\* The longest block that the reader may take in.
Bound == IF \E i \in DOMAIN plain : MayWrap(plain[i]) THEN Word ELSE Limit

\* k blocks have been read.
Reader(d, g, k) ==
  /\ k <= g
  /\ ~readerEOF => stream = SubSeq(d, 3 * k + 1, Len(d))
  /\ readerEOF => ~damaged /\ k = Len(plain)
  /\ lz4Dict = Before(k + 1) /\ Passed(k)

\* The file has the first `offset` bytes of their contents, with zeros in holes,
\* and the buffer has the others.
Output(end, k) ==
  /\ offset <= end[k] /\ end[k] - offset < Bound
  /\ uncompressed = SubSeq(Whole, offset + 1, end[k])
  /\ \A i \in 1 .. Len(Whole) : file[i] = IF i <= offset THEN Whole[i] ELSE 0

\* The copy ends where everything that was read is written.
Verdict(end, k) ==
  /\ result = "nil" => offset = end[k] /\ (readerEOF \/ \E i \in DOMAIN plain : plain[i] = <<>>)
  /\ result = "error" /\ ~damaged =>
       stream[2].size + (IF stream[1] = "bv41" THEN stream[2].compressed ELSE 0) > Limit

At(d, g, end, k) == Reader(d, g, k) /\ Output(end, k) /\ Verdict(end, k)

Types ==
  /\ plain \in Seq(Chunks) /\ Whole \in Seq(Byte)
  /\ damaged \in BOOLEAN /\ readerEOF \in BOOLEAN
  /\ file \in [1 .. Len(Whole) -> Byte] /\ offset \in Nat
  /\ result \in {"none", "nil", "error"}

IInv ==
  /\ Types
  /\ \E d \in Seq(Field), end \in [0 .. Len(plain) -> Nat], g \in 0 .. Len(plain),
        k \in 0 .. Len(plain) : Layer(d, g) /\ Cuts(end) /\ At(d, g, end, k)

---------------------------------------------------------------------------
(* lz4.UncompressBlockWithDict gives back what was compressed.             *)

LEMMA MaxIs ==
  ASSUME NEW N \in Nat, NEW s \in SUBSET (1 .. N), s # {}
  PROVE  Max(s) \in s /\ \A x \in s : x <= Max(s)
<1>1. s \subseteq Nat /\ \A n \in s : n <= N
  OBVIOUS
<1>2. \E m \in s : \A n \in s : n <= m
  BY <1>1, Largest
<1>3. \E m \in s : \A n \in s : m >= n
  BY <1>1, <1>2
<1>4. Max(s) \in s /\ \A n \in s : Max(s) >= n
  BY <1>3 DEF Max
<1>. QED
  BY <1>1, <1>4

\* One token of the payload.
Step(dict, acc, token) ==
  IF acc = <<>> THEN <<>>
  ELSE LET history == dict \o acc[1]
       IN IF token.lit THEN <<Append(acc[1], token.byte)>>
          ELSE IF token.distance > Len(history) THEN <<>>
          ELSE <<Append(acc[1], history[Len(history) + 1 - token.distance])>>

Turn(dict, p, rest, s) ==
  IF s = {} THEN <<<<>>>> ELSE Step(dict, rest[s \ {Max(s)}], p[Max(s)])

\* The fold runs along all sets of positions, each without its largest one.
LEMMA FoldExists ==
  ASSUME NEW N \in Nat, NEW dict, NEW p
  PROVE  \E rest : rest = [s \in SUBSET (1 .. N) |-> Turn(dict, p, rest, s)]
<1>. DEFINE U == 1 .. N
            Small(n) == {s \in SUBSET U : Cardinality(s) <= n}
            Defined == {n \in Nat : \E rest : rest = [s \in Small(n) |-> Turn(dict, p, rest, s)]}
<1>0. IsFiniteSet(U)
  BY FS_Interval
<1>1. \A s \in SUBSET U : IsFiniteSet(s) /\ Cardinality(s) \in Nat /\ Cardinality(s) <= Cardinality(U)
  BY <1>0, FS_Subset, FS_CardinalityType
<1>2. ASSUME NEW s \in SUBSET U, s # {}
      PROVE  s \ {Max(s)} \in SUBSET U /\ Cardinality(s \ {Max(s)}) = Cardinality(s) - 1
  BY <1>1, <1>2, MaxIs, FS_RemoveElement
<1>. HIDE DEF U
<1>3. 0 \in Defined
  <2>1. \A s \in Small(0) : s = {}
    BY <1>1, FS_EmptySet
  <2>. DEFINE rest == [s \in Small(0) |-> <<<<>>>>]
  <2>2. rest = [s \in Small(0) |-> Turn(dict, p, rest, s)]
    BY <2>1 DEF Turn
  <2>. HIDE DEF rest
  <2>. QED
    BY <2>2
<1>4. ASSUME NEW n \in Nat, n \in Defined PROVE n + 1 \in Defined
  <2>1. PICK rest : rest = [s \in Small(n) |-> Turn(dict, p, rest, s)]
    BY <1>4
  <2>. DEFINE more == [s \in Small(n + 1) |-> Turn(dict, p, rest, s)]
  <2>2. ASSUME NEW s \in Small(n + 1) PROVE more[s] = Turn(dict, p, more, s)
    <3>1. more[s] = Turn(dict, p, rest, s)
      OBVIOUS
    <3>2. CASE s = {}
      BY <3>1, <3>2 DEF Turn
    <3>3. CASE s # {}
      <4>. DEFINE r == s \ {Max(s)}
      <4>1. r \in Small(n) /\ r \in Small(n + 1)
        <5>1. s \in SUBSET U /\ Cardinality(s) \in Nat /\ Cardinality(s) <= n + 1
          BY <1>1
        <5>2. r \in SUBSET U /\ Cardinality(r) = Cardinality(s) - 1
          BY <1>2, <3>3, <5>1
        <5>. QED
          BY <5>1, <5>2
      <4>. HIDE DEF r
      <4>2. rest[r] = Turn(dict, p, rest, r)
        BY <2>1, <4>1
      <4>3. more[r] = rest[r]
        BY <4>1, <4>2
      <4>. QED
        BY <3>1, <3>3, <4>3 DEF Turn, r
    <3>. QED
      BY <3>2, <3>3
  <2>3. more = [s \in Small(n + 1) |-> Turn(dict, p, more, s)]
    BY <2>2
  <2>. HIDE DEF more, Small
  <2>4. n + 1 \in Nat
    OBVIOUS
  <2>. QED
    BY <2>3, <2>4
<1>5. Cardinality(U) \in Defined
  <2>. HIDE DEF Defined
  <2>1. Nat \subseteq Defined
    BY <1>3, <1>4, Induction
  <2>. QED
    BY <2>1, <1>1
<1>6. Small(Cardinality(U)) = SUBSET U
  BY <1>1
<1>. QED
  BY <1>5, <1>6 DEF U

\* A token appends the next byte of the chunk.
LEMMA StepIs ==
  ASSUME NEW before \in Seq(Byte), NEW chunk \in Seq(Byte), NEW p \in Payload(before, chunk),
         NEW n \in 1 .. Len(chunk)
  PROVE  Step(before, <<SubSeq(chunk, 1, n - 1)>>, p[n]) = <<SubSeq(chunk, 1, n)>>
<1>. DEFINE head == SubSeq(chunk, 1, n - 1)
            history == before \o head
<1>1. Len(chunk) \in Nat /\ Len(before) \in Nat /\ n \in Nat /\ n >= 1 /\ n <= Len(chunk)
  OBVIOUS
<1>2. /\ head \in Seq(Byte) /\ Len(head) = n - 1 /\ \A i \in 1 .. n - 1 : head[i] = chunk[i]
      /\ chunk[n] \in Byte /\ Append(head, chunk[n]) = SubSeq(chunk, 1, n)
  <2>1. chunk[n] \in Byte
    BY ElementOfSeq
  <2>2. /\ head \in Seq(Byte) /\ Len(head) = (IF 1 <= n - 1 THEN (n - 1) - 1 + 1 ELSE 0)
        /\ \A i \in 1 .. (n - 1) - 1 + 1 : head[i] = chunk[1 + i - 1]
    <3>1. \A i \in 1 .. n - 1 : chunk[i] \in Byte
      BY <1>1, ElementOfSeq
    <3>. QED
      BY <1>1, <3>1, SubSeqProperties
  <2>3. Append(head, chunk[n]) = head \o <<chunk[n]>>
    BY <2>1, <2>2, AppendIsConcat
  <2>4. SubSeq(chunk, 1, n) = SubSeq(chunk, 1, n - 1) \o <<chunk[n]>>
    <3>1. 1 \in 1 .. Len(chunk) /\ n \in 1 .. Len(chunk)
      BY <1>1
    <3>. QED
      BY <1>1, <3>1, SubSeqRecursiveSecond
  <2>. QED
    BY <1>1, <2>1, <2>2, <2>3, <2>4
<1>. HIDE DEF head
<1>3. /\ Len(history) = Len(before) + n - 1
      /\ \A i \in 1 .. Len(before) + n - 1 : history[i] = (before \o chunk)[i]
  <2>1. /\ Len(history) = Len(before) + Len(head)
        /\ \A i \in 1 .. Len(before) + Len(head) :
             history[i] = IF i <= Len(before) THEN before[i] ELSE head[i - Len(before)]
    BY <1>2, ConcatProperties
  <2>2. \A i \in 1 .. Len(before) + Len(chunk) :
          (before \o chunk)[i] = IF i <= Len(before) THEN before[i] ELSE chunk[i - Len(before)]
    BY ConcatProperties
  <2>3. ASSUME NEW i \in 1 .. Len(before) + n - 1 PROVE history[i] = (before \o chunk)[i]
    <3>1. i \in 1 .. Len(before) + Len(head) /\ i \in 1 .. Len(before) + Len(chunk)
      BY <1>1, <1>2
    <3>2. ~(i <= Len(before)) => i - Len(before) \in 1 .. n - 1
      BY <1>1
    <3>. QED
      BY <1>2, <2>1, <2>2, <3>1, <3>2
  <2>. QED
    BY <1>1, <1>2, <2>1, <2>3
<1>. DEFINE acc == <<head>>
<1>4. acc # <<>> /\ acc[1] = head
  OBVIOUS
<1>5. \/ p[n] = Lit(chunk[n])
      \/ \E d \in 1 .. Len(before) + n - 1 :
           p[n] = Ref(d) /\ (before \o chunk)[Len(before) + n - d] = chunk[n]
  BY DEF Payload
<1>. HIDE DEF acc
<1>6. CASE p[n] = Lit(chunk[n])
  <2>1. p[n].lit = TRUE /\ p[n].byte = chunk[n]
    BY <1>6 DEF Lit
  <2>2. Step(before, acc, p[n]) = <<Append(acc[1], p[n].byte)>>
    BY <1>4, <2>1 DEF Step
  <2>. QED
    BY <1>2, <1>4, <2>1, <2>2 DEF acc, head
<1>7. CASE \E d \in 1 .. Len(before) + n - 1 :
             p[n] = Ref(d) /\ (before \o chunk)[Len(before) + n - d] = chunk[n]
  <2>1. PICK d \in 1 .. Len(before) + n - 1 :
          p[n] = Ref(d) /\ (before \o chunk)[Len(before) + n - d] = chunk[n]
    BY <1>7
  <2>2. p[n].lit = FALSE /\ p[n].distance = d
    BY <2>1 DEF Ref
  <2>3. /\ ~(d > Len(history)) /\ Len(history) + 1 - d = Len(before) + n - d
        /\ Len(before) + n - d \in 1 .. Len(before) + n - 1
    BY <1>1, <1>3
  <2>4. history[Len(history) + 1 - d] = chunk[n]
    BY <1>3, <2>1, <2>3
  <2>. HIDE DEF history
  <2>5. Step(before, acc, p[n]) = <<Append(acc[1], history[Len(history) + 1 - d])>>
    BY <1>4, <2>2, <2>3 DEF Step, history
  <2>. QED
    BY <1>2, <1>4, <2>4, <2>5 DEF acc, head
<1>. QED
  BY <1>5, <1>6, <1>7

LEMMA UncompressIs ==
  ASSUME NEW before \in Seq(Byte), NEW chunk \in Seq(Byte), NEW p \in Payload(before, chunk),
         NEW size \in Nat
  PROVE  Uncompress(p, size, before) = IF Len(chunk) > size THEN <<>> ELSE <<chunk>>
<1>. DEFINE N == Len(chunk)
            loop == CHOOSE rest : rest = [s \in SUBSET (1 .. N) |-> Turn(before, p, rest, s)]
<1>1. N \in Nat /\ DOMAIN p = 1 .. N
  BY LenProperties DEF Payload
<1>2. loop = [s \in SUBSET (1 .. N) |-> Turn(before, p, loop, s)]
  <2>. HIDE DEF N
  <2>. QED
    BY <1>1, FoldExists
<1>3. Uncompress(p, size, before) =
        IF loop[1 .. N] # <<>> /\ Len(loop[1 .. N][1]) > size THEN <<>> ELSE loop[1 .. N]
  BY <1>1 DEF Uncompress, FoldLeft, MapThenFoldSet, Turn, Step
<1>. HIDE DEF loop
<1>. DEFINE Right == {n \in Nat : n <= N => loop[1 .. n] = <<SubSeq(chunk, 1, n)>>}
<1>4. 0 \in Right
  <2>1. 1 .. 0 = {} /\ SubSeq(chunk, 1, 0) = <<>>
    BY SubSeqEmpty
  <2>2. loop[{}] = <<<<>>>>
    BY <1>2 DEF Turn
  <2>. QED
    BY <2>1, <2>2
<1>5. ASSUME NEW m \in Nat, m \in Right PROVE m + 1 \in Right
  <2>. DEFINE n == m + 1
              s == 1 .. n
  <2>. SUFFICES ASSUME n <= N PROVE loop[s] = <<SubSeq(chunk, 1, n)>>
    OBVIOUS
  <2>1. n \in 1 .. N /\ n - 1 = m /\ m <= N /\ s # {} /\ s \in SUBSET (1 .. N) /\ n \in s
    <3>1. n \in 1 .. N /\ n - 1 = m /\ m <= N /\ n \in s
      BY <1>1
    <3>2. \A i \in s : i \in 1 .. N
      BY <1>1, <3>1
    <3>. QED
      BY <3>1, <3>2
  <2>2. Max(s) = n
    <3>1. Max(s) \in s /\ n <= Max(s)
      BY <1>1, <2>1, MaxIs
    <3>. QED
      BY <3>1
  <2>3. s \ {n} = 1 .. m
    OBVIOUS
  <2>4. loop[s] = Step(before, loop[s \ {Max(s)}], p[Max(s)])
    <3>. HIDE DEF s, N
    <3>. QED
      BY <1>2, <2>1 DEF Turn
  <2>5. loop[1 .. m] = <<SubSeq(chunk, 1, m)>>
    BY <1>5, <2>1
  <2>6. loop[s] = Step(before, <<SubSeq(chunk, 1, n - 1)>>, p[n])
    BY <2>1, <2>2, <2>3, <2>4, <2>5
  <2>7. Step(before, <<SubSeq(chunk, 1, n - 1)>>, p[n]) = <<SubSeq(chunk, 1, n)>>
    <3>. HIDE DEF n
    <3>. QED
      BY <2>1, StepIs
  <2>. QED
    BY <2>6, <2>7
<1>. HIDE DEF Right
<1>6. N \in Right
  BY <1>1, <1>4, <1>5, Induction
<1>7. loop[1 .. N] = <<chunk>>
  BY <1>1, <1>6, SubSeqFull DEF Right
<1>8. <<chunk>> # <<>> /\ <<chunk>>[1] = chunk
  OBVIOUS
<1>. QED
  BY <1>3, <1>7, <1>8

---------------------------------------------------------------------------
(* The layers that the reader may be given.                                *)

LEMMA ChunkType ==
  ASSUME plain \in Seq(Chunks), NEW n \in 1 .. Len(plain)
  PROVE  /\ plain[n] \in Seq(Byte) /\ Len(plain[n]) \in Nat /\ Len(plain[n]) < Word
         /\ Before(n) \in Seq(Byte) /\ Len(Before(n)) \in Nat
<1>1. \A m \in 1 .. Len(plain) : plain[m] \in Chunks
  BY ElementOfSeq
<1>2. \A m \in 1 .. Len(plain) : plain[m] \in Seq(Byte) /\ Len(plain[m]) < Word
  BY <1>1, ConstantsAssumption
<1>3. CASE n = 1
  BY <1>2, <1>3, EmptySeq DEF Before
<1>4. CASE n # 1
  <2>1. Len(plain) \in Nat
    OBVIOUS
  <2>2. n - 1 \in 1 .. Len(plain) /\ Before(n) = plain[n - 1]
    BY <1>4, <2>1 DEF Before
  <2>. QED
    BY <1>2, <2>2
<1>. QED
  BY <1>3, <1>4

LEMMA CompressedIs ==
  ASSUME NEW S, NEW p \in Seq(S)
  PROVE  CompressedSize(p) \in Nat /\ CompressedSize(p) <= Len(p)
<1>. DEFINE T == {i \in DOMAIN p : i = 1 \/ p[i].lit \/ p[i] # p[i - 1]}
            N == Len(p)
<1>1. N \in Nat /\ DOMAIN p = 1 .. N
  BY LenProperties
<1>2. T \in SUBSET (1 .. N)
  BY <1>1
<1>3. CompressedSize(p) = Cardinality(T)
  BY DEF CompressedSize
<1>. HIDE DEF T, N
<1>4. IsFiniteSet(1 .. N) /\ Cardinality(1 .. N) = N
  BY <1>1, FS_Interval
<1>5. Cardinality(T) \in Nat /\ Cardinality(T) <= N
  BY <1>2, <1>4, FS_Subset, FS_CardinalityType
<1>. QED
  BY <1>3, <1>5 DEF N

\* The longest block is a number, and no chunk is longer.
LEMMA BoundIs ==
  ASSUME plain \in Seq(Chunks)
  PROVE  /\ Bound \in Nat \ {0}
         /\ \A n \in 1 .. Len(plain) : (Len(plain[n]) <= Limit \/ MayWrap(plain[n])) => Len(plain[n]) <= Bound
<1>1. Limit \in Nat \ {0} /\ Word \in Nat \ {0}
  BY ConstantsAssumption
<1>2. ASSUME NEW n \in 1 .. Len(plain), Len(plain[n]) <= Limit \/ MayWrap(plain[n])
      PROVE  Len(plain[n]) <= Bound
  <2>1. Len(plain[n]) \in Nat /\ Len(plain[n]) < Word /\ n \in DOMAIN plain
    BY ChunkType, LenProperties
  <2>2. CASE \E i \in DOMAIN plain : MayWrap(plain[i])
    BY <1>1, <2>1, <2>2 DEF Bound
  <2>3. CASE ~\E i \in DOMAIN plain : MayWrap(plain[i])
    BY <1>2, <2>1, <2>3 DEF Bound
  <2>. QED
    BY <2>2, <2>3
<1>. QED
  BY <1>1, <1>2 DEF Bound

\* The compressor's blocks can be uncompressed.
LEMMA EncodingIsBlock ==
  ASSUME plain \in Seq(Chunks), NEW n \in 1 .. Len(plain), NEW e \in Encodings(Before(n), plain[n])
  PROVE  e \in Seq(Field) /\ Len(e) = 3 /\ IsBlock(n, e[1], e[2], e[3])
<1>. DEFINE before == Before(n)
            chunk == plain[n]
            history == before \o chunk
            At0(i) == Len(before) + i
            Back(i) == {d \in 1 .. At0(i) - 1 : history[At0(i) - d] = chunk[i]}
            Nearest(i) == CHOOSE d \in Back(i) : \A x \in Back(i) : d <= x
            literals == [i \in DOMAIN chunk |-> Lit(chunk[i])]
            references == [i \in DOMAIN chunk |->
                             IF Back(i) = {} THEN Lit(chunk[i]) ELSE Ref(Nearest(i))]
<1>0. before \in Seq(Byte) /\ chunk \in Seq(Byte) /\ Len(chunk) \in Nat /\ Len(before) \in Nat
  BY ChunkType
<1>. HIDE DEF before, chunk
<1>1. DOMAIN chunk = 1 .. Len(chunk) /\ \A i \in 1 .. Len(chunk) : chunk[i] \in Byte
  BY <1>0, LenProperties, ElementOfSeq
<1>2. ASSUME NEW i \in 1 .. Len(chunk) PROVE Lit(chunk[i]) \in Token
  BY <1>1 DEF Lit, Token
<1>3. ASSUME NEW d \in Nat PROVE Ref(d) \in Token
  BY DEF Ref, Token
<1>4. literals \in Payload(before, chunk)
  <2>1. literals \in Seq(Token) /\ Len(literals) = Len(chunk)
    <3>1. literals \in [1 .. Len(chunk) -> Token]
      BY <1>1, <1>2
    <3>. HIDE DEF literals
    <3>. QED
      BY <1>0, <3>1, SeqDef
  <2>2. \A i \in 1 .. Len(chunk) : literals[i] = Lit(chunk[i])
    BY <1>1
  <2>. HIDE DEF literals
  <2>. QED
    BY <2>1, <2>2 DEF Payload
<1>5. ASSUME NEW i \in 1 .. Len(chunk), Back(i) # {}
      PROVE  /\ Nearest(i) \in 1 .. Len(before) + i - 1 /\ Nearest(i) \in Nat
             /\ (before \o chunk)[Len(before) + i - Nearest(i)] = chunk[i]
  <2>1. Back(i) \subseteq Nat /\ Len(before) + i \in Nat
    BY <1>0
  <2>2. \E d \in Back(i) : \A x \in Back(i) : d <= x
    <3>. HIDE DEF Back
    <3>. QED
      BY <1>5, <2>1, Least
  <2>3. Nearest(i) \in Back(i)
    <3>. HIDE DEF Back
    <3>. QED
      BY <2>2
  <2>. DEFINE f == Nearest(i)
  <2>. HIDE DEF f
  <2>4. f \in Back(i)
    BY <2>3 DEF f
  <2>5. f \in 1 .. (Len(before) + i) - 1 /\ (before \o chunk)[Len(before) + i - f] = chunk[i]
    BY <2>4
  <2>6. /\ f \in 1 .. Len(before) + i - 1 /\ f \in Nat
        /\ (before \o chunk)[Len(before) + i - f] = chunk[i]
    BY <2>1, <2>5
  <2>. HIDE DEF Nearest
  <2>. QED
    BY ONLY <2>6 DEF f
<1>6. references \in Payload(before, chunk)
  <2>1. ASSUME NEW i \in 1 .. Len(chunk)
        PROVE  /\ references[i] \in Token
               /\ \/ references[i] = Lit(chunk[i])
                  \/ \E d \in 1 .. Len(before) + i - 1 :
                       references[i] = Ref(d) /\ (before \o chunk)[Len(before) + i - d] = chunk[i]
    <3>1. CASE Back(i) = {}
      <4>1. references[i] = Lit(chunk[i])
        BY <1>1, <3>1
      <4>. QED
        BY <1>2, <4>1
    <3>2. CASE Back(i) # {}
      <4>1. references[i] = Ref(Nearest(i))
        BY <1>1, <3>2
      <4>. HIDE DEF references, Back, Nearest
      <4>. QED
        BY <1>3, <1>5, <3>2, <4>1
    <3>. QED
      BY <3>1, <3>2
  <2>2. DOMAIN references = 1 .. Len(chunk)
    BY <1>1
  <2>3. references \in [1 .. Len(chunk) -> Token]
    <3>1. \A i \in 1 .. Len(chunk) :
            (IF Back(i) = {} THEN Lit(chunk[i]) ELSE Ref(Nearest(i))) \in Token
      <4>. HIDE DEF Back, Nearest
      <4>. QED
        BY <1>2, <1>3, <1>5
    <3>. HIDE DEF Back, Nearest
    <3>. QED
      BY <1>1, <3>1
  <2>. HIDE DEF references
  <2>4. references \in Seq(Token) /\ Len(references) = Len(chunk)
    BY <1>0, <2>3, SeqDef
  <2>. QED
    BY <2>1, <2>4 DEF Payload
<1>7. \/ e = <<"bv4-", [size |-> Len(chunk)], chunk>>
      \/ \E p \in {literals, references} :
           e = <<"bv41", [size |-> Len(chunk), compressed |-> CompressedSize(p)], p>>
  BY DEF Encodings, before, chunk
<1>. HIDE DEF literals, references
<1>8. CASE e = <<"bv4-", [size |-> Len(chunk)], chunk>>
  <2>1. Len(e) = 3 /\ e[1] = "bv4-" /\ e[2] = [size |-> Len(chunk)] /\ e[3] = chunk
    BY <1>8
  <2>2. "bv4-" \in Field /\ [size |-> Len(chunk)] \in Field /\ chunk \in Field
    BY <1>0 DEF Field
  <2>3. e \in Seq(Field)
    BY <1>8, <2>2
  <2>. QED
    BY <2>1, <2>3 DEF IsBlock, chunk
<1>9. ASSUME NEW p \in {literals, references},
             e = <<"bv41", [size |-> Len(chunk), compressed |-> CompressedSize(p)], p>>
      PROVE  e \in Seq(Field) /\ Len(e) = 3 /\ IsBlock(n, e[1], e[2], e[3])
  <2>0. p \in Payload(before, chunk) /\ p \in Seq(Token) /\ Len(p) = Len(chunk)
    BY <1>4, <1>6 DEF Payload
  <2>4. CompressedSize(p) \in Nat
    BY <2>0, CompressedIs
  <2>1. /\ Len(e) = 3 /\ e[1] = "bv41" /\ e[3] = p
        /\ e[2] = [size |-> Len(chunk), compressed |-> CompressedSize(p)]
    BY <1>9, <2>0
  <2>2. "bv41" \in Field /\ [size |-> Len(chunk), compressed |-> CompressedSize(p)] \in Field /\ p \in Field
    BY <1>0, <2>0, <2>4 DEF Field
  <2>3. e \in Seq(Field)
    BY <1>9, <2>2
  <2>. QED
    BY <2>0, <2>1, <2>3 DEF IsBlock, chunk, before
<1>. QED
  BY <1>7, <1>8, <1>9

\* One block more is one block more.
LEMMA IntactMore ==
  ASSUME plain \in Seq(Chunks), NEW n \in 1 .. Len(plain), NEW s \in Seq(Field), Len(s) = 3 * (n - 1),
         Intact(s, n - 1), NEW e \in Encodings(Before(n), plain[n])
  PROVE  s \o e \in Seq(Field) /\ Len(s \o e) = 3 * n /\ Intact(s \o e, n)
<1>0. n \in Nat /\ n >= 1
  OBVIOUS
<1>1. e \in Seq(Field) /\ Len(e) = 3 /\ IsBlock(n, e[1], e[2], e[3])
  BY EncodingIsBlock
<1>2. /\ s \o e \in Seq(Field) /\ Len(s \o e) = Len(s) + Len(e)
      /\ \A i \in 1 .. Len(s) + Len(e) : (s \o e)[i] = IF i <= Len(s) THEN s[i] ELSE e[i - Len(s)]
  BY <1>1, ConcatProperties
<1>3. Len(s \o e) = 3 * n
  BY <1>0, <1>1, <1>2
<1>4. ASSUME NEW b \in 1 .. n
      PROVE  IsBlock(b, (s \o e)[3 * b - 2], (s \o e)[3 * b - 1], (s \o e)[3 * b])
  <2>1. CASE b = n
    <3>1. /\ 3 * b - 2 \in 1 .. Len(s) + Len(e) /\ ~(3 * b - 2 <= Len(s)) /\ (3 * b - 2) - Len(s) = 1
          /\ 3 * b - 1 \in 1 .. Len(s) + Len(e) /\ ~(3 * b - 1 <= Len(s)) /\ (3 * b - 1) - Len(s) = 2
          /\ 3 * b \in 1 .. Len(s) + Len(e) /\ ~(3 * b <= Len(s)) /\ 3 * b - Len(s) = 3
      BY <1>0, <1>1, <2>1
    <3>2. (s \o e)[3 * b - 2] = e[1] /\ (s \o e)[3 * b - 1] = e[2] /\ (s \o e)[3 * b] = e[3]
      BY <1>2, <3>1
    <3>. QED
      BY <1>1, <2>1, <3>2
  <2>2. CASE b # n
    <3>1. /\ b \in 1 .. n - 1
          /\ 3 * b - 2 \in 1 .. Len(s) + Len(e) /\ 3 * b - 2 <= Len(s)
          /\ 3 * b - 1 \in 1 .. Len(s) + Len(e) /\ 3 * b - 1 <= Len(s)
          /\ 3 * b \in 1 .. Len(s) + Len(e) /\ 3 * b <= Len(s)
      BY <1>0, <1>1, <2>2
    <3>2. /\ (s \o e)[3 * b - 2] = s[3 * b - 2] /\ (s \o e)[3 * b - 1] = s[3 * b - 1]
          /\ (s \o e)[3 * b] = s[3 * b]
      BY <1>2, <3>1
    <3>3. IsBlock(b, s[3 * b - 2], s[3 * b - 1], s[3 * b])
      BY <3>1 DEF Intact
    <3>. QED
      BY <3>2, <3>3
  <2>. QED
    BY <2>1, <2>2
<1>5. 3 * n <= Len(s \o e)
  BY ONLY <1>0, <1>3
<1>6. Intact(s \o e, n)
  BY ONLY <1>4, <1>5 DEF Intact
<1>. QED
  BY <1>2, <1>3, <1>6

\* The streams of n blocks, from those S of one block less.
More(chunks, n, S) ==
  {s \o e : s \in S, e \in Encodings(IF n = 1 THEN <<>> ELSE chunks[n - 1], chunks[n])}

UpTo(chunks, f, N) ==
  f = [n \in 0 .. N |-> IF n = 0 THEN {<<>>} ELSE More(chunks, n, f[n - 1])]

LEMMA InMore ==
  ASSUME NEW n, NEW S, NEW x \in More(plain, n, S)
  PROVE  \E s \in S : \E e \in Encodings(Before(n), plain[n]) : x = s \o e
BY DEF More, Before

\* Streams is defined.
LEMMA StreamsExist ==
  ASSUME NEW N \in Nat, NEW C
  PROVE  \E f : UpTo(C, f, N)
<1>. DEFINE Is(f, m) == UpTo(C, f, m)
            Defined == {m \in Nat : \E f : Is(f, m)}
<1>. USE DEF UpTo
<1>1. 0 \in Defined
  <2>. DEFINE f == [n \in 0 .. 0 |-> {<<>>}]
  <2>1. \A n \in 0 .. 0 : n = 0
    OBVIOUS
  <2>2. Is(f, 0)
    BY <2>1
  <2>. HIDE DEF f, Is
  <2>. QED
    BY <2>2
<1>2. ASSUME NEW m \in Nat, m \in Defined PROVE m + 1 \in Defined
  <2>1. PICK f : Is(f, m)
    BY <1>2
  <2>. DEFINE g == [n \in 0 .. m + 1 |-> IF n = 0 THEN {<<>>} ELSE More(C, n, f[n - 1])]
  <2>2. ASSUME NEW n \in 0 .. m PROVE g[n] = f[n]
    <3>1. n \in 0 .. m + 1
      OBVIOUS
    <3>. QED
      BY <2>1, <3>1
  <2>3. ASSUME NEW n \in 0 .. m + 1 PROVE g[n] = IF n = 0 THEN {<<>>} ELSE More(C, n, g[n - 1])
    <3>1. g[n] = IF n = 0 THEN {<<>>} ELSE More(C, n, f[n - 1])
      OBVIOUS
    <3>2. n # 0 => n - 1 \in 0 .. m
      OBVIOUS
    <3>. HIDE DEF g
    <3>. QED
      BY <2>2, <3>1, <3>2
  <2>4. Is(g, m + 1)
    <3>1. g = [n \in 0 .. m + 1 |-> g[n]]
      OBVIOUS
    <3>. HIDE DEF g
    <3>. QED
      BY <2>3, <3>1
  <2>. HIDE DEF Is, g
  <2>. QED
    BY <2>4
<1>3. N \in Defined
  <2>. HIDE DEF Defined
  <2>. QED
    BY <1>1, <1>2, Induction
<1>. QED
  BY <1>3

\* A stream has all blocks and then the marker of the end.
LEMMA StreamIs ==
  ASSUME plain \in Seq(Chunks), NEW s \in Streams(plain)
  PROVE  /\ s \in Seq(Field) /\ Len(s) = 3 * Len(plain) + 1 /\ s[3 * Len(plain) + 1] = "bv4$"
         /\ Intact(s, Len(plain))
<1>. DEFINE N == Len(plain)
            upTo == CHOOSE f : UpTo(plain, f, N)
<1>0. N \in Nat
  OBVIOUS
<1>1. UpTo(plain, upTo, N)
  BY <1>0, StreamsExist
<1>2. PICK t \in upTo[N] : s = t \o <<"bv4$">>
  <2>1. Streams(plain) = {x \o <<"bv4$">> : x \in upTo[N]}
    BY DEF Streams, UpTo, More
  <2>. HIDE DEF upTo, N
  <2>. QED
    BY <2>1
<1>. HIDE DEF upTo
<1>. DEFINE Right == {n \in Nat : n <= N =>
              \A x \in upTo[n] : x \in Seq(Field) /\ Len(x) = 3 * n /\ Intact(x, n)}
<1>3. 0 \in Right
  <2>1. upTo[0] = {<<>>}
    BY <1>0, <1>1 DEF UpTo
  <2>2. <<>> \in Seq(Field) /\ Len(<<>>) = 3 * 0 /\ Intact(<<>>, 0)
    BY EmptySeq DEF Intact
  <2>. QED
    BY <2>1, <2>2
<1>4. ASSUME NEW m \in Nat, m \in Right PROVE m + 1 \in Right
  <2>. DEFINE n == m + 1
  <2>. SUFFICES ASSUME n <= N, NEW x \in upTo[n]
                PROVE  x \in Seq(Field) /\ Len(x) = 3 * n /\ Intact(x, n)
    OBVIOUS
  <2>1. n \in 1 .. N /\ n \in 0 .. N /\ n # 0 /\ n - 1 = m /\ m <= N
    BY <1>0
  <2>2. PICK y \in upTo[m], e \in Encodings(Before(n), plain[n]) : x = y \o e
    <3>. HIDE DEF n, N
    <3>1. upTo[n] = More(plain, n, upTo[n - 1])
      BY <1>1, <2>1 DEF UpTo
    <3>2. x \in More(plain, n, upTo[m])
      BY <2>1, <3>1
    <3>. QED
      BY ONLY <3>2, InMore
  <2>3. y \in Seq(Field) /\ Len(y) = 3 * (n - 1) /\ Intact(y, n - 1)
    BY <1>4, <2>1
  <2>. HIDE DEF n
  <2>. QED
    BY <2>1, <2>2, <2>3, IntactMore
<1>. HIDE DEF Right
<1>5. N \in Right
  BY <1>0, <1>3, <1>4, Induction
<1>6. t \in Seq(Field) /\ Len(t) = 3 * N /\ Intact(t, N)
  BY <1>0, <1>2, <1>5 DEF Right
<1>7. "bv4$" \in Field
  BY DEF Field
<1>8. <<"bv4$">> \in Seq(Field) /\ Len(<<"bv4$">>) = 1 /\ <<"bv4$">>[1] = "bv4$"
  BY <1>7
<1>9. /\ s \in Seq(Field) /\ Len(s) = 3 * N + 1
      /\ \A i \in 1 .. 3 * N + 1 : s[i] = IF i <= 3 * N THEN t[i] ELSE <<"bv4$">>[i - 3 * N]
  <2>. HIDE DEF N
  <2>1. /\ t \o <<"bv4$">> \in Seq(Field) /\ Len(t \o <<"bv4$">>) = Len(t) + Len(<<"bv4$">>)
        /\ \A i \in 1 .. Len(t) + Len(<<"bv4$">>) :
             (t \o <<"bv4$">>)[i] = IF i <= Len(t) THEN t[i] ELSE <<"bv4$">>[i - Len(t)]
    BY <1>6, <1>8, ConcatProperties
  <2>. QED
    BY <1>2, <1>6, <1>8, <2>1
<1>10. s[3 * N + 1] = "bv4$"
  <2>1. 3 * N + 1 \in 1 .. 3 * N + 1 /\ ~(3 * N + 1 <= 3 * N) /\ (3 * N + 1) - 3 * N = 1
    BY <1>0
  <2>. QED
    BY <1>8, <1>9, <2>1
<1>11. Intact(s, N)
  <2>1. ASSUME NEW n \in 1 .. N PROVE IsBlock(n, s[3 * n - 2], s[3 * n - 1], s[3 * n])
    <3>1. \A i \in {3 * n - 2, 3 * n - 1, 3 * n} : i \in 1 .. 3 * N + 1 /\ i <= 3 * N
      BY <1>0
    <3>2. s[3 * n - 2] = t[3 * n - 2] /\ s[3 * n - 1] = t[3 * n - 1] /\ s[3 * n] = t[3 * n]
      BY <1>9, <3>1
    <3>. QED
      BY <1>6, <3>2 DEF Intact
  <2>. QED
    BY <1>0, <1>9, <2>1 DEF Intact
<1>. QED
  BY <1>9, <1>10, <1>11

LEMMA IntactKeeps ==
  ASSUME NEW s, NEW N \in Nat, Intact(s, N), NEW d \in Seq(Field), NEW g \in 0 .. N, 3 * g <= Len(d),
         \A i \in 1 .. 3 * g : d[i] = s[i]
  PROVE  Intact(d, g)
<1>1. ASSUME NEW n \in 1 .. g PROVE IsBlock(n, d[3 * n - 2], d[3 * n - 1], d[3 * n])
  <2>1. n \in 1 .. N /\ \A i \in {3 * n - 2, 3 * n - 1, 3 * n} : i \in 1 .. 3 * g
    OBVIOUS
  <2>2. IsBlock(n, s[3 * n - 2], s[3 * n - 1], s[3 * n])
    BY <2>1 DEF Intact
  <2>. QED
    BY <2>1, <2>2
<1>. QED
  BY <1>1 DEF Intact

LEMMA Thirds ==
  ASSUME NEW N \in Nat, NEW i \in 1 .. 3 * N + 1
  PROVE  /\ i % 3 = 0 => \E b \in 1 .. N : i = 3 * b
         /\ i % 3 = 1 => \E b \in 0 .. N : i = 3 * b + 1
         /\ i % 3 = 2 => \E b \in 1 .. N : i = 3 * b - 1
<1>1. i \in Nat /\ i = 3 * (i \div 3) + (i % 3) /\ i \div 3 \in Nat
  OBVIOUS
<1>2. i % 3 = 0 => i \div 3 \in 1 .. N /\ i = 3 * (i \div 3)
  BY <1>1
<1>3. i % 3 = 1 => i \div 3 \in 0 .. N /\ i = 3 * (i \div 3) + 1
  BY <1>1
<1>4. i % 3 = 2 => (i \div 3) + 1 \in 1 .. N /\ i = 3 * ((i \div 3) + 1) - 1
  BY <1>1
<1>. QED
  BY <1>2, <1>3, <1>4

\* The layer that the compressor wrote.
Written(s) ==
  /\ s \in Seq(Field) /\ Len(s) = 3 * Len(plain) + 1 /\ s[3 * Len(plain) + 1] = "bv4$"
  /\ Intact(s, Len(plain))

\* The damage is met at some block: what becomes of each kind of damage.
LEMMA CutOff ==
  ASSUME plain \in Seq(Chunks), NEW s, Written(s), NEW n \in 0 .. Len(s) - 1, NEW d, d = SubSeq(s, 1, n)
  PROVE  d \in Seq(Field) /\ \E g \in 0 .. Len(plain) : Intact(d, g) /\ Broken(d, g)
<1>. DEFINE N == Len(plain)
            g == n \div 3
<1>1. N \in Nat /\ n \in Nat /\ n <= 3 * N /\ s \in Seq(Field) /\ Len(s) = 3 * N + 1 /\ Intact(s, N)
  BY DEF Written
<1>. HIDE DEF N
<1>2. g \in 0 .. N /\ g \in Nat /\ 3 * g <= n /\ n < 3 * g + 3 /\ (n > 3 * g => g + 1 \in 1 .. N)
  BY <1>1
<1>. HIDE DEF g
<1>3. d \in Seq(Field) /\ Len(d) = n /\ \A i \in 1 .. n : d[i] = s[i]
  <2>1. \A i \in 1 .. n : s[i] \in Field
    BY <1>1, ElementOfSeq
  <2>2. /\ d \in Seq(Field) /\ Len(d) = (IF 1 <= n THEN n - 1 + 1 ELSE 0)
        /\ \A i \in 1 .. n - 1 + 1 : d[i] = s[1 + i - 1]
    BY <1>1, <2>1, SubSeqProperties
  <2>. QED
    BY <1>1, <2>2
<1>4. Intact(d, g)
  <2>1. \A i \in 1 .. 3 * g : d[i] = s[i]
    BY <1>1, <1>2, <1>3
  <2>. QED
    BY <1>1, <1>2, <1>3, <2>1, IntactKeeps
<1>5. ASSUME n > 3 * g PROVE d[3 * g + 1] # "bv4$"
  <2>1. g + 1 \in 1 .. N /\ 3 * (g + 1) - 2 = 3 * g + 1 /\ 3 * g + 1 \in 1 .. n
    BY <1>1, <1>2, <1>5
  <2>2. IsBlock(g + 1, s[3 * (g + 1) - 2], s[3 * (g + 1) - 1], s[3 * (g + 1)])
    BY <1>1, <2>1 DEF Intact
  <2>3. s[3 * g + 1] # "bv4$"
    BY <2>1, <2>2 DEF IsBlock
  <2>. QED
    BY <1>3, <2>1, <2>3
<1>6. Broken(d, g)
  BY <1>1, <1>2, <1>3, <1>5 DEF Broken
<1>. QED
  BY <1>2, <1>3, <1>4, <1>6 DEF N

\* The block that a field belongs to, and the layer with another field there.
LEMMA OtherField ==
  ASSUME plain \in Seq(Chunks), NEW s, Written(s), NEW g \in 0 .. Len(plain), NEW i \in Nat,
         i > 3 * g, i <= 3 * g + 3, i <= Len(s), NEW v \in Field, NEW d, d = [s EXCEPT ![i] = v]
  PROVE  /\ d \in Seq(Field) /\ Len(d) = Len(s) /\ Intact(d, g) /\ d[i] = v
         /\ \A j \in 1 .. Len(s) : j # i => d[j] = s[j]
<1>1. g \in Nat /\ Len(plain) \in Nat /\ s \in Seq(Field) /\ Len(s) = 3 * Len(plain) + 1 /\ Intact(s, Len(plain))
  BY DEF Written
<1>2. i \in 1 .. Len(s)
  BY <1>1
<1>3. /\ d \in Seq(Field) /\ Len(d) = Len(s)
      /\ \A j \in 1 .. Len(s) : d[j] = IF j = i THEN v ELSE s[j]
  BY <1>1, <1>2, ExceptSeq
<1>4. 3 * g <= Len(d) /\ \A j \in 1 .. 3 * g : d[j] = s[j]
  BY <1>1, <1>3
<1>5. Intact(d, g)
  BY <1>1, <1>3, <1>4, IntactKeeps
<1>. QED
  BY <1>2, <1>3, <1>5

LEMMA UnknownMarker ==
  ASSUME plain \in Seq(Chunks), NEW s, Written(s), NEW i \in DOMAIN s, i % 3 = 1,
         NEW d, d = [s EXCEPT ![i] = "????"]
  PROVE  d \in Seq(Field) /\ \E g \in 0 .. Len(plain) : Intact(d, g) /\ Broken(d, g)
<1>1. /\ Len(plain) \in Nat /\ Len(s) = 3 * Len(plain) + 1 /\ i \in 1 .. 3 * Len(plain) + 1
      /\ i \in Nat /\ "????" \in Field
  BY LenProperties DEF Written, Field
<1>2. PICK g \in 0 .. Len(plain) : i = 3 * g + 1
  BY <1>1, Thirds
<1>3. g \in Nat /\ i > 3 * g /\ i <= 3 * g + 3 /\ i <= Len(s)
  BY <1>1, <1>2
<1>4. d \in Seq(Field) /\ Intact(d, g) /\ d[i] = "????"
  BY <1>1, <1>3, OtherField
<1>. QED
  BY <1>2, <1>4 DEF Broken

LEMMA ShortPayload ==
  ASSUME plain \in Seq(Chunks), NEW s, Written(s), NEW i \in DOMAIN s, i % 3 = 0,
         NEW n \in 0 .. Len(s[i]), NEW q, q = SubSeq(s[i], 1, n),
         IF s[i - 2] = "bv4-" THEN Len(q) < Len(s[i]) ELSE CompressedSize(q) < CompressedSize(s[i]),
         NEW d, d = Append(SubSeq(s, 1, i - 1), q)
  PROVE  d \in Seq(Field) /\ \E g \in 0 .. Len(plain) : Intact(d, g) /\ Broken(d, g)
<1>1. /\ Len(plain) \in Nat /\ s \in Seq(Field) /\ Len(s) = 3 * Len(plain) + 1
      /\ i \in 1 .. 3 * Len(plain) + 1 /\ i \in Nat /\ Intact(s, Len(plain))
  BY LenProperties DEF Written
<1>2. PICK b \in 1 .. Len(plain) : i = 3 * b
  BY <1>1, Thirds
<1>. DEFINE g == b - 1
            head == SubSeq(s, 1, i - 1)
            p == s[i]
            c == Len(plain[b])
            z == CompressedSize(p)
<1>3. /\ g \in Nat /\ g \in 0 .. Len(plain) /\ g + 1 = b /\ i = 3 * g + 3 /\ i - 2 = 3 * g + 1
      /\ 3 * b - 2 = 3 * g + 1 /\ 3 * b - 1 = 3 * g + 2 /\ i <= Len(s)
  BY <1>1, <1>2
<1>4. IsBlock(b, s[3 * b - 2], s[3 * b - 1], s[3 * b])
  BY <1>1, <1>2 DEF Intact
<1>5. plain[b] \in Seq(Byte) /\ c \in Nat
  BY ChunkType
<1>6. \/ /\ s[3 * g + 1] = "bv4-" /\ s[3 * g + 2] = [size |-> c] /\ p \in Seq(Byte) /\ Len(p) = c
      \/ /\ s[3 * g + 1] = "bv41" /\ s[3 * g + 2] = [size |-> c, compressed |-> z]
         /\ p \in Seq(Token)
  BY <1>2, <1>3, <1>4, <1>5 DEF IsBlock, Payload
<1>. HIDE DEF g, head, c, z
<1>7. ASSUME NEW S, p \in Seq(S) PROVE q \in Seq(S) /\ Len(q) \in Nat
  <2>1. Len(p) \in Nat /\ n \in Nat /\ n <= Len(p)
    BY <1>7
  <2>2. \A j \in 1 .. n : p[j] \in S
    BY <1>7, <2>1, ElementOfSeq
  <2>3. SubSeq(p, 1, n) \in Seq(S)
    BY <2>1, <2>2, SubSeqProperties
  <2>. QED
    BY <2>3
<1>8. q \in Field
  BY <1>6, <1>7 DEF Field
<1>9. /\ head \in Seq(Field) /\ Len(head) = 3 * g + 2 /\ \A j \in 1 .. 3 * g + 2 : head[j] = s[j]
  <2>1. \A j \in 1 .. i - 1 : s[j] \in Field
    <3>1. \A j \in 1 .. i - 1 : j \in 1 .. Len(s)
      BY ONLY <1>1, <1>3
    <3>. QED
      BY ONLY <1>1, <3>1, ElementOfSeq
  <2>2. /\ head \in Seq(Field) /\ Len(head) = (IF 1 <= i - 1 THEN (i - 1) - 1 + 1 ELSE 0)
        /\ \A j \in 1 .. (i - 1) - 1 + 1 : head[j] = s[1 + j - 1]
    BY <1>1, <2>1, SubSeqProperties DEF head
  <2>. QED
    BY <1>3, <2>2
<1>10. /\ d \in Seq(Field) /\ Len(d) = 3 * g + 3 /\ \A j \in 1 .. 3 * g + 2 : d[j] = s[j]
       /\ d[3 * g + 3] = q
  <2>. DEFINE x == Append(head, q)
  <2>0. head \in Seq(Field) /\ q \in Field
    BY <1>8, <1>9
  <2>1. /\ x \in Seq(Field) /\ Len(x) = Len(head) + 1 /\ \A j \in 1 .. Len(head) : x[j] = head[j]
        /\ x[Len(head) + 1] = q
    BY ONLY <2>0, AppendProperties
  <2>2. x = d
    BY DEF head
  <2>. HIDE DEF x
  <2>3. (3 * g + 2) + 1 = 3 * g + 3
    BY <1>3
  <2>. QED
    BY ONLY <1>9, <2>1, <2>2, <2>3
<1>11. Intact(d, g)
  <2>1. 3 * g <= Len(d) /\ \A j \in 1 .. 3 * g : d[j] = s[j]
    BY ONLY <1>3, <1>10
  <2>2. Len(plain) \in Nat /\ Intact(s, Len(plain)) /\ g \in 0 .. Len(plain) /\ d \in Seq(Field)
    BY <1>1, <1>3, <1>10
  <2>. QED
    BY ONLY <2>1, <2>2, IntactKeeps
<1>12. d[3 * g + 1] = s[3 * g + 1] /\ d[3 * g + 2] = s[3 * g + 2]
  <2>1. 3 * g + 1 \in 1 .. 3 * g + 2 /\ 3 * g + 2 \in 1 .. 3 * g + 2
    BY ONLY <1>3
  <2>. QED
    BY ONLY <1>10, <2>1
<1>13. s[i - 2] = s[3 * g + 1]
  BY ONLY <1>3
<1>14. Broken(d, g)
  <2>1. CASE s[3 * g + 1] = "bv4-" /\ s[3 * g + 2] = [size |-> c] /\ p \in Seq(Byte) /\ Len(p) = c
    <3>0. d[3 * g + 2] = [size |-> c]
      BY ONLY <1>12, <2>1
    <3>1. d[3 * g + 2].size = c
      BY ONLY <3>0
    <3>2. Len(q) < Len(p) /\ Len(q) \in Nat
      BY <1>7, <1>13, <2>1
    <3>3. Len(q) # c
      BY <2>1, <3>2
    <3>. QED
      BY ONLY <1>10, <1>12, <2>1, <3>1, <3>3 DEF Broken
  <2>2. CASE s[3 * g + 1] = "bv41" /\ s[3 * g + 2] = [size |-> c, compressed |-> z] /\ p \in Seq(Token)
    <3>0. d[3 * g + 2] = [size |-> c, compressed |-> z]
      BY ONLY <1>12, <2>2
    <3>1. d[3 * g + 2].compressed = z
      BY ONLY <3>0
    <3>2. CompressedSize(q) < z /\ CompressedSize(q) \in Nat
      BY <1>7, <1>13, <2>2, CompressedIs DEF z
    <3>3. CompressedSize(q) # z
      BY <3>2
    <3>. QED
      BY ONLY <1>10, <1>12, <2>2, <3>1, <3>3 DEF Broken
  <2>. QED
    BY <1>6, <2>1, <2>2
<1>. QED
  BY <1>3, <1>10, <1>11, <1>14

\* A header is at the second place of its block.
LEMMA HeaderOf ==
  ASSUME plain \in Seq(Chunks), NEW s, Written(s), NEW i \in DOMAIN s, i % 3 = 2, s[i - 1] = "bv41"
  PROVE  \E g \in 0 .. Len(plain) - 1 :
           /\ i = 3 * g + 2 /\ Len(plain[g + 1]) \in Nat /\ CompressedSize(s[i + 1]) \in Nat
           /\ s[i] = [size |-> Len(plain[g + 1]), compressed |-> CompressedSize(s[i + 1])]
           /\ s[i + 1] \in Payload(Before(g + 1), plain[g + 1])
<1>1. /\ Len(plain) \in Nat /\ i \in 1 .. 3 * Len(plain) + 1 /\ Intact(s, Len(plain))
  BY LenProperties DEF Written
<1>2. PICK b \in 1 .. Len(plain) : i = 3 * b - 1
  BY <1>1, Thirds
<1>. DEFINE g == b - 1
<1>3. /\ g \in 0 .. Len(plain) - 1 /\ g + 1 = b /\ i = 3 * g + 2 /\ 3 * b - 2 = i - 1 /\ 3 * b = i + 1
  BY <1>1, <1>2
<1>4. IsBlock(b, s[i - 1], s[i], s[i + 1])
  <2>1. IsBlock(b, s[3 * b - 2], s[3 * b - 1], s[3 * b])
    BY <1>1 DEF Intact
  <2>. QED
    BY <1>2, <1>3, <2>1
<1>5. /\ s[i] = [size |-> Len(plain[b]), compressed |-> CompressedSize(s[i + 1])]
      /\ s[i + 1] \in Payload(Before(b), plain[b])
  BY <1>4 DEF IsBlock
<1>6. Len(plain[b]) \in Nat
  BY ChunkType
<1>7. CompressedSize(s[i + 1]) \in Nat
  BY <1>5, CompressedIs DEF Payload
<1>. HIDE DEF g
<1>. QED
  BY <1>3, <1>5, <1>6, <1>7

LEMMA OtherSize ==
  ASSUME plain \in Seq(Chunks), NEW s, Written(s), NEW i \in DOMAIN s, i % 3 = 2, s[i - 1] = "bv41",
         NEW h, h \in [size : Nat, compressed : Nat], h # s[i], NEW d, d = [s EXCEPT ![i] = h]
  PROVE  d \in Seq(Field) /\ \E g \in 0 .. Len(plain) : Intact(d, g) /\ Broken(d, g)
<1>1. PICK g \in 0 .. Len(plain) - 1 :
        /\ i = 3 * g + 2 /\ Len(plain[g + 1]) \in Nat /\ CompressedSize(s[i + 1]) \in Nat
        /\ s[i] = [size |-> Len(plain[g + 1]), compressed |-> CompressedSize(s[i + 1])]
        /\ s[i + 1] \in Payload(Before(g + 1), plain[g + 1])
  BY HeaderOf
<1>. DEFINE c == Len(plain[g + 1])
            z == CompressedSize(s[i + 1])
<1>2. /\ Len(plain) \in Nat /\ g \in Nat /\ g \in 0 .. Len(plain) /\ g < Len(plain)
      /\ Len(s) = 3 * Len(plain) + 1 /\ h \in Field
  BY DEF Written, Field
<1>3. i \in Nat /\ i > 3 * g /\ i <= 3 * g + 3 /\ i <= Len(s) /\ i = 3 * g + 2
  <2>1. i = 3 * g + 2
    BY <1>1
  <2>2. 3 * g + 2 \in Nat /\ 3 * g + 2 > 3 * g /\ 3 * g + 2 <= 3 * g + 3 /\ 3 * g + 2 <= 3 * Len(plain) + 1
    BY ONLY <1>2
  <2>. QED
    BY ONLY <1>2, <2>1, <2>2
<1>4. /\ d \in Seq(Field) /\ Intact(d, g) /\ d[i] = h
      /\ \A j \in 1 .. Len(s) : j # i => d[j] = s[j]
  <2>1. plain \in Seq(Chunks) /\ Written(s) /\ d = [s EXCEPT ![i] = h]
    OBVIOUS
  <2>. HIDE DEF c, z
  <2>2. g \in 0 .. Len(plain) /\ i \in Nat /\ h \in Field
    BY ONLY <1>2, <1>3
  <2>3. i > 3 * g /\ i <= 3 * g + 3 /\ i <= Len(s)
    BY ONLY <1>3
  <2>4. d \in Seq(Field) /\ Intact(d, g) /\ d[i] = h
    BY ONLY <2>1, <2>2, <2>3, OtherField
  <2>5. \A j \in 1 .. Len(s) : j # i => d[j] = s[j]
    BY ONLY <2>1, <2>2, <2>3, OtherField
  <2>. QED
    BY ONLY <2>4, <2>5
<1>5. d[3 * g + 1] = "bv41" /\ d[3 * g + 2] = h /\ d[3 * g + 3] = s[i + 1]
  <2>1. /\ i - 1 = 3 * g + 1 /\ i - 1 \in 1 .. Len(s) /\ i - 1 # i
        /\ i + 1 = 3 * g + 3 /\ i + 1 \in 1 .. Len(s) /\ i + 1 # i
    BY ONLY <1>2, <1>3
  <2>. QED
    BY <1>1, <1>4, <2>1
<1>6. h.size # c \/ h.compressed # z
  <2>1. h = [size |-> h.size, compressed |-> h.compressed]
    OBVIOUS
  <2>. HIDE DEF c, z
  <2>2. s[i] = [size |-> c, compressed |-> z]
    BY <1>1 DEF c, z
  <2>. QED
    BY <2>1, <2>2
<1>7. Broken(d, g)
  <2>. HIDE DEF c, z
  <2>1. CASE h.compressed # z
    <3>1. CompressedSize(d[3 * g + 3]) # d[3 * g + 2].compressed
      BY <1>5, <2>1 DEF z
    <3>. QED
      BY <1>5, <3>1 DEF Broken
  <2>2. CASE h.size # c
    <3>1. d[3 * g + 2].size \in Nat \ {Len(plain[g + 1])}
      <4>1. h.size \in Nat
        OBVIOUS
      <4>. QED
        BY <1>5, <2>2, <4>1 DEF c
    <3>. QED
      BY <1>1, <1>2, <1>5, <3>1 DEF Broken
  <2>. QED
    BY <1>6, <2>1, <2>2
<1>. QED
  BY <1>2, <1>4, <1>7

LEMMA DamageBreaks ==
  ASSUME plain \in Seq(Chunks), NEW s, Written(s), NEW d \in Damages(s) \ {s}
  PROVE  d \in Seq(Field) /\ \E g \in 0 .. Len(plain) : Intact(d, g) /\ Broken(d, g)
<1>. DEFINE Goal == d \in Seq(Field) /\ \E g \in 0 .. Len(plain) : Intact(d, g) /\ Broken(d, g)
            markers == {i \in DOMAIN s : i % 3 = 1}
            headers == {i \in DOMAIN s : i % 3 = 2}
            payloads == {i \in DOMAIN s : i % 3 = 0}
            compressed == {h \in headers : s[h - 1] = "bv41"}
            Early == {SubSeq(s, 1, n) : n \in 0 .. Len(s) - 1}
            Marked == {[s EXCEPT ![i] = "????"] : i \in markers}
            Within == UNION {CutWithin(s, i) : i \in payloads}
            Other == UNION {Resized(s, i) : i \in compressed}
<1>0. Damages(s) = Early \union Within \union Marked \union Other
  BY DEF Damages
<1>1. \/ d \in Early \/ d \in Marked
      \/ \E i \in payloads : d \in CutWithin(s, i)
      \/ \E i \in compressed : d \in Resized(s, i)
  <2>. HIDE DEF markers, headers, payloads, compressed, Early, Marked
  <2>1. d \in Within => \E i \in payloads : d \in CutWithin(s, i)
    OBVIOUS
  <2>2. d \in Other => \E i \in compressed : d \in Resized(s, i)
    OBVIOUS
  <2>. HIDE DEF Within, Other
  <2>3. d \in Early \/ d \in Within \/ d \in Marked \/ d \in Other
    BY <1>0
  <2>. QED
    BY <2>1, <2>2, <2>3
<1>2. CASE d \in Early
  <2>1. PICK n \in 0 .. Len(s) - 1 : d = SubSeq(s, 1, n)
    BY <1>2
  <2>. QED
    BY <2>1, CutOff
<1>3. ASSUME NEW i \in payloads, d \in CutWithin(s, i) PROVE Goal
  <2>1. PICK n \in 0 .. Len(s[i]) :
          /\ d = Append(SubSeq(s, 1, i - 1), SubSeq(s[i], 1, n))
          /\ IF s[i - 2] = "bv4-" THEN Len(SubSeq(s[i], 1, n)) < Len(s[i])
             ELSE CompressedSize(SubSeq(s[i], 1, n)) < CompressedSize(s[i])
    BY <1>3 DEF CutWithin
  <2>. DEFINE q == SubSeq(s[i], 1, n)
  <2>2. d = Append(SubSeq(s, 1, i - 1), q) /\ q = SubSeq(s[i], 1, n)
    BY <2>1
  <2>3. IF s[i - 2] = "bv4-" THEN Len(q) < Len(s[i]) ELSE CompressedSize(q) < CompressedSize(s[i])
    BY <2>1
  <2>. HIDE DEF q
  <2>4. i \in DOMAIN s /\ i % 3 = 0
    OBVIOUS
  <2>. QED
    BY ONLY <2>2, <2>3, <2>4, ShortPayload, n \in 0 .. Len(s[i]), plain \in Seq(Chunks), Written(s)
<1>4. CASE d \in Marked
  <2>1. PICK i \in DOMAIN s : i % 3 = 1 /\ d = [s EXCEPT ![i] = "????"]
    BY <1>4
  <2>. QED
    BY <2>1, UnknownMarker
<1>5. ASSUME NEW i \in compressed, d \in Resized(s, i) PROVE Goal
  <2>1. i \in DOMAIN s /\ i % 3 = 2 /\ s[i - 1] = "bv41"
    OBVIOUS
  <2>2. PICK g \in 0 .. Len(plain) - 1 :
          /\ i = 3 * g + 2 /\ Len(plain[g + 1]) \in Nat /\ CompressedSize(s[i + 1]) \in Nat
          /\ s[i] = [size |-> Len(plain[g + 1]), compressed |-> CompressedSize(s[i + 1])]
    BY <2>1, HeaderOf
  <2>. DEFINE c == Len(plain[g + 1])
              e == CompressedSize(s[i + 1])
  <2>. HIDE DEF c, e
  <2>3. /\ s[i] = [size |-> c, compressed |-> e] /\ c \in Nat /\ e \in Nat
        /\ s[i].size = c /\ s[i].compressed = e
    BY <2>2 DEF c, e
  <2>4. Word \in Nat \ {0} /\ \A z \in Int : z % Word \in Nat
    BY ConstantsAssumption
  <2>5. ASSUME NEW h \in [size : Nat, compressed : Nat], d = [s EXCEPT ![i] = h] PROVE Goal
    <3>1. h # s[i]
      <4>1. ASSUME h = s[i] PROVE FALSE
        <5>1. s \in Seq(Field)
          BY DEF Written
        <5>2. [s EXCEPT ![i] = s[i]] = s
          BY <2>1, <5>1
        <5>. QED
          BY <2>5, <4>1, <5>2
      <4>. QED
        BY <4>1
    <3>. QED
      BY <2>1, <2>5, <3>1, OtherSize
  <2>6. ASSUME NEW z \in {s[i].size - 1, s[i].size + 1, -s[i].compressed},
               d = [s EXCEPT ![i].size = (z + Word) % Word]
        PROVE  Goal
    <3>. DEFINE v == (z + Word) % Word
    <3>1. v \in Nat
      <4>1. z \in Int
        BY <2>3
      <4>2. z + Word \in Int
        BY <2>4, <4>1
      <4>. QED
        BY <2>4, <4>2
    <3>. HIDE DEF v
    <3>2. d = [s EXCEPT ![i] = [s[i] EXCEPT !.size = v]]
      BY <2>6 DEF v
    <3>3. [s[i] EXCEPT !.size = v] = [size |-> v, compressed |-> e]
      BY <2>3
    <3>4. [size |-> v, compressed |-> e] \in [size : Nat, compressed : Nat]
      BY <2>3, <3>1
    <3>. HIDE DEF Goal
    <3>. QED
      BY <2>5, <3>2, <3>3, <3>4
  <2>7. ASSUME d = [s EXCEPT ![i].compressed = (Word - s[i].size) % Word] PROVE Goal
    <3>. DEFINE v == (Word - s[i].size) % Word
    <3>1. v \in Nat
      <4>1. Word - s[i].size \in Int
        BY <2>3, <2>4
      <4>. QED
        BY <2>4, <4>1
    <3>. HIDE DEF v
    <3>2. d = [s EXCEPT ![i] = [s[i] EXCEPT !.compressed = v]]
      BY <2>7 DEF v
    <3>3. [s[i] EXCEPT !.compressed = v] = [size |-> c, compressed |-> v]
      BY <2>3
    <3>4. [size |-> c, compressed |-> v] \in [size : Nat, compressed : Nat]
      BY <2>3, <3>1
    <3>. HIDE DEF Goal
    <3>. QED
      BY <2>5, <3>2, <3>3, <3>4
  <2>8. \/ \E z \in {s[i].size - 1, s[i].size + 1, -s[i].compressed} :
             d = [s EXCEPT ![i].size = (z + Word) % Word]
        \/ d = [s EXCEPT ![i].compressed = (Word - s[i].size) % Word]
    BY <1>5 DEF Resized
  <2>. HIDE DEF Goal
  <2>. QED
    BY <2>6, <2>7, <2>8
<1>. QED
  BY <1>1, <1>2, <1>3, <1>4, <1>5

---------------------------------------------------------------------------
(* The contents, chunk by chunk.                                           *)

\* f has the contents of the first n chunks at n.
Joins(f) ==
  /\ f[0] = <<>>
  /\ \A n \in 1 .. Len(plain) : f[n] = f[n - 1] \o plain[n]

LEMMA JoinsExist ==
  ASSUME plain \in Seq(Chunks)
  PROVE  \E f \in [0 .. Len(plain) -> Seq(Byte)] : Joins(f)
<1>. DEFINE N == Len(plain)
            Upto(f, m) == f[0] = <<>> /\ \A n \in 1 .. m : f[n] = f[n - 1] \o plain[n]
            Defined == {m \in Nat : m <= N => \E f \in [0 .. m -> Seq(Byte)] : Upto(f, m)}
<1>0. N \in Nat /\ \A n \in 1 .. N : plain[n] \in Seq(Byte)
  BY ChunkType
<1>. HIDE DEF N
<1>1. 0 \in Defined
  <2>. DEFINE f == [n \in 0 .. 0 |-> <<>>]
  <2>1. f \in [0 .. 0 -> Seq(Byte)]
    BY EmptySeq
  <2>2. Upto(f, 0)
    OBVIOUS
  <2>. HIDE DEF f, Upto
  <2>. QED
    BY <2>1, <2>2
<1>2. ASSUME NEW m \in Nat, m \in Defined PROVE m + 1 \in Defined
  <2>. HIDE DEF Upto
  <2>. SUFFICES ASSUME m + 1 <= N PROVE \E f \in [0 .. m + 1 -> Seq(Byte)] : Upto(f, m + 1)
    OBVIOUS
  <2>1. m <= N /\ m + 1 \in 1 .. N
    BY <1>0
  <2>2. PICK f \in [0 .. m -> Seq(Byte)] : Upto(f, m)
    BY <1>2, <2>1
  <2>. USE DEF Upto
  <2>. DEFINE g == [n \in 0 .. m + 1 |-> IF n = m + 1 THEN f[m] \o plain[m + 1] ELSE f[n]]
  <2>3. f[m] \o plain[m + 1] \in Seq(Byte)
    <3>1. f[m] \in Seq(Byte) /\ plain[m + 1] \in Seq(Byte)
      BY <1>0, <2>1
    <3>. QED
      BY <3>1, ConcatProperties
  <2>4. g \in [0 .. m + 1 -> Seq(Byte)]
    BY <2>3
  <2>5. \A n \in 0 .. m : g[n] = f[n]
    OBVIOUS
  <2>6. g[m + 1] = f[m] \o plain[m + 1]
    OBVIOUS
  <2>. HIDE DEF g
  <2>7. g[0] = <<>>
    BY <2>2, <2>5
  <2>8. ASSUME NEW n \in 1 .. m + 1 PROVE g[n] = g[n - 1] \o plain[n]
    <3>1. CASE n = m + 1
      <4>1. n - 1 = m /\ m \in 0 .. m
        BY <3>1
      <4>. QED
        BY <2>5, <2>6, <3>1, <4>1
    <3>2. CASE n # m + 1
      <4>1. n \in 1 .. m /\ n \in 0 .. m /\ n - 1 \in 0 .. m
        BY <3>2
      <4>. QED
        BY <2>2, <2>5, <4>1
    <3>. QED
      BY <3>1, <3>2
  <2>9. Upto(g, m + 1)
    BY <2>7, <2>8
  <2>. HIDE DEF Upto
  <2>. QED
    BY <2>4, <2>9
<1>3. N \in Defined
  <2>. HIDE DEF Defined
  <2>. QED
    BY <1>0, <1>1, <1>2, Induction
<1>4. \E f \in [0 .. N -> Seq(Byte)] : Upto(f, N)
  <2>. HIDE DEF Upto
  <2>. QED
    BY <1>0, <1>3
<1>. QED
  BY <1>4 DEF Joins, N

LEMMA WholeIs ==
  ASSUME plain \in Seq(Chunks), NEW f \in [0 .. Len(plain) -> Seq(Byte)], Joins(f)
  PROVE  Whole = f[Len(plain)]
<1>. DEFINE N == Len(plain)
            Is(g) == g = [i \in 1 .. N |-> IF i = 1 THEN plain[i] ELSE g[i - 1] \o plain[i]]
            flatten == CHOOSE g : Is(g)
<1>0. N \in Nat /\ f[0] = <<>> /\ \A n \in 1 .. N : f[n] = f[n - 1] \o plain[n]
  <2>1. N \in Nat
    OBVIOUS
  <2>. QED
    BY ONLY <2>1, Joins(f) DEF Joins
<1>1. CASE N = 0
  <2>1. Whole = plain
    BY <1>1 DEF Whole, FlattenSeq
  <2>2. plain = <<>>
    BY <1>1, EmptySeq
  <2>. QED
    BY <1>0, <1>1, <2>1, <2>2
<1>2. CASE N # 0
  <2>0. N \in 1 .. N /\ 1 \in 1 .. N
    BY <1>0, <1>2
  <2>1. f[1] = plain[1]
    <3>0. 1 - 1 = 0
      OBVIOUS
    <3>1. f[1] = f[1 - 1] \o plain[1]
      BY ONLY <1>0, <2>0
    <3>2. plain[1] \in Seq(Byte)
      BY <2>0, ChunkType
    <3>. QED
      BY <1>0, <3>0, <3>1, <3>2, ConcatEmptySeq
  <2>2. \E g : Is(g)
    <3>. DEFINE g == [i \in 1 .. N |-> f[i]]
    <3>1. ASSUME NEW i \in 1 .. N PROVE g[i] = IF i = 1 THEN plain[i] ELSE g[i - 1] \o plain[i]
      <4>1. CASE i = 1
        BY <2>1, <4>1
      <4>2. CASE i # 1
        <5>1. i - 1 \in 1 .. N
          BY <1>0, <4>2
        <5>2. g[i] = f[i] /\ g[i - 1] = f[i - 1]
          BY <5>1
        <5>. QED
          BY <1>0, <4>2, <5>2
      <4>. QED
        BY <4>1, <4>2
    <3>2. Is(g)
      BY <3>1
    <3>. HIDE DEF g, Is
    <3>. QED
      BY <3>2
  <2>3. Is(flatten)
    <3>. HIDE DEF Is
    <3>. QED
      BY <2>2
  <2>4. Whole = flatten[N]
    BY <1>2 DEF Whole, FlattenSeq
  <2>. HIDE DEF flatten
  <2>. DEFINE Same == {n \in Nat : n < N => flatten[n + 1] = f[n + 1]}
  <2>5. 0 \in Same
    BY <2>0, <2>1, <2>3
  <2>6. ASSUME NEW n \in Nat, n \in Same PROVE n + 1 \in Same
    <3>. SUFFICES ASSUME n + 1 < N PROVE flatten[(n + 1) + 1] = f[(n + 1) + 1]
      OBVIOUS
    <3>1. n < N /\ (n + 1) + 1 \in 1 .. N /\ (n + 1) + 1 # 1 /\ ((n + 1) + 1) - 1 = n + 1
      BY <1>0
    <3>2. flatten[(n + 1) + 1] = flatten[n + 1] \o plain[(n + 1) + 1]
      BY <2>3, <3>1
    <3>3. f[(n + 1) + 1] = f[n + 1] \o plain[(n + 1) + 1]
      BY <1>0, <3>1
    <3>. QED
      BY <2>6, <3>1, <3>2, <3>3
  <2>7. N - 1 \in Nat
    BY <1>0, <1>2
  <2>8. N - 1 \in Same
    <3>. HIDE DEF Same, N
    <3>. QED
      BY <2>5, <2>6, <2>7, Induction
  <2>9. N - 1 < N /\ (N - 1) + 1 = N
    BY <1>0
  <2>. HIDE DEF N
  <2>10. flatten[N] = f[N]
    BY <2>7, <2>8, <2>9
  <2>. QED
    BY <2>4, <2>10 DEF N
<1>. QED
  BY <1>1, <1>2

LEMMA CutsExist ==
  ASSUME plain \in Seq(Chunks)
  PROVE  Whole \in Seq(Byte) /\ \E end \in [0 .. Len(plain) -> Nat] : Cuts(end)
<1>. DEFINE N == Len(plain)
<1>1. PICK f \in [0 .. N -> Seq(Byte)] : Joins(f)
  BY JoinsExist
<1>2. Whole = f[N]
  BY <1>1, WholeIs
<1>3. N \in Nat /\ f[0] = <<>> /\ \A n \in 1 .. N : f[n] = f[n - 1] \o plain[n]
  <2>1. N \in Nat
    OBVIOUS
  <2>. QED
    BY ONLY <1>1, <2>1 DEF Joins
<1>4. \A n \in 0 .. N : f[n] \in Seq(Byte) /\ Len(f[n]) \in Nat
  BY <1>1
<1>5. ASSUME NEW n \in 1 .. N
      PROVE  /\ n - 1 \in 0 .. N /\ n \in 0 .. N /\ Len(f[n]) = Len(f[n - 1]) + Len(plain[n])
             /\ Len(plain[n]) \in Nat
             /\ \A i \in 1 .. Len(f[n]) :
                  f[n][i] = IF i <= Len(f[n - 1]) THEN f[n - 1][i] ELSE plain[n][i - Len(f[n - 1])]
  <2>1. n - 1 \in 0 .. N /\ n \in 0 .. N
    BY <1>3
  <2>2. f[n - 1] \in Seq(Byte) /\ plain[n] \in Seq(Byte) /\ Len(plain[n]) \in Nat
    BY <1>4, <2>1, ChunkType
  <2>. DEFINE x == f[n - 1]
              y == plain[n]
  <2>3. f[n] = x \o y
    BY <1>3
  <2>. HIDE DEF x, y
  <2>4. /\ Len(x \o y) = Len(x) + Len(y)
        /\ \A i \in 1 .. Len(x) + Len(y) : (x \o y)[i] = IF i <= Len(x) THEN x[i] ELSE y[i - Len(x)]
    BY <2>2, ConcatProperties DEF x, y
  <2>5. /\ Len(f[n]) = Len(x) + Len(y)
        /\ \A i \in 1 .. Len(f[n]) : f[n][i] = IF i <= Len(x) THEN x[i] ELSE y[i - Len(x)]
    BY <2>3, <2>4
  <2>. QED
    BY <2>1, <2>2, <2>5 DEF x, y
<1>. DEFINE Grown(m) == \A n \in 0 .. m :
              Len(f[n]) <= Len(f[m]) /\ \A i \in 1 .. Len(f[n]) : f[m][i] = f[n][i]
            Grows == {m \in Nat : m <= N => Grown(m)}
<1>. HIDE DEF N
<1>6. 0 \in Grows
  BY <1>3, <1>4
<1>7. ASSUME NEW m \in Nat, m \in Grows PROVE m + 1 \in Grows
  <2>. SUFFICES ASSUME m + 1 <= N, NEW n \in 0 .. m + 1
                PROVE  /\ Len(f[n]) <= Len(f[m + 1])
                       /\ \A i \in 1 .. Len(f[n]) : f[m + 1][i] = f[n][i]
    OBVIOUS
  <2>1. m <= N /\ m + 1 \in 1 .. N /\ (m + 1) - 1 = m /\ m \in 0 .. N /\ m + 1 \in 0 .. N
    BY <1>3
  <2>2. CASE n = m + 1
    BY <1>4, <2>1, <2>2
  <2>3. CASE n # m + 1
    <3>1. n \in 0 .. m /\ n \in 0 .. N
      BY <1>3, <2>1, <2>3
    <3>2. Len(f[n]) <= Len(f[m]) /\ \A i \in 1 .. Len(f[n]) : f[m][i] = f[n][i]
      BY <1>7, <2>1, <3>1
    <3>3. /\ Len(f[m + 1]) = Len(f[m]) + Len(plain[m + 1]) /\ Len(plain[m + 1]) \in Nat
          /\ \A i \in 1 .. Len(f[m + 1]) :
               f[m + 1][i] = IF i <= Len(f[m]) THEN f[m][i] ELSE plain[m + 1][i - Len(f[m])]
      BY <1>5, <2>1
    <3>4. Len(f[n]) \in Nat /\ Len(f[m]) \in Nat
      BY <1>4, <2>1, <3>1
    <3>6. /\ Len(f[n]) <= Len(f[m]) /\ Len(f[m]) <= Len(f[m + 1]) /\ Len(f[n]) <= Len(f[m + 1])
          /\ Len(f[m + 1]) \in Nat
      <4>1. /\ Len(f[n]) <= Len(f[m]) /\ Len(plain[m + 1]) \in Nat
            /\ Len(f[m + 1]) = Len(f[m]) + Len(plain[m + 1])
        BY <3>2, <3>3
      <4>2. \A a, b, c \in Nat : a <= b => b <= b + c /\ a <= b + c /\ b + c \in Nat
        OBVIOUS
      <4>. QED
        BY <3>4, <4>1, <4>2, Zenon
    <3>5. ASSUME NEW i \in 1 .. Len(f[n]) PROVE f[m + 1][i] = f[n][i]
      <4>1. i <= Len(f[m]) /\ i \in 1 .. Len(f[m + 1])
        BY <3>4, <3>6
      <4>. QED
        BY <3>2, <3>3, <4>1
    <3>. QED
      BY <3>5, <3>6
  <2>. QED
    BY <2>2, <2>3
<1>8. Grown(N)
  <2>1. N \in Grows
    <3>. HIDE DEF Grows
    <3>. QED
      BY <1>3, <1>6, <1>7, Induction
  <2>. HIDE DEF Grown
  <2>. QED
    BY <1>3, <2>1
<1>. DEFINE end == [n \in 0 .. N |-> Len(f[n])]
<1>9. end \in [0 .. N -> Nat]
  BY <1>4
<1>10. \A n \in 0 .. N : end[n] = Len(f[n])
  OBVIOUS
<1>. HIDE DEF end
<1>11. end[0] = 0 /\ end[N] = Len(Whole) /\ Whole \in Seq(Byte)
  BY <1>2, <1>3, <1>4, <1>10
<1>12. ASSUME NEW n \in 1 .. N
       PROVE  /\ end[n] = end[n - 1] + Len(plain[n]) /\ end[n] <= Len(Whole)
              /\ \A i \in 1 .. Len(plain[n]) : plain[n][i] = Whole[end[n - 1] + i]
  <2>1. /\ n - 1 \in 0 .. N /\ n \in 0 .. N /\ Len(f[n]) = Len(f[n - 1]) + Len(plain[n])
        /\ Len(plain[n]) \in Nat
        /\ \A i \in 1 .. Len(f[n]) :
             f[n][i] = IF i <= Len(f[n - 1]) THEN f[n - 1][i] ELSE plain[n][i - Len(f[n - 1])]
    BY <1>5
  <2>2. end[n] = Len(f[n]) /\ end[n - 1] = Len(f[n - 1]) /\ Len(f[n - 1]) \in Nat
    BY <1>4, <1>10, <2>1
  <2>3. Len(f[n]) <= Len(Whole) /\ \A i \in 1 .. Len(f[n]) : Whole[i] = f[n][i]
    BY <1>2, <1>8, <2>1
  <2>4. ASSUME NEW i \in 1 .. Len(plain[n]) PROVE plain[n][i] = Whole[end[n - 1] + i]
    <3>. DEFINE j == Len(f[n - 1]) + i
    <3>1. j \in 1 .. Len(f[n]) /\ ~(j <= Len(f[n - 1])) /\ j - Len(f[n - 1]) = i
      BY <2>1, <2>2
    <3>. HIDE DEF j
    <3>2. f[n][j] = plain[n][i] /\ Whole[j] = f[n][j]
      BY <2>1, <2>3, <3>1
    <3>. QED
      BY <2>2, <3>2 DEF j
  <2>. QED
    BY <2>1, <2>2, <2>3, <2>4
<1>13. Cuts(end)
  BY <1>11, <1>12 DEF Cuts, N
<1>. QED
  BY <1>9, <1>11, <1>13 DEF N

LEMMA CutsType ==
  ASSUME plain \in Seq(Chunks), Whole \in Seq(Byte), NEW end \in [0 .. Len(plain) -> Nat], Cuts(end)
  PROVE  /\ \A n \in 0 .. Len(plain) : end[n] \in Nat /\ end[n] <= Len(Whole)
         /\ \A n \in 1 .. Len(plain) : plain[n] = SubSeq(Whole, end[n - 1] + 1, end[n])
<1>0. Len(plain) \in Nat /\ Len(Whole) \in Nat
  OBVIOUS
<1>1. ASSUME NEW n \in 0 .. Len(plain) PROVE end[n] \in Nat /\ end[n] <= Len(Whole)
  <2>1. CASE n = 0
    BY <1>0, <2>1 DEF Cuts
  <2>2. CASE n # 0
    <3>1. n \in 1 .. Len(plain)
      BY <1>0, <2>2
    <3>. QED
      BY <3>1 DEF Cuts
  <2>. QED
    BY <2>1, <2>2
<1>2. ASSUME NEW n \in 1 .. Len(plain) PROVE plain[n] = SubSeq(Whole, end[n - 1] + 1, end[n])
  <2>. DEFINE a == end[n - 1]
              b == end[n]
              x == SubSeq(Whole, a + 1, b)
              c == plain[n]
  <2>1. n - 1 \in 0 .. Len(plain) /\ n \in 0 .. Len(plain)
    BY <1>0
  <2>2. a \in Nat /\ b \in Nat /\ b <= Len(Whole)
    BY <1>1, <2>1
  <2>3. c \in Seq(Byte) /\ Len(c) \in Nat
    BY ChunkType
  <2>4. b = a + Len(c) /\ \A i \in 1 .. Len(c) : c[i] = Whole[a + i]
    BY DEF Cuts
  <2>. HIDE DEF a, b, c
  <2>5. /\ x \in Seq(Byte) /\ Len(x) = (IF a + 1 <= b THEN b - (a + 1) + 1 ELSE 0)
        /\ \A i \in 1 .. b - (a + 1) + 1 : x[i] = Whole[(a + 1) + i - 1]
    <3>1. \A i \in a + 1 .. b : Whole[i] \in Byte
      BY <1>0, <2>2, ElementOfSeq
    <3>. QED
      BY <2>2, <3>1, SubSeqProperties
  <2>. HIDE DEF x
  <2>6. Len(x) = Len(c)
    BY <2>2, <2>3, <2>4, <2>5
  <2>7. ASSUME NEW i \in 1 .. Len(c) PROVE x[i] = c[i]
    <3>1. i \in 1 .. b - (a + 1) + 1 /\ (a + 1) + i - 1 = a + i
      BY <2>2, <2>3, <2>4
    <3>. QED
      BY <2>4, <2>5, <3>1
  <2>8. x = c
    BY <2>3, <2>5, <2>6, <2>7, SeqEqual
  <2>. QED
    BY <2>8 DEF x, a, b, c
<1>. QED
  BY <1>1, <1>2

---------------------------------------------------------------------------
(* Every step keeps the invariant.                                         *)

\* The layer and its contents stay what they are.
LEMMA Steady ==
  ASSUME UNCHANGED <<plain, damaged>>
  PROVE  /\ Whole' = Whole /\ (\A n : Before(n)' = Before(n))
         /\ \A d, g : Layer(d, g) => Layer(d, g)'
         /\ \A end : Cuts(end) => Cuts(end)'
         /\ Bound' = Bound /\ \A k : Passed(k) => Passed(k)'
<1>0. plain' = plain /\ damaged' = damaged
  OBVIOUS
<1>1. Whole' = Whole
  BY <1>0 DEF Whole
<1>2. ASSUME NEW n PROVE Before(n)' = Before(n)
  BY <1>0 DEF Before
<1>3. ASSUME NEW n, NEW m, NEW h, NEW p, IsBlock(n, m, h, p) PROVE IsBlock(n, m, h, p)'
  BY <1>0, <1>2, <1>3 DEF IsBlock
<1>4. ASSUME NEW d, NEW g, Intact(d, g) PROVE Intact(d, g)'
  BY <1>3, <1>4 DEF Intact
<1>5. ASSUME NEW d, NEW g, Broken(d, g) PROVE Broken(d, g)'
  BY <1>0, <1>2, <1>5 DEF Broken
<1>6. ASSUME NEW d, NEW g, Layer(d, g) PROVE Layer(d, g)'
  BY <1>0, <1>4, <1>5, <1>6 DEF Layer
<1>7. ASSUME NEW end, Cuts(end) PROVE Cuts(end)'
  BY <1>0, <1>1, <1>7 DEF Cuts
<1>8. Bound' = Bound
  BY <1>0 DEF Bound, MayWrap
<1>9. ASSUME NEW k, Passed(k) PROVE Passed(k)'
  BY <1>0, <1>9 DEF Passed, MayWrap
<1>. QED
  BY <1>1, <1>2, <1>6, <1>7, <1>8, <1>9

LEMMA InitHolds == Init => IInv
<1>. SUFFICES ASSUME Init PROVE IInv
  OBVIOUS
<1>. DEFINE N == Len(plain)
<1>1. plain \in Seq(Chunks)
  <2>1. PICK n \in 0 .. MaxBlocks : plain \in [1 .. n -> Chunks]
    BY DEF Init
  <2>2. n \in Nat
    BY ConstantsAssumption
  <2>. QED
    BY <2>1, <2>2, SeqDef
<1>2. Whole \in Seq(Byte)
  BY <1>1, CutsExist
<1>3. PICK end \in [0 .. N -> Nat] : Cuts(end)
  BY <1>1, CutsExist
<1>4. PICK s \in Streams(plain) : \/ stream = s /\ damaged = FALSE
                                  \/ stream \in Damages(s) \ {s} /\ damaged = TRUE
  BY DEF Init
<1>5. Written(s)
  BY <1>1, StreamIs DEF Written
<1>6. N \in Nat
  BY <1>1
<1>7. stream \in Seq(Field) /\ damaged \in BOOLEAN /\ \E g \in 0 .. N : Layer(stream, g)
  <2>1. CASE stream = s /\ damaged = FALSE
    <3>1. Layer(stream, N) /\ stream \in Seq(Field)
      BY <1>5, <2>1 DEF Layer, Written
    <3>. QED
      BY <1>6, <2>1, <3>1
  <2>2. CASE stream \in Damages(s) \ {s} /\ damaged = TRUE
    <3>1. stream \in Seq(Field) /\ \E g \in 0 .. N : Intact(stream, g) /\ Broken(stream, g)
      BY <1>1, <1>5, <2>2, DamageBreaks
    <3>. QED
      BY <2>2, <3>1 DEF Layer
  <2>. QED
    BY <1>4, <2>1, <2>2
<1>8. PICK g \in 0 .. N : Layer(stream, g)
  BY <1>7
<1>9. end[0] = 0 /\ 0 \in 0 .. N /\ Len(Whole) \in Nat
  BY <1>2, <1>3, <1>6 DEF Cuts
<1>10. Reader(stream, g, 0)
  <2>1. SubSeq(stream, 3 * 0 + 1, Len(stream)) = stream
    BY <1>7, SubSeqFull
  <2>2. Before(0 + 1) = <<>>
    BY DEF Before
  <2>3. Passed(0)
    BY DEF Passed
  <2>. QED
    BY <1>6, <1>8, <2>1, <2>2, <2>3 DEF Reader, Init
<1>11. file = [i \in 1 .. Len(Whole) |-> 0] /\ offset = 0 /\ uncompressed = <<>> /\ readerEOF = FALSE
       /\ result = "none"
  BY DEF Init, Whole
<1>12. Output(end, 0)
  <2>1. SubSeq(Whole, 0 + 1, 0) = <<>>
    BY SubSeqEmpty
  <2>2. \A i \in 1 .. Len(Whole) : file[i] = 0 /\ ~(i <= offset)
    BY <1>9, <1>11
  <2>3. offset <= end[0] /\ end[0] - offset < Bound
    BY <1>1, <1>9, <1>11, BoundIs
  <2>. QED
    BY <1>9, <1>11, <2>1, <2>2, <2>3 DEF Output
<1>13. Verdict(end, 0)
  BY <1>11 DEF Verdict
<1>14. Types
  <2>1. file \in [1 .. Len(Whole) -> Byte]
    BY <1>11, ConstantsAssumption
  <2>. QED
    BY <1>1, <1>2, <1>7, <1>11, <2>1 DEF Types
<1>. QED
  BY <1>3, <1>7, <1>8, <1>9, <1>10, <1>12, <1>13, <1>14 DEF IInv, At

\* What is left of the layer, and what is left after the next block.
LEMMA Rest ==
  ASSUME NEW d \in Seq(Field), NEW k \in Nat, 3 * k <= Len(d), NEW s, s = SubSeq(d, 3 * k + 1, Len(d))
  PROVE  /\ s \in Seq(Field) /\ Len(s) = Len(d) - 3 * k
         /\ \A i \in 1 .. Len(d) - 3 * k : s[i] = d[3 * k + i]
         /\ Len(s) >= 3 => SubSeq(s, 4, Len(s)) = SubSeq(d, 3 * (k + 1) + 1, Len(d))
<1>. DEFINE L == Len(d)
            a == 3 * k + 1
<1>0. L \in Nat /\ a \in Nat /\ a <= L + 1
  OBVIOUS
<1>1. \A i \in 1 .. L : d[i] \in Field
  BY ElementOfSeq
<1>2. /\ s \in Seq(Field) /\ Len(s) = (IF a <= L THEN L - a + 1 ELSE 0)
      /\ \A i \in 1 .. L - a + 1 : s[i] = d[a + i - 1]
  <2>1. \A i \in a .. L : d[i] \in Field
    BY <1>0, <1>1
  <2>. DEFINE x == SubSeq(d, a, L)
  <2>2. s = x
    OBVIOUS
  <2>3. a \in Int /\ L \in Int
    BY <1>0
  <2>. HIDE DEF a, L
  <2>4. /\ x \in Seq(Field) /\ Len(x) = (IF a <= L THEN L - a + 1 ELSE 0)
        /\ \A i \in 1 .. L - a + 1 : x[i] = d[a + i - 1]
    BY ONLY <2>1, <2>3, SubSeqProperties
  <2>. HIDE DEF x
  <2>. QED
    BY <2>2, <2>4
<1>3. Len(s) = L - 3 * k /\ \A i \in 1 .. L - 3 * k : s[i] = d[3 * k + i]
  <2>1. Len(s) = L - 3 * k
    <3>1. a = 3 * k + 1 /\ 3 * k \in Nat /\ Len(s) = (IF a <= L THEN L - a + 1 ELSE 0)
      BY <1>2
    <3>. HIDE DEF L, a
    <3>. QED
      BY ONLY <1>0, <3>1
  <2>2. ASSUME NEW i \in 1 .. L - 3 * k PROVE s[i] = d[3 * k + i]
    <3>1. i \in 1 .. L - a + 1 /\ a + i - 1 = 3 * k + i
      BY <1>0
    <3>. QED
      BY <1>2, <3>1
  <2>. QED
    BY <2>1, <2>2
<1>4. ASSUME Len(s) >= 3 PROVE SubSeq(s, 4, Len(s)) = SubSeq(d, 3 * (k + 1) + 1, L)
  <2>. DEFINE b == 3 * (k + 1) + 1
              x == SubSeq(s, 4, Len(s))
              y == SubSeq(d, b, L)
  <2>0. b \in Nat /\ b = 3 * k + 4 /\ b <= L + 1 /\ Len(s) \in Nat
    BY <1>0, <1>3, <1>4
  <2>1. /\ x \in Seq(Field) /\ Len(x) = (IF 4 <= Len(s) THEN Len(s) - 4 + 1 ELSE 0)
        /\ \A i \in 1 .. Len(s) - 4 + 1 : x[i] = s[4 + i - 1]
    <3>1. \A i \in 4 .. Len(s) : s[i] \in Field
      BY <1>2, <2>0, ElementOfSeq
    <3>. QED
      BY <2>0, <3>1, SubSeqProperties
  <2>2. /\ y \in Seq(Field) /\ Len(y) = (IF b <= L THEN L - b + 1 ELSE 0)
        /\ \A i \in 1 .. L - b + 1 : y[i] = d[b + i - 1]
    <3>. HIDE DEF b, L
    <3>1. \A i \in b .. L : d[i] \in Field
      BY <1>0, <1>1, <2>0
    <3>. QED
      BY <1>0, <2>0, <3>1, SubSeqProperties
  <2>. HIDE DEF x, y, b, L
  <2>3. Len(x) = Len(y)
    BY <1>0, <1>3, <2>0, <2>1, <2>2
  <2>4. ASSUME NEW i \in 1 .. Len(x) PROVE x[i] = y[i]
    <3>0. /\ Len(s) = L - 3 * k /\ 3 * k \in Nat /\ b = 3 * k + 4
          /\ Len(x) = (IF 4 <= Len(s) THEN Len(s) - 4 + 1 ELSE 0)
      BY <1>3, <2>0, <2>1
    <3>1. /\ i \in 1 .. Len(s) - 4 + 1 /\ i \in 1 .. L - b + 1
          /\ 4 + i - 1 \in 1 .. L - 3 * k /\ 3 * k + (4 + i - 1) = b + i - 1
      BY ONLY <1>0, <2>0, <3>0, i \in 1 .. Len(x)
    <3>2. s[4 + i - 1] = d[3 * k + (4 + i - 1)]
      BY <1>3, <3>1
    <3>. QED
      BY <2>1, <2>2, <3>1, <3>2
  <2>5. x = y
    BY <2>1, <2>2, <2>3, <2>4, SeqEqual
  <2>. QED
    BY <2>5 DEF x, y, b
<1>. QED
  BY <1>2, <1>3, <1>4

LEMMA ModSmall ==
  ASSUME NEW a \in Nat, NEW w \in Nat, a < w
  PROVE  a % w = a
OBVIOUS

LEMMA ModAtMost ==
  ASSUME NEW a \in Nat, NEW w \in Nat \ {0}
  PROVE  a % w <= a
<1>1. a % w \in Nat /\ a % w < w
  OBVIOUS
<1>2. a < w => a % w = a
  BY ModSmall
<1>. QED
  BY ONLY <1>1, <1>2, a \in Nat, w \in Nat

\* While intact blocks are left, the next one passes or is beyond the limit.
LEMMA NextIsBlock ==
  ASSUME plain \in Seq(Chunks), NEW n \in 1 .. Len(plain), stream \in Seq(Field), Len(stream) >= 3,
         IsBlock(n, stream[1], stream[2], stream[3]), lz4Dict = Before(n)
  PROVE  /\ ~AtEOFMarker /\ BlockData = plain[n]
         /\ GoodBlock => Len(plain[n]) <= Limit \/ MayWrap(plain[n])
         /\ ~GoodBlock =>
              stream[2].size + (IF stream[1] = "bv41" THEN stream[2].compressed ELSE 0) > Limit
<1>. DEFINE c == Len(plain[n])
<1>0. /\ plain[n] \in Seq(Byte) /\ c \in Nat /\ Before(n) \in Seq(Byte)
      /\ Limit \in Nat /\ Word \in Nat \ {0}
  BY ChunkType, ConstantsAssumption
<1>1. CASE stream[1] = "bv4-" /\ stream[2] = [size |-> Len(plain[n])] /\ stream[3] = plain[n]
  <2>1. stream[2].size = c /\ Len(stream[3]) = c
    BY <1>1
  <2>. HIDE DEF c
  <2>2. ~AtEOFMarker /\ BlockData = plain[n]
    BY <1>1 DEF AtEOFMarker, BlockData
  <2>3. GoodBlock <=> c <= Limit
    BY <1>1, <2>1 DEF GoodBlock
  <2>. QED
    BY <1>0, <1>1, <2>1, <2>2, <2>3 DEF c
<1>2. CASE /\ stream[1] = "bv41"
           /\ stream[2] = [size |-> Len(plain[n]), compressed |-> CompressedSize(stream[3])]
           /\ stream[3] \in Payload(Before(n), plain[n])
  <2>. DEFINE z == CompressedSize(stream[3])
  <2>0. z \in Nat /\ z <= c
    BY <1>2, CompressedIs DEF Payload
  <2>. HIDE DEF z
  <2>1. stream[2].size = c /\ stream[2].compressed = z /\ CompressedSize(stream[3]) = z
    BY <1>2 DEF z
  <2>2. Uncompress(stream[3], c, lz4Dict) = <<plain[n]>>
    <3>1. Uncompress(stream[3], c, Before(n)) = IF Len(plain[n]) > c THEN <<>> ELSE <<plain[n]>>
      <4>. HIDE DEF c
      <4>. QED
        BY <1>0, <1>2, UncompressIs
    <3>2. ~(Len(plain[n]) > c)
      BY <1>0
    <3>. QED
      BY <3>1, <3>2
  <2>3. <<plain[n]>>[1] = plain[n] /\ <<plain[n]>> # <<>>
    OBVIOUS
  <2>4. Len(<<plain[n]>>[1]) = c
    BY <2>3
  <2>. HIDE DEF c
  <2>5. ~AtEOFMarker /\ BlockData = plain[n]
    BY <1>2, <2>1, <2>2, <2>3 DEF AtEOFMarker, BlockData
  <2>6. GoodBlock <=> (c + z) % Word <= Limit
    BY <1>2, <2>1, <2>2, <2>3, <2>4 DEF GoodBlock
  <2>7. c + z \in Nat /\ (c + z) % Word <= c + z
    <3>1. c + z \in Nat
      BY <1>0, <2>0
    <3>. QED
      BY <1>0, <3>1, ModAtMost
  <2>8. ASSUME GoodBlock, ~(2 * c >= Word) PROVE c <= Limit
    <3>1. c + z < Word
      BY <1>0, <2>0, <2>8
    <3>2. (c + z) % Word = c + z
      BY <1>0, <2>7, <3>1, ModSmall
    <3>. QED
      BY <1>0, <2>0, <2>6, <2>8, <3>2
  <2>9. ~GoodBlock => stream[2].size + stream[2].compressed > Limit
    <3>1. ASSUME ~GoodBlock PROVE c + z > Limit
      <4>1. ~((c + z) % Word <= Limit)
        BY <2>6, <3>1
      <4>. QED
        BY ONLY <1>0, <2>7, <4>1
    <3>. QED
      BY <2>1, <3>1
  <2>. QED
    BY <1>2, <2>5, <2>8, <2>9 DEF c, MayWrap
<1>. QED
  BY <1>1, <1>2 DEF IsBlock

\* Where the layer is damaged, the reader fails.
LEMMA NextIsBroken ==
  ASSUME plain \in Seq(Chunks), NEW d \in Seq(Field), NEW g \in 0 .. Len(plain), 3 * g <= Len(d),
         Broken(d, g), stream = SubSeq(d, 3 * g + 1, Len(d)), lz4Dict = Before(g + 1)
  PROVE  ~GoodBlock /\ ~AtEOFMarker
<1>1. Len(plain) \in Nat /\ g \in Nat
  OBVIOUS
<1>2. /\ stream \in Seq(Field) /\ Len(stream) = Len(d) - 3 * g
      /\ \A i \in 1 .. Len(d) - 3 * g : stream[i] = d[3 * g + i]
  BY <1>1, Rest
<1>3. Len(d) \in Nat /\ Len(stream) \in Nat
  BY <1>2
<1>4. CASE Len(d) < 3 * g + 3 /\ (Len(d) > 3 * g => d[3 * g + 1] # "bv4$")
  <2>1. ~(Len(stream) >= 3)
    BY <1>1, <1>2, <1>3, <1>4
  <2>2. ASSUME stream # <<>> PROVE stream[1] # "bv4$"
    <3>1. Len(stream) # 0
      BY <1>2, <2>2, EmptySeq
    <3>2. Len(d) > 3 * g /\ 1 \in 1 .. Len(d) - 3 * g
      <4>1. Len(d) - 3 * g # 0 /\ 3 * g <= Len(d)
        BY <1>2, <3>1
      <4>. QED
        BY ONLY <1>1, <1>3, <4>1
    <3>. QED
      BY <1>2, <1>4, <3>2
  <2>. QED
    BY <2>1, <2>2 DEF GoodBlock, AtEOFMarker
<1>5. CASE ~(Len(d) < 3 * g + 3)
  <2>1. /\ stream[1] = d[3 * g + 1] /\ stream[2] = d[3 * g + 2] /\ stream[3] = d[3 * g + 3]
    <3>1. \A i \in {1, 2, 3} : i \in 1 .. Len(d) - 3 * g
      BY <1>1, <1>3, <1>5
    <3>. QED
      BY <1>2, <3>1
  <2>2. CASE stream[1] = "????"
    BY <2>2 DEF GoodBlock, AtEOFMarker
  <2>3. CASE stream[1] = "bv4-" /\ Len(stream[3]) # stream[2].size
    BY <2>3 DEF GoodBlock, AtEOFMarker
  <2>4. CASE stream[1] = "bv41" /\ CompressedSize(stream[3]) # stream[2].compressed
    BY <2>4 DEF GoodBlock, AtEOFMarker
  <2>5. CASE /\ stream[1] = "bv41" /\ g < Len(plain) /\ CompressedSize(stream[3]) = stream[2].compressed
             /\ stream[3] \in Payload(Before(g + 1), plain[g + 1])
             /\ stream[2].size \in Nat \ {Len(plain[g + 1])}
    <3>. DEFINE chunk == plain[g + 1]
                z == stream[2].size
    <3>1. g + 1 \in 1 .. Len(plain)
      BY <1>1, <2>5
    <3>2. chunk \in Seq(Byte) /\ Len(chunk) \in Nat /\ Before(g + 1) \in Seq(Byte)
      BY <3>1, ChunkType
    <3>3. z \in Nat
      BY <2>5
    <3>4. /\ ~GoodBlock /\ ~AtEOFMarker
      <4>1. Uncompress(stream[3], z, lz4Dict) = IF Len(chunk) > z THEN <<>> ELSE <<chunk>>
        <5>. HIDE DEF z, chunk
        <5>1. stream[3] \in Payload(Before(g + 1), chunk)
          BY <2>5 DEF chunk
        <5>. QED
          BY <3>2, <3>3, <5>1, UncompressIs
      <4>2. <<chunk>>[1] = chunk
        OBVIOUS
      <4>. HIDE DEF chunk, z
      <4>3. Len(chunk) # z
        BY <2>5 DEF chunk, z
      <4>4. ~(/\ Uncompress(stream[3], z, lz4Dict) # <<>>
              /\ Len(Uncompress(stream[3], z, lz4Dict)[1]) = z)
        BY <4>1, <4>2, <4>3
      <4>. QED
        BY <2>5, <4>4 DEF GoodBlock, AtEOFMarker, z
    <3>. QED
      BY <3>4
  <2>. QED
    BY <1>5, <2>1, <2>2, <2>3, <2>4, <2>5 DEF Broken
<1>. QED
  BY <1>4, <1>5 DEF Broken

\* What the reader meets next.
LEMMA NextIs ==
  ASSUME Types, NEW d \in Seq(Field), NEW g \in 0 .. Len(plain), NEW k \in 0 .. Len(plain),
         Layer(d, g), Reader(d, g, k), ~readerEOF
  PROVE  /\ GoodBlock => /\ k < g /\ BlockData = plain[k + 1]
                         /\ Len(plain[k + 1]) <= Limit \/ MayWrap(plain[k + 1])
                         /\ SubSeq(stream, 4, Len(stream)) = SubSeq(d, 3 * (k + 1) + 1, Len(d))
         /\ AtEOFMarker => ~damaged /\ k = Len(plain)
         /\ ~GoodBlock /\ ~AtEOFMarker /\ ~damaged =>
              stream[2].size + (IF stream[1] = "bv41" THEN stream[2].compressed ELSE 0) > Limit
<1>0. /\ Len(plain) \in Nat /\ g \in Nat /\ k \in Nat /\ k <= g /\ Len(d) \in Nat
      /\ plain \in Seq(Chunks) /\ 3 * g <= Len(d) /\ Intact(d, g)
      /\ stream = SubSeq(d, 3 * k + 1, Len(d)) /\ lz4Dict = Before(k + 1)
  BY DEF Types, Reader, Layer, Intact
<1>1. 3 * k <= Len(d)
  BY <1>0
<1>2. /\ stream \in Seq(Field) /\ Len(stream) = Len(d) - 3 * k
      /\ \A i \in 1 .. Len(d) - 3 * k : stream[i] = d[3 * k + i]
      /\ Len(stream) >= 3 => SubSeq(stream, 4, Len(stream)) = SubSeq(d, 3 * (k + 1) + 1, Len(d))
  BY <1>0, <1>1, Rest
<1>3. CASE k < g
  <2>1. k + 1 \in 1 .. Len(plain) /\ k + 1 \in 1 .. g /\ Len(d) - 3 * k >= 3
    BY ONLY <1>0, <1>3, g \in 0 .. Len(plain)
  <2>2. Len(stream) >= 3
    BY ONLY <1>2, <2>1
  <2>3. IsBlock(k + 1, stream[1], stream[2], stream[3])
    <3>1. IsBlock(k + 1, d[3 * (k + 1) - 2], d[3 * (k + 1) - 1], d[3 * (k + 1)])
      BY <1>0, <2>1 DEF Intact
    <3>2. /\ 3 * (k + 1) - 2 = 3 * k + 1 /\ 3 * (k + 1) - 1 = 3 * k + 2 /\ 3 * (k + 1) = 3 * k + 3
          /\ 1 \in 1 .. Len(d) - 3 * k /\ 2 \in 1 .. Len(d) - 3 * k /\ 3 \in 1 .. Len(d) - 3 * k
      BY ONLY <1>0, <2>1
    <3>3. stream[1] = d[3 * k + 1] /\ stream[2] = d[3 * k + 2] /\ stream[3] = d[3 * k + 3]
      BY ONLY <1>2, <3>2
    <3>. QED
      BY ONLY <3>1, <3>2, <3>3
  <2>4. /\ ~AtEOFMarker /\ BlockData = plain[k + 1]
        /\ GoodBlock => Len(plain[k + 1]) <= Limit \/ MayWrap(plain[k + 1])
        /\ ~GoodBlock =>
             stream[2].size + (IF stream[1] = "bv41" THEN stream[2].compressed ELSE 0) > Limit
    BY <1>0, <1>2, <2>1, <2>2, <2>3, NextIsBlock
  <2>. QED
    BY <1>2, <1>3, <2>2, <2>4
<1>4. CASE k = g /\ damaged
  <2>1. ~GoodBlock /\ ~AtEOFMarker
    BY <1>0, <1>4, NextIsBroken DEF Layer
  <2>. QED
    BY <1>4, <2>1
<1>5. CASE k = g /\ ~damaged
  <2>1. k = Len(plain) /\ Len(d) - 3 * k = 1 /\ d[3 * k + 1] = "bv4$"
    BY <1>0, <1>5 DEF Layer
  <2>2. Len(stream) = 1 /\ stream[1] = "bv4$" /\ stream # <<>>
    <3>1. 1 \in 1 .. Len(d) - 3 * k
      BY ONLY <2>1
    <3>2. Len(stream) = 1 /\ stream[1] = "bv4$"
      BY ONLY <1>2, <2>1, <3>1
    <3>3. stream # <<>>
      <4>1. ASSUME stream = <<>> PROVE FALSE
        <5>1. Len(stream) = 0
          BY ONLY <4>1
        <5>. QED
          BY ONLY <3>2, <5>1
      <4>. QED
        BY ONLY <4>1
    <3>. QED
      BY ONLY <3>2, <3>3
  <2>3. ~GoodBlock
    BY <2>2 DEF GoodBlock
  <2>4. AtEOFMarker
    BY <2>2 DEF AtEOFMarker
  <2>. QED
    BY <1>5, <2>1, <2>3, <2>4
<1>6. k < g \/ k = g
  BY <1>0
<1>. QED
  BY <1>3, <1>4, <1>5, <1>6, Zenon

\* A read writes the beginning of the buffer behind what is written.
LEMMA DeliverKeeps ==
  ASSUME Types, NEW e \in Nat, offset <= e, e <= Len(Whole), e - offset < Bound + BlockSize,
         \A i \in 1 .. Len(Whole) : file[i] = IF i <= offset THEN Whole[i] ELSE 0,
         NEW buffer, buffer = SubSeq(Whole, offset + 1, e), Deliver(buffer)
  PROVE  /\ offset' \in Nat /\ offset <= offset' /\ offset' <= e /\ e - offset' < Bound
         /\ uncompressed' = SubSeq(Whole, offset' + 1, e)
         /\ file' \in [1 .. Len(Whole) -> Byte]
         /\ \A i \in 1 .. Len(Whole) : file'[i] = IF i <= offset' THEN Whole[i] ELSE 0
         /\ result' = IF offset = e THEN "nil" ELSE "none"
<1>. DEFINE n == IF Len(buffer) < BlockSize THEN Len(buffer) ELSE BlockSize
            W == Len(Whole)
<1>0. /\ Whole \in Seq(Byte) /\ W \in Nat /\ offset \in Nat /\ file \in [1 .. W -> Byte]
      /\ BlockSize \in Nat \ {0} /\ Bound \in Nat \ {0} /\ offset <= e /\ e <= W /\ e \in Nat
  BY ConstantsAssumption, BoundIs DEF Types
<1>. HIDE DEF W
<1>1. \A i \in 1 .. W : Whole[i] \in Byte
  BY <1>0, ElementOfSeq DEF W
<1>2. /\ buffer \in Seq(Byte) /\ Len(buffer) = e - offset
      /\ \A i \in 1 .. e - offset : buffer[i] = Whole[offset + i]
  <2>. DEFINE x == SubSeq(Whole, offset + 1, e)
  <2>0. buffer = x
    OBVIOUS
  <2>1. /\ x \in Seq(Byte) /\ Len(x) = (IF offset + 1 <= e THEN e - (offset + 1) + 1 ELSE 0)
        /\ \A i \in 1 .. e - (offset + 1) + 1 : x[i] = Whole[(offset + 1) + i - 1]
    <3>1. \A i \in offset + 1 .. e : Whole[i] \in Byte
      BY <1>0, <1>1
    <3>2. offset + 1 \in Int /\ e \in Int
      BY <1>0
    <3>. QED
      BY <3>1, <3>2, SubSeqProperties
  <2>. HIDE DEF x
  <2>2. ASSUME NEW i \in 1 .. e - offset PROVE x[i] = Whole[offset + i]
    <3>1. i \in 1 .. e - (offset + 1) + 1 /\ (offset + 1) + i - 1 = offset + i
      BY <1>0
    <3>. QED
      BY <2>1, <3>1
  <2>3. Len(x) = e - offset
    BY ONLY <1>0, <2>1
  <2>. QED
    BY ONLY <2>0, <2>1, <2>2, <2>3
<1>3. /\ n \in Nat /\ n <= e - offset /\ (n = 0 <=> offset = e) /\ e - (offset + n) < Bound
      /\ Len(buffer) \in Nat
  <2>1. e - offset < Bound + BlockSize
    OBVIOUS
  <2>2. n = IF e - offset < BlockSize THEN e - offset ELSE BlockSize
    BY ONLY <1>2
  <2>. HIDE DEF n
  <2>. QED
    BY ONLY <1>0, <1>2, <2>1, <2>2
<1>4. /\ uncompressed' = SubSeq(buffer, n + 1, Len(buffer)) /\ offset' = offset + n
      /\ result' = IF n = 0 THEN "nil" ELSE "none"
      /\ file' = IF \A i \in 1 .. n : buffer[i] = 0 THEN file
                 ELSE [i \in DOMAIN file |->
                         IF i \in offset + 1 .. offset + n THEN buffer[i - offset] ELSE file[i]]
  BY DEF Deliver
<1>. HIDE DEF n
<1>5. uncompressed' = SubSeq(Whole, offset' + 1, e)
  <2>. DEFINE L == Len(buffer)
              a == n + 1
              b == (offset + n) + 1
              x == SubSeq(buffer, a, L)
              y == SubSeq(Whole, b, e)
  <2>0. a \in Nat /\ b \in Nat /\ L \in Nat /\ L = e - offset /\ b = offset + a /\ a >= 1 /\ a <= L + 1
    BY ONLY <1>0, <1>2, <1>3, <1>4
  <2>. HIDE DEF a, b, L
  <2>1. /\ x \in Seq(Byte) /\ Len(x) = (IF a <= L THEN L - a + 1 ELSE 0)
        /\ \A i \in 1 .. L - a + 1 : x[i] = buffer[a + i - 1]
    <3>1. \A i \in a .. L : buffer[i] \in Byte
      BY <1>2, <2>0, ElementOfSeq DEF L
    <3>2. a \in Int /\ L \in Int
      BY <2>0
    <3>. QED
      BY ONLY <3>1, <3>2, SubSeqProperties
  <2>2. /\ y \in Seq(Byte) /\ Len(y) = (IF b <= e THEN e - b + 1 ELSE 0)
        /\ \A i \in 1 .. e - b + 1 : y[i] = Whole[b + i - 1]
    <3>1. \A i \in b .. e : Whole[i] \in Byte
      BY <1>0, <1>1, <2>0
    <3>2. b \in Int /\ e \in Int
      BY <2>0
    <3>. QED
      BY <3>1, <3>2, SubSeqProperties
  <2>. HIDE DEF x, y
  <2>3. Len(x) = Len(y)
    BY ONLY <1>0, <2>0, <2>1, <2>2
  <2>4. ASSUME NEW i \in 1 .. Len(x) PROVE x[i] = y[i]
    <3>1. /\ i \in 1 .. L - a + 1 /\ i \in 1 .. e - b + 1 /\ a + i - 1 \in 1 .. e - offset
          /\ offset + (a + i - 1) = b + i - 1
      BY ONLY <1>0, <2>0, <2>1, i \in 1 .. Len(x)
    <3>2. buffer[a + i - 1] = Whole[offset + (a + i - 1)]
      BY ONLY <1>2, <3>1
    <3>. QED
      BY ONLY <2>1, <2>2, <3>1, <3>2
  <2>5. x = y
    BY <2>1, <2>2, <2>3, <2>4, SeqEqual
  <2>. QED
    BY ONLY <1>4, <2>5 DEF x, y, a, b, L
<1>6. ASSUME NEW i \in 1 .. W
      PROVE  file'[i] \in Byte /\ file'[i] = IF i <= offset' THEN Whole[i] ELSE 0
  <2>1. file[i] = (IF i <= offset THEN Whole[i] ELSE 0) /\ file[i] \in Byte /\ Whole[i] \in Byte
    BY <1>0, <1>1 DEF W
  <2>2. i \in DOMAIN file
    BY <1>0
  <2>3. CASE i \in offset + 1 .. offset + n
    <3>1. i - offset \in 1 .. n /\ i - offset \in 1 .. e - offset /\ offset + (i - offset) = i
      BY ONLY <1>0, <1>3, <2>3, i \in 1 .. W
    <3>2. buffer[i - offset] = Whole[i]
      BY ONLY <1>2, <3>1
    <3>3. i <= offset' /\ ~(i <= offset)
      BY ONLY <1>0, <1>3, <1>4, <2>3, i \in 1 .. W
    <3>4. CASE \A j \in 1 .. n : buffer[j] = 0
      <4>1. file' = file /\ Whole[i] = 0
        BY <1>4, <3>1, <3>2, <3>4
      <4>. QED
        BY <2>1, <3>3, <4>1
    <3>5. CASE ~(\A j \in 1 .. n : buffer[j] = 0)
      <4>1. file'[i] = buffer[i - offset]
        BY <1>4, <2>2, <2>3, <3>5
      <4>. QED
        BY <2>1, <3>2, <3>3, <4>1
    <3>. QED
      BY <3>4, <3>5
  <2>4. CASE i \notin offset + 1 .. offset + n
    <3>1. file'[i] = file[i]
      BY <1>4, <2>2, <2>4
    <3>2. i <= offset' <=> i <= offset
      BY ONLY <1>0, <1>3, <1>4, <2>4, i \in 1 .. W
    <3>. QED
      BY <2>1, <3>1, <3>2
  <2>. QED
    BY <2>3, <2>4
<1>7. file' \in [1 .. W -> Byte]
  <2>1. DOMAIN file = 1 .. W
    BY <1>0
  <2>2. file' = [i \in 1 .. W |-> file'[i]]
    BY <1>0, <1>4, <2>1
  <2>. QED
    BY <1>6, <2>2
<1>8. offset' \in Nat /\ offset <= offset' /\ offset' <= e /\ e - offset' < Bound
  BY ONLY <1>0, <1>3, <1>4
<1>9. result' = IF offset = e THEN "nil" ELSE "none"
  BY ONLY <1>3, <1>4
<1>. QED
  BY ONLY <1>5, <1>6, <1>7, <1>8, <1>9 DEF W

\* The parts of the invariant in the next state, once the layer is unchanged.
LEMMA Composed ==
  ASSUME UNCHANGED <<plain, damaged>>, Types, NEW d \in Seq(Field), NEW g \in 0 .. Len(plain),
         NEW k \in 0 .. Len(plain), NEW end \in [0 .. Len(plain) -> Nat], Layer(d, g), Cuts(end),
         readerEOF' \in BOOLEAN, offset' \in Nat, file' \in [1 .. Len(Whole) -> Byte],
         result' \in {"none", "nil", "error"}, Reader(d, g, k)', Output(end, k)', Verdict(end, k)'
  PROVE  IInv'
<1>1. plain' = plain /\ damaged' = damaged /\ Whole' = Whole
  BY Steady
<1>2. Layer(d, g)' /\ Cuts(end)'
  BY Steady
<1>3. Types'
  BY <1>1 DEF Types
<1>. QED
  BY <1>1, <1>2, <1>3 DEF IInv, At

\* The output after a read from a buffer with everything up to the end of block k.
LEMMA DeliverOutput ==
  ASSUME Types, UNCHANGED <<plain, damaged>>, NEW end \in [0 .. Len(plain) -> Nat], Cuts(end),
         NEW k \in 0 .. Len(plain), offset <= end[k], end[k] - offset < Bound + BlockSize,
         \A i \in 1 .. Len(Whole) : file[i] = IF i <= offset THEN Whole[i] ELSE 0,
         NEW buffer, buffer = SubSeq(Whole, offset + 1, end[k]), Deliver(buffer)
  PROVE  /\ offset' \in Nat /\ offset <= offset' /\ offset' <= end[k]
         /\ file' \in [1 .. Len(Whole) -> Byte] /\ Output(end, k)'
         /\ result' = IF offset = end[k] THEN "nil" ELSE "none"
<1>1. plain \in Seq(Chunks) /\ Whole \in Seq(Byte)
  BY DEF Types
<1>2. end[k] \in Nat /\ end[k] <= Len(Whole)
  BY <1>1, CutsType
<1>. DEFINE e == end[k]
<1>. HIDE DEF e
<1>3. /\ e \in Nat /\ offset <= e /\ e <= Len(Whole) /\ e - offset < Bound + BlockSize
      /\ buffer = SubSeq(Whole, offset + 1, e)
  BY <1>2 DEF e
<1>4. /\ offset' \in Nat /\ offset <= offset' /\ offset' <= e /\ e - offset' < Bound
      /\ uncompressed' = SubSeq(Whole, offset' + 1, e)
      /\ file' \in [1 .. Len(Whole) -> Byte]
      /\ \A i \in 1 .. Len(Whole) : file'[i] = IF i <= offset' THEN Whole[i] ELSE 0
      /\ result' = IF offset = e THEN "nil" ELSE "none"
  BY <1>3, DeliverKeeps
<1>5. Whole' = Whole /\ Bound' = Bound
  BY Steady
<1>. QED
  BY <1>4, <1>5 DEF Output, e

\* What a step that delivers does: the file grows to another beginning of the
\* contents, and the copy ends only with all that was read.
Delivering ==
  /\ offset' \in Nat /\ offset <= offset'
  /\ result' \in {"none", "nil"} /\ (result' = "nil" => offset' = offset)

LEMMA ReadBufferedKeeps == ASSUME IInv, ReadBuffered PROVE IInv' /\ Delivering
<1>1. PICK d \in Seq(Field), end \in [0 .. Len(plain) -> Nat], g \in 0 .. Len(plain),
           k \in 0 .. Len(plain) : Layer(d, g) /\ Cuts(end) /\ At(d, g, end, k)
  BY DEF IInv
<1>2. /\ Types /\ UNCHANGED <<plain, damaged>> /\ result = "none" /\ UNCHANGED <<stream, lz4Dict, readerEOF>>
      /\ Deliver(uncompressed) /\ (Len(uncompressed) >= BlockSize \/ readerEOF)
  BY DEF IInv, ReadBuffered
<1>3. Reader(d, g, k) /\ Output(end, k)
  BY <1>1 DEF At
<1>4. plain \in Seq(Chunks) /\ Whole \in Seq(Byte) /\ BlockSize \in Nat \ {0} /\ Bound \in Nat /\ offset \in Nat
  BY <1>2, ConstantsAssumption, BoundIs DEF Types
<1>5. end[k] \in Nat
  OBVIOUS
<1>6. /\ offset <= end[k] /\ end[k] - offset < Bound + BlockSize
      /\ \A i \in 1 .. Len(Whole) : file[i] = IF i <= offset THEN Whole[i] ELSE 0
      /\ uncompressed = SubSeq(Whole, offset + 1, end[k])
  <2>1. /\ offset <= end[k] /\ end[k] - offset < Bound
        /\ \A i \in 1 .. Len(Whole) : file[i] = IF i <= offset THEN Whole[i] ELSE 0
        /\ uncompressed = SubSeq(Whole, offset + 1, end[k])
    BY <1>3 DEF Output
  <2>2. end[k] - offset < Bound + BlockSize
    BY ONLY <1>4, <1>5, <2>1
  <2>. QED
    BY <2>1, <2>2
<1>7. /\ offset' \in Nat /\ offset <= offset' /\ offset' <= end[k]
      /\ file' \in [1 .. Len(Whole) -> Byte] /\ Output(end, k)'
      /\ result' = IF offset = end[k] THEN "nil" ELSE "none"
  BY ONLY <1>1, <1>2, <1>6, DeliverOutput
<1>8. offset = end[k] => readerEOF
  <2>1. ASSUME offset = end[k] PROVE Len(uncompressed) = 0
    <3>1. end[k] < offset + 1
      BY <1>4, <2>1
    <3>2. uncompressed = <<>>
      BY <1>4, <1>5, <1>6, <3>1, SubSeqEmpty
    <3>. QED
      BY <3>2
  <2>. QED
    BY <1>2, <1>4, <2>1
<1>9. Reader(d, g, k)'
  <2>1. Before(k + 1)' = Before(k + 1) /\ (Passed(k) => Passed(k)')
    BY <1>2, Steady
  <2>. QED
    BY <1>2, <1>3, <2>1 DEF Reader
<1>10. Verdict(end, k)' /\ (result' = "nil" => offset' = offset)
  <2>1. result' = "nil" => offset = end[k] /\ readerEOF'
    BY <1>2, <1>7, <1>8
  <2>2. result' = "nil" => offset' = end[k]
    BY ONLY <1>4, <1>5, <1>7, <2>1
  <2>3. result' # "error"
    BY <1>7
  <2>. QED
    BY <2>1, <2>2, <2>3 DEF Verdict
<1>11. readerEOF' \in BOOLEAN /\ result' \in {"none", "nil", "error"} /\ result' \in {"none", "nil"}
  BY <1>2, <1>7 DEF Types
<1>. QED
  BY <1>1, <1>2, <1>7, <1>9, <1>10, <1>11, Composed DEF Delivering

LEMMA ReadEOFKeeps == ASSUME IInv, ReadEOF PROVE IInv' /\ Delivering
<1>1. PICK d \in Seq(Field), end \in [0 .. Len(plain) -> Nat], g \in 0 .. Len(plain),
           k \in 0 .. Len(plain) : Layer(d, g) /\ Cuts(end) /\ At(d, g, end, k)
  BY DEF IInv
<1>2. /\ Types /\ UNCHANGED <<plain, damaged>> /\ result = "none" /\ lz4Dict' = lz4Dict /\ ~readerEOF
      /\ readerEOF' = TRUE /\ AtEOFMarker /\ Deliver(uncompressed)
  BY DEF IInv, ReadEOF
<1>3. Reader(d, g, k) /\ Output(end, k)
  BY <1>1 DEF At
<1>4. plain \in Seq(Chunks) /\ Whole \in Seq(Byte) /\ BlockSize \in Nat \ {0} /\ Bound \in Nat /\ offset \in Nat
  BY <1>2, ConstantsAssumption, BoundIs DEF Types
<1>5. end[k] \in Nat
  OBVIOUS
<1>6. /\ offset <= end[k] /\ end[k] - offset < Bound + BlockSize
      /\ \A i \in 1 .. Len(Whole) : file[i] = IF i <= offset THEN Whole[i] ELSE 0
      /\ uncompressed = SubSeq(Whole, offset + 1, end[k])
  <2>1. /\ offset <= end[k] /\ end[k] - offset < Bound
        /\ \A i \in 1 .. Len(Whole) : file[i] = IF i <= offset THEN Whole[i] ELSE 0
        /\ uncompressed = SubSeq(Whole, offset + 1, end[k])
    BY <1>3 DEF Output
  <2>2. end[k] - offset < Bound + BlockSize
    BY ONLY <1>4, <1>5, <2>1
  <2>. QED
    BY <2>1, <2>2
<1>7. /\ offset' \in Nat /\ offset <= offset' /\ offset' <= end[k]
      /\ file' \in [1 .. Len(Whole) -> Byte] /\ Output(end, k)'
      /\ result' = IF offset = end[k] THEN "nil" ELSE "none"
  BY ONLY <1>1, <1>2, <1>6, DeliverOutput
<1>8. ~damaged /\ k = Len(plain)
  BY <1>1, <1>2, <1>3, NextIs
<1>9. Reader(d, g, k)'
  <2>1. Before(k + 1)' = Before(k + 1) /\ (Passed(k) => Passed(k)')
    BY <1>2, Steady
  <2>. QED
    BY <1>2, <1>3, <1>8, <2>1 DEF Reader
<1>10. Verdict(end, k)' /\ (result' = "nil" => offset' = offset)
  <2>1. result' = "nil" => offset = end[k] /\ readerEOF'
    BY <1>2, <1>7
  <2>2. result' = "nil" => offset' = end[k]
    BY ONLY <1>4, <1>5, <1>7, <2>1
  <2>3. result' # "error"
    BY <1>7
  <2>. QED
    BY <2>1, <2>2, <2>3 DEF Verdict
<1>11. readerEOF' \in BOOLEAN /\ result' \in {"none", "nil", "error"} /\ result' \in {"none", "nil"}
  BY <1>2, <1>7 DEF Types
<1>. QED
  BY <1>1, <1>2, <1>7, <1>9, <1>10, <1>11, Composed DEF Delivering

LEMMA ReadBlockKeeps == ASSUME IInv, ReadBlock PROVE IInv' /\ Delivering
<1>1. PICK d \in Seq(Field), end \in [0 .. Len(plain) -> Nat], g \in 0 .. Len(plain),
           k \in 0 .. Len(plain) : Layer(d, g) /\ Cuts(end) /\ At(d, g, end, k)
  BY DEF IInv
<1>2. /\ Types /\ UNCHANGED <<plain, damaged>> /\ result = "none" /\ ~readerEOF /\ readerEOF' = readerEOF
      /\ Len(uncompressed) < BlockSize /\ GoodBlock /\ stream' = SubSeq(stream, 4, Len(stream))
      /\ lz4Dict' = BlockData /\ Deliver(uncompressed \o BlockData)
  BY DEF IInv, ReadBlock
<1>3. Reader(d, g, k) /\ Output(end, k)
  BY <1>1 DEF At
<1>4. /\ plain \in Seq(Chunks) /\ Whole \in Seq(Byte) /\ BlockSize \in Nat \ {0} /\ Bound \in Nat
      /\ offset \in Nat /\ Len(Whole) \in Nat /\ Len(plain) \in Nat
  BY <1>2, ConstantsAssumption, BoundIs DEF Types
<1>5. /\ k < g /\ BlockData = plain[k + 1]
      /\ Len(plain[k + 1]) <= Limit \/ MayWrap(plain[k + 1])
      /\ SubSeq(stream, 4, Len(stream)) = SubSeq(d, 3 * (k + 1) + 1, Len(d))
  BY <1>1, <1>2, <1>3, NextIs
<1>. DEFINE m == k + 1
            a == end[k]
            e == end[m]
<1>6. m \in 1 .. Len(plain) /\ m \in 0 .. Len(plain) /\ m - 1 = k /\ m <= g /\ m # 1 - 1
  BY ONLY <1>4, <1>5, k \in 0 .. Len(plain), g \in 0 .. Len(plain)
<1>. HIDE DEF m
<1>7. /\ a \in Nat /\ e \in Nat /\ a <= Len(Whole) /\ e <= Len(Whole)
      /\ plain[m] = SubSeq(Whole, a + 1, e) /\ e = a + Len(plain[m])
      /\ plain[m] \in Seq(Byte) /\ Len(plain[m]) \in Nat /\ Len(plain[m]) <= Bound
  <2>1. e = a + Len(plain[m])
    BY <1>1, <1>6 DEF Cuts
  <2>2. plain[m] \in Seq(Byte) /\ Len(plain[m]) \in Nat
    BY <1>4, <1>6, ChunkType
  <2>3. plain[m] = SubSeq(Whole, end[m - 1] + 1, e)
    BY <1>1, <1>4, <1>6, CutsType
  <2>4. a \in Nat /\ e \in Nat /\ a <= Len(Whole) /\ e <= Len(Whole)
    BY <1>1, <1>4, <1>6, CutsType
  <2>5. Len(plain[m]) <= Bound
    <3>1. Len(plain[m]) <= Limit \/ MayWrap(plain[m])
      BY <1>5 DEF m
    <3>. QED
      BY <1>4, <1>6, <3>1, BoundIs
  <2>. QED
    BY <1>6, <2>1, <2>2, <2>3, <2>4, <2>5 DEF m
<1>. HIDE DEF a, e
<1>8. /\ offset <= a /\ uncompressed = SubSeq(Whole, offset + 1, a)
      /\ \A i \in 1 .. Len(Whole) : file[i] = IF i <= offset THEN Whole[i] ELSE 0
  BY <1>3 DEF Output, a
<1>9. Len(uncompressed) = a - offset
  <2>1. \A i \in offset + 1 .. a : Whole[i] \in Byte
    BY <1>4, <1>7, ElementOfSeq
  <2>2. offset + 1 \in Int /\ a \in Int
    BY <1>4, <1>7
  <2>3. Len(SubSeq(Whole, offset + 1, a)) = IF offset + 1 <= a THEN a - (offset + 1) + 1 ELSE 0
    BY ONLY <2>1, <2>2, SubSeqProperties
  <2>4. Len(uncompressed) = IF offset + 1 <= a THEN a - (offset + 1) + 1 ELSE 0
    BY ONLY <1>8, <2>3
  <2>. QED
    BY ONLY <1>4, <1>7, <1>8, <2>4
<1>10. offset <= e /\ e - offset < Bound + BlockSize
  BY ONLY <1>2, <1>4, <1>7, <1>8, <1>9
<1>11. uncompressed \o BlockData = SubSeq(Whole, offset + 1, e)
  <2>1. /\ offset + 1 \in 1 .. Len(Whole) + 1 /\ a \in (offset + 1) - 1 .. Len(Whole)
        /\ e \in a .. Len(Whole)
    BY ONLY <1>4, <1>7, <1>8
  <2>2. SubSeq(Whole, offset + 1, a) \o SubSeq(Whole, a + 1, e) = SubSeq(Whole, offset + 1, e)
    BY ONLY <1>4, <2>1, ConcatAdjacentSubSeq
  <2>. QED
    BY ONLY <1>5, <1>7, <1>8, <2>2 DEF m
<1>12. /\ offset' \in Nat /\ offset <= offset' /\ offset' <= end[m]
       /\ file' \in [1 .. Len(Whole) -> Byte] /\ Output(end, m)'
       /\ result' = IF offset = end[m] THEN "nil" ELSE "none"
  <2>1. /\ offset <= end[m] /\ end[m] - offset < Bound + BlockSize
        /\ uncompressed \o BlockData = SubSeq(Whole, offset + 1, end[m])
    BY <1>10, <1>11 DEF e
  <2>. DEFINE buffer == uncompressed \o BlockData
  <2>2. Deliver(buffer) /\ buffer = SubSeq(Whole, offset + 1, end[m])
    BY <1>2, <2>1
  <2>. HIDE DEF buffer
  <2>. QED
    BY ONLY <1>1, <1>2, <1>6, <1>8, <2>1, <2>2, DeliverOutput
<1>13. Reader(d, g, m)'
  <2>1. stream' = SubSeq(d, 3 * m + 1, Len(d))
    BY <1>2, <1>5 DEF m
  <2>2. Before(m + 1)' = Before(m + 1)
    BY <1>2, Steady
  <2>3. Before(m + 1) = plain[m]
    <3>1. m + 1 # 1 /\ (m + 1) - 1 = m
      BY <1>6
    <3>. QED
      BY <3>1 DEF Before
  <2>4. lz4Dict' = plain[m]
    BY <1>2, <1>5 DEF m
  <2>5. Passed(m)
    <3>1. Passed(k) /\ (Len(plain[m]) <= Limit \/ MayWrap(plain[m]))
      BY <1>3, <1>5 DEF Reader, m
    <3>2. \A i \in 1 .. m : i \in 1 .. k \/ i = m
      BY ONLY <1>6, k \in 0 .. Len(plain), <1>4
    <3>. QED
      BY <3>1, <3>2 DEF Passed
  <2>6. Passed(m)'
    BY <1>2, <2>5, Steady
  <2>. QED
    BY <1>2, <1>6, <2>1, <2>2, <2>3, <2>4, <2>6 DEF Reader
<1>14. Verdict(end, m)' /\ (result' = "nil" => offset' = offset)
  <2>1. ASSUME result' = "nil" PROVE offset' = e /\ offset' = offset /\ \E i \in DOMAIN plain : plain[i] = <<>>
    <3>1. offset = e
      BY <1>12, <2>1 DEF e
    <3>2. offset' = e /\ offset' = offset
      <4>1. offset' \in Nat /\ offset <= offset' /\ offset' <= e
        BY <1>12 DEF e
      <4>. QED
        BY ONLY <1>4, <1>7, <3>1, <4>1
    <3>3. Len(plain[m]) = 0
      BY ONLY <1>4, <1>7, <1>8, <3>1
    <3>4. plain[m] = <<>> /\ m \in DOMAIN plain
      BY <1>4, <1>6, <1>7, <3>3, EmptySeq
    <3>. QED
      BY <3>2, <3>4
  <2>2. result' # "error"
    BY <1>12
  <2>3. plain' = plain
    BY <1>2
  <2>. QED
    BY <2>1, <2>2, <2>3 DEF Verdict, e
<1>15. readerEOF' \in BOOLEAN /\ result' \in {"none", "nil", "error"} /\ result' \in {"none", "nil"}
  BY <1>2, <1>12 DEF Types
<1>. QED
  BY <1>1, <1>2, <1>6, <1>12, <1>13, <1>14, <1>15, Composed DEF Delivering

LEMMA ReadFailKeeps == ASSUME IInv, ReadFail PROVE IInv'
<1>1. PICK d \in Seq(Field), end \in [0 .. Len(plain) -> Nat], g \in 0 .. Len(plain),
           k \in 0 .. Len(plain) : Layer(d, g) /\ Cuts(end) /\ At(d, g, end, k)
  BY DEF IInv
<1>2. /\ Types /\ UNCHANGED <<plain, damaged>> /\ ~readerEOF /\ ~GoodBlock /\ ~AtEOFMarker
      /\ result' = "error" /\ UNCHANGED <<stream, lz4Dict, uncompressed, readerEOF, file, offset>>
  BY DEF IInv, ReadFail
<1>3. Reader(d, g, k) /\ Output(end, k)
  BY <1>1 DEF At
<1>4. ~damaged => stream[2].size + (IF stream[1] = "bv41" THEN stream[2].compressed ELSE 0) > Limit
  BY <1>1, <1>2, <1>3, NextIs
<1>5. /\ Whole' = Whole /\ Before(k + 1)' = Before(k + 1) /\ Bound' = Bound
      /\ Passed(k) => Passed(k)'
  BY <1>2, Steady
<1>6. Reader(d, g, k)' /\ Output(end, k)'
  BY <1>2, <1>3, <1>5 DEF Reader, Output
<1>7. Verdict(end, k)'
  BY <1>2, <1>4 DEF Verdict
<1>8. /\ readerEOF' \in BOOLEAN /\ offset' \in Nat /\ file' \in [1 .. Len(Whole) -> Byte]
      /\ result' \in {"none", "nil", "error"}
  BY <1>2 DEF Types
<1>. QED
  BY <1>1, <1>2, <1>6, <1>7, <1>8, Composed

LEMMA SameKeeps == ASSUME IInv, UNCHANGED vars PROVE IInv'
<1>1. PICK d \in Seq(Field), end \in [0 .. Len(plain) -> Nat], g \in 0 .. Len(plain),
           k \in 0 .. Len(plain) : Layer(d, g) /\ Cuts(end) /\ At(d, g, end, k)
  BY DEF IInv
<1>2. /\ Types /\ UNCHANGED <<plain, damaged>>
      /\ UNCHANGED <<stream, lz4Dict, uncompressed, readerEOF, file, offset, result>>
  BY DEF IInv, vars
<1>3. Reader(d, g, k) /\ Output(end, k) /\ Verdict(end, k)
  BY <1>1 DEF At
<1>5. /\ Whole' = Whole /\ Before(k + 1)' = Before(k + 1) /\ Bound' = Bound
      /\ Passed(k) => Passed(k)'
  BY <1>2, Steady
<1>6. Reader(d, g, k)' /\ Output(end, k)'
  BY <1>2, <1>3, <1>5 DEF Reader, Output
<1>7. Verdict(end, k)'
  BY <1>2, <1>3 DEF Verdict
<1>8. /\ readerEOF' \in BOOLEAN /\ offset' \in Nat /\ file' \in [1 .. Len(Whole) -> Byte]
      /\ result' \in {"none", "nil", "error"}
  BY <1>2 DEF Types
<1>. QED
  BY <1>1, <1>2, <1>6, <1>7, <1>8, Composed

LEMMA StepKeeps == IInv /\ [Next]_vars => IInv'
<1>. SUFFICES ASSUME IInv, [Next]_vars PROVE IInv'
  OBVIOUS
<1>1. CASE ReadBuffered
  BY <1>1, ReadBufferedKeeps
<1>2. CASE ReadBlock
  BY <1>2, ReadBlockKeeps
<1>3. CASE ReadEOF
  BY <1>3, ReadEOFKeeps
<1>4. CASE ReadFail
  BY <1>4, ReadFailKeeps
<1>5. CASE UNCHANGED vars
  BY <1>5, SameKeeps
<1>. QED
  BY <1>1, <1>2, <1>3, <1>4, <1>5 DEF Next, Returned

---------------------------------------------------------------------------
(* The properties.                                                         *)

\* The invariant holds throughout: the reader is after some of the intact
\* blocks, and file and buffer together have exactly their contents.
THEOREM Invariance == Spec => []IInv
<1>1. Init => IInv
  BY InitHolds
<1>2. IInv /\ [Next]_vars => IInv'
  BY StepKeeps
<1>. QED
  BY <1>1, <1>2, PTL DEF Spec

LEMMA BufferSize ==
  ASSUME Types, NEW end \in [0 .. Len(plain) -> Nat], Cuts(end), NEW k \in 0 .. Len(plain), Output(end, k)
  PROVE  Len(uncompressed) < Bound
<1>. DEFINE a == end[k]
<1>1. /\ plain \in Seq(Chunks) /\ Whole \in Seq(Byte) /\ offset \in Nat /\ Len(Whole) \in Nat
      /\ Bound \in Nat
  BY BoundIs DEF Types
<1>2. a \in Nat /\ a <= Len(Whole)
  BY <1>1, CutsType
<1>3. offset <= a /\ a - offset < Bound /\ uncompressed = SubSeq(Whole, offset + 1, a)
  BY DEF Output
<1>. HIDE DEF a
<1>4. \A i \in offset + 1 .. a : Whole[i] \in Byte
  BY <1>1, <1>2, ElementOfSeq
<1>5. offset + 1 \in Int /\ a \in Int
  BY <1>1, <1>2
<1>6. Len(SubSeq(Whole, offset + 1, a)) = IF offset + 1 <= a THEN a - (offset + 1) + 1 ELSE 0
  BY ONLY <1>4, <1>5, SubSeqProperties
<1>7. Len(uncompressed) = IF offset + 1 <= a THEN a - (offset + 1) + 1 ELSE 0
  BY ONLY <1>3, <1>6
<1>. QED
  BY ONLY <1>1, <1>2, <1>3, <1>7

\* Reader.Read keeps less than maxAllocatedBytesPerBlockMarker bytes from one
\* call to the next, for every limit and size of a read and for every layer
\* without a block whose two sizes may wrap around when they are added.
THEOREM BufferIsBoundedAlways == Spec => []BufferIsBounded
<1>1. IInv => BufferIsBounded
  <2>. SUFFICES ASSUME IInv PROVE BufferIsBounded
    OBVIOUS
  <2>1. PICK d \in Seq(Field), end \in [0 .. Len(plain) -> Nat], g \in 0 .. Len(plain),
             k \in 0 .. Len(plain) : Layer(d, g) /\ Cuts(end) /\ At(d, g, end, k)
    BY DEF IInv
  <2>2. Types /\ Output(end, k)
    BY <2>1 DEF IInv, At
  <2>3. Len(uncompressed) < Bound
    BY <2>1, <2>2, BufferSize
  <2>. QED
    BY <2>3 DEF BufferIsBounded, Bound
<1>. QED
  BY <1>1, Invariance, PTL

\* sparseio.Copy returns nil only for a layer without any of the damages (or
\* cut short by an empty block) and without a block beyond the limit, but for
\* blocks that may wrap; it fails for an undamaged layer only beyond the limit.
THEOREM VerdictIsRightAlways == Spec => []VerdictIsRight
<1>1. IInv => VerdictIsRight
  <2>. SUFFICES ASSUME IInv PROVE VerdictIsRight
    OBVIOUS
  <2>1. PICK d \in Seq(Field), end \in [0 .. Len(plain) -> Nat], g \in 0 .. Len(plain),
             k \in 0 .. Len(plain) : Layer(d, g) /\ Cuts(end) /\ At(d, g, end, k)
    BY DEF IInv
  <2>2. Reader(d, g, k) /\ Verdict(end, k)
    BY <2>1 DEF At
  <2>3. result = "nil" => ~damaged \/ CutShort
    BY <2>2 DEF Reader, Verdict, CutShort
  <2>4. ASSUME result = "nil", ~CutShort, NEW i \in DOMAIN plain
        PROVE  Len(plain[i]) <= Limit \/ MayWrap(plain[i])
    <3>1. readerEOF
      BY <2>2, <2>4 DEF Verdict, CutShort
    <3>2. k = Len(plain) /\ Passed(k)
      BY <2>2, <3>1 DEF Reader
    <3>3. i \in 1 .. Len(plain)
      BY LenProperties DEF IInv, Types
    <3>. QED
      BY <3>2, <3>3 DEF Passed
  <2>. QED
    BY <2>2, <2>3, <2>4 DEF Verdict, VerdictIsRight
<1>. QED
  BY <1>1, Invariance, PTL

\* What has been written is a beginning of the contents, and all of them when
\* the copy has come to the marker of the end.
LEMMA WrittenSoFar ==
  IInv => /\ Whole \in Seq(Byte) /\ offset \in 0 .. Len(Whole)
          /\ SubSeq(file, 1, offset) = SubSeq(Whole, 1, offset)
          /\ file \in [1 .. Len(Whole) -> Byte]
          /\ result \in {"none", "nil", "error"}
          /\ result = "nil" /\ ~CutShort => offset = Len(Whole)
<1>. SUFFICES ASSUME IInv
              PROVE  /\ Whole \in Seq(Byte) /\ offset \in 0 .. Len(Whole)
                     /\ SubSeq(file, 1, offset) = SubSeq(Whole, 1, offset)
                     /\ file \in [1 .. Len(Whole) -> Byte]
                     /\ result \in {"none", "nil", "error"}
                     /\ result = "nil" /\ ~CutShort => offset = Len(Whole)
  OBVIOUS
<1>1. PICK d \in Seq(Field), end \in [0 .. Len(plain) -> Nat], g \in 0 .. Len(plain),
           k \in 0 .. Len(plain) : Layer(d, g) /\ Cuts(end) /\ At(d, g, end, k)
  BY DEF IInv
<1>2. /\ plain \in Seq(Chunks) /\ Whole \in Seq(Byte) /\ offset \in Nat /\ Len(Whole) \in Nat
      /\ file \in [1 .. Len(Whole) -> Byte] /\ result \in {"none", "nil", "error"}
  BY DEF IInv, Types
<1>3. end[k] \in Nat /\ end[k] <= Len(Whole)
  BY <1>1, <1>2, CutsType
<1>4. /\ offset <= end[k]
      /\ \A i \in 1 .. Len(Whole) : file[i] = IF i <= offset THEN Whole[i] ELSE 0
  BY <1>1 DEF At, Output
<1>5. offset \in 0 .. Len(Whole)
  BY ONLY <1>2, <1>3, <1>4
<1>. DEFINE x == SubSeq(file, 1, offset)
            y == SubSeq(Whole, 1, offset)
<1>6. \A i \in 1 .. offset : i \in 1 .. Len(Whole) /\ i <= offset
  BY ONLY <1>2, <1>5
<1>7. \A i \in 1 .. offset : file[i] = Whole[i] /\ file[i] \in Byte /\ Whole[i] \in Byte
  BY <1>2, <1>4, <1>6, ElementOfSeq
<1>8. offset \in Int /\ 1 \in Int
  BY <1>2
<1>9. /\ x \in Seq(Byte) /\ Len(x) = (IF 1 <= offset THEN offset - 1 + 1 ELSE 0)
      /\ \A i \in 1 .. offset - 1 + 1 : x[i] = file[1 + i - 1]
  BY ONLY <1>7, <1>8, SubSeqProperties
<1>10. /\ y \in Seq(Byte) /\ Len(y) = (IF 1 <= offset THEN offset - 1 + 1 ELSE 0)
       /\ \A i \in 1 .. offset - 1 + 1 : y[i] = Whole[1 + i - 1]
  BY ONLY <1>7, <1>8, SubSeqProperties
<1>. HIDE DEF x, y
<1>11. ASSUME NEW i \in 1 .. Len(x) PROVE x[i] = y[i]
  <2>1. i \in 1 .. offset - 1 + 1 /\ 1 + i - 1 = i /\ i \in 1 .. offset
    BY ONLY <1>2, <1>9, i \in 1 .. Len(x)
  <2>. QED
    BY ONLY <1>7, <1>9, <1>10, <2>1
<1>12. Len(x) = Len(y)
  BY ONLY <1>9, <1>10
<1>13. x = y
  BY ONLY <1>9, <1>10, <1>11, <1>12, SeqEqual
<1>14. ASSUME result = "nil", ~CutShort PROVE offset = Len(Whole)
  <2>1. Reader(d, g, k) /\ Verdict(end, k)
    BY <1>1 DEF At
  <2>2. readerEOF /\ offset = end[k]
    BY <1>14, <2>1 DEF Verdict, CutShort
  <2>3. k = Len(plain)
    BY <2>1, <2>2 DEF Reader
  <2>. QED
    BY <1>1, <2>2, <2>3 DEF Cuts
<1>. QED
  BY <1>2, <1>5, <1>13, <1>14 DEF x, y

\* A copy that returns nil, and is not cut short by an empty block, leaves in
\* the file all that was compressed, holes included.
FileIsWhole == result = "nil" /\ ~CutShort => file = FlattenSeq(plain)

\* Whatever the layer was cut into and however its blocks were encoded, what
\* sparseio.Copy has written when it returns nil is what was compressed.
THEOREM FileIsWholeAlways == Spec => []FileIsWhole
<1>1. IInv => FileIsWhole
  <2>. SUFFICES ASSUME IInv, result = "nil", ~CutShort PROVE file = Whole
    BY DEF FileIsWhole, Whole
  <2>1. /\ Whole \in Seq(Byte) /\ SubSeq(file, 1, offset) = SubSeq(Whole, 1, offset)
        /\ file \in [1 .. Len(Whole) -> Byte] /\ offset = Len(Whole)
    BY WrittenSoFar
  <2>2. file \in Seq(Byte) /\ Len(file) = Len(Whole)
    <3>1. Len(Whole) \in Nat
      BY <2>1
    <3>. QED
      BY <2>1, <3>1, SeqDef
  <2>3. SubSeq(Whole, 1, Len(Whole)) = Whole /\ SubSeq(file, 1, Len(file)) = file
    BY <2>1, <2>2, SubSeqFull
  <2>. QED
    BY <2>1, <2>2, <2>3
<1>. QED
  BY <1>1, Invariance, PTL

---------------------------------------------------------------------------
(* The copy is a transfer, as the disk puller's is.                        *)

LEMMA InitIsTransfer == Init => Decompression!Init
<1>. SUFFICES ASSUME Init PROVE Decompression!Init
  OBVIOUS
<1>1. offset = 0 /\ result = "none"
  BY DEF Init
<1>2. SubSeq(file, 1, offset) = <<>>
  BY <1>1, SubSeqEmpty
<1>3. ~CutShort
  BY <1>1 DEF CutShort
<1>. QED
  BY <1>1, <1>2, <1>3 DEF Decompression!Init

\* A step that delivers is a step of the transfer, or the end of one cut short.
LEMMA DeliverIsTransfer ==
  ASSUME IInv, IInv', result = "none", plain' = plain, Delivering
  PROVE  Decompression!Next
<1>. DEFINE out == SubSeq(file, 1, offset)
            verdict == IF CutShort THEN "error" ELSE result
<1>1. /\ Whole \in Seq(Byte) /\ offset \in 0 .. Len(Whole) /\ out = SubSeq(Whole, 1, offset)
  BY WrittenSoFar
<1>2. Whole' = Whole
  BY DEF Whole
<1>3. (IInv => /\ Whole \in Seq(Byte) /\ offset \in 0 .. Len(Whole)
               /\ SubSeq(file, 1, offset) = SubSeq(Whole, 1, offset)
               /\ file \in [1 .. Len(Whole) -> Byte]
               /\ result \in {"none", "nil", "error"}
               /\ result = "nil" /\ ~CutShort => offset = Len(Whole))'
  BY WrittenSoFar, PTL
<1>4. /\ offset' \in 0 .. Len(Whole) /\ out' = SubSeq(Whole, 1, offset')
      /\ result' = "nil" /\ ~CutShort' => offset' = Len(Whole)
  BY <1>2, <1>3
<1>5. verdict = "none"
  BY DEF CutShort
<1>6. /\ offset <= offset' /\ result' \in {"none", "nil"} /\ (result' = "nil" => offset' = offset)
  BY DEF Delivering
<1>7. CASE CutShort'
  <2>1. result' = "nil"
    BY <1>7 DEF CutShort
  <2>2. verdict' = "error"
    BY <1>7
  <2>3. out' = out
    BY <1>1, <1>4, <1>6, <2>1
  <2>4. Decompression!Fail
    BY <1>2, <1>5, <2>2, <2>3 DEF Decompression!Fail, Whole
  <2>. QED
    BY <2>4 DEF Decompression!Next
<1>8. CASE ~CutShort'
  <2>1. verdict' = result'
    BY <1>8
  <2>2. Len(out) = offset
    <3>1. \A i \in 1 .. offset : Whole[i] \in Byte
      BY <1>1, ElementOfSeq
    <3>2. offset \in Int /\ 1 \in Int /\ offset \in Nat
      BY <1>1
    <3>3. Len(SubSeq(Whole, 1, offset)) = IF 1 <= offset THEN offset - 1 + 1 ELSE 0
      BY ONLY <3>1, <3>2, SubSeqProperties
    <3>4. Len(SubSeq(Whole, 1, offset)) = offset
      BY ONLY <3>2, <3>3
    <3>. QED
      BY ONLY <1>1, <3>4
  <2>3. offset' \in Len(out) .. Len(Whole)
    <3>1. Len(Whole) \in Nat
      BY <1>1
    <3>. QED
      BY ONLY <1>1, <1>4, <1>6, <2>2, <3>1
  <2>4. verdict' \in IF offset' = Len(Whole) THEN {"none", "nil"} ELSE {"none"}
    BY <1>4, <1>6, <1>8, <2>1
  <2>5. Decompression!Deliver
    <3>. HIDE DEF out, verdict
    <3>1. verdict = "none" /\ \E n \in Len(out) .. Len(Whole) :
            /\ out' = SubSeq(Whole, 1, n)
            /\ verdict' \in (IF n = Len(Whole) THEN {"none", "nil"} ELSE {"none"})
      BY <1>4, <1>5, <2>3, <2>4
    <3>. QED
      BY <1>2, <3>1 DEF Decompression!Deliver, Whole, out, verdict
  <2>. QED
    BY <2>5 DEF Decompression!Next
<1>. QED
  BY <1>7, <1>8

LEMMA FailIsTransfer == ASSUME IInv, ReadFail PROVE Decompression!Fail
<1>1. /\ result = "none" /\ result' = "error" /\ file' = file /\ offset' = offset /\ plain' = plain
  BY DEF ReadFail
<1>2. ~CutShort /\ ~CutShort'
  BY <1>1 DEF CutShort
<1>. QED
  BY <1>1, <1>2 DEF Decompression!Fail

LEMMA SameIsTransfer == ASSUME UNCHANGED vars PROVE UNCHANGED Decompression!vars
<1>1. UNCHANGED <<plain, file, offset, result, readerEOF>>
  BY DEF vars
<1>2. CutShort' = CutShort
  BY <1>1 DEF CutShort
<1>. QED
  BY <1>1, <1>2 DEF Decompression!vars

\* The decompression implements Transfer: what is in the file is always a
\* beginning of the contents, in order, and nil is returned only with all of
\* them there.
THEOREM DeliversAlways == Spec => Delivers
<1>1. Init => Decompression!Init
  BY InitIsTransfer
<1>2. IInv /\ IInv' /\ [Next]_vars => [Decompression!Next]_(Decompression!vars)
  <2>. SUFFICES ASSUME IInv, IInv', [Next]_vars PROVE [Decompression!Next]_(Decompression!vars)
    OBVIOUS
  <2>1. CASE ReadBuffered
    <3>1. Delivering /\ result = "none" /\ plain' = plain
      BY <2>1, ReadBufferedKeeps DEF ReadBuffered
    <3>. QED
      BY <3>1, DeliverIsTransfer
  <2>2. CASE ReadBlock
    <3>1. Delivering /\ result = "none" /\ plain' = plain
      BY <2>2, ReadBlockKeeps DEF ReadBlock
    <3>. QED
      BY <3>1, DeliverIsTransfer
  <2>3. CASE ReadEOF
    <3>1. Delivering /\ result = "none" /\ plain' = plain
      BY <2>3, ReadEOFKeeps DEF ReadEOF
    <3>. QED
      BY <3>1, DeliverIsTransfer
  <2>4. CASE ReadFail
    BY <2>4, FailIsTransfer DEF Decompression!Next
  <2>5. CASE UNCHANGED vars
    BY <2>5, SameIsTransfer
  <2>. QED
    BY <2>1, <2>2, <2>3, <2>4, <2>5 DEF Next, Returned
<1>. QED
  BY <1>1, <1>2, Invariance, PTL DEF Spec, Delivers, Decompression!Spec
=============================================================================
