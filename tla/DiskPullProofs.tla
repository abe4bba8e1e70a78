--------------------------- MODULE DiskPullProofs ---------------------------
(* That PullDisks makes of any number of layers, with any number of tasks,   *)
(* the disks that the layers are parts of.                                   *)
EXTENDS DiskPull, Integers, FiniteSetTheorems, SequenceTheorems, WellFoundedInduction, TLAPS

---------------------------------------------------------------------------
(* Induction over the natural numbers as facts about sets of numbers.  The  *)
(* theorems of the library are about predicates, NEW P(_), with which the   *)
(* provers at hand cannot do anything; a set {n \in Nat : P(n)} they can be *)
(* given.  What follows rests on WFMin and NatLessThanWellFounded.          *)

\* A set of natural numbers has a least one.
LEMMA Least ==
  ASSUME NEW S, S \subseteq Nat, S # {}
  PROVE  \E m \in S : \A n \in S : m <= n
<1>. DEFINE R == OpToRel(<, Nat)
<1>1. \A x, y \in Nat : x < y => <<x, y>> \in R
  BY DEF OpToRel
<1>2. IsWellFoundedOn(R, Nat)
  BY NatLessThanWellFounded
<1>. HIDE DEF R
<1>3. PICK m \in S : \A n \in S : <<n, m>> \notin R
  BY <1>2, WFMin
<1>4. ASSUME NEW n \in S PROVE m <= n
  <2>1. n \in Nat /\ m \in Nat /\ ~(n < m)
    BY <1>1, <1>3
  <2>. QED
    BY <2>1
<1>. QED
  BY <1>3, <1>4

\* What holds 0 and, with each number, the next one holds them all.
LEMMA Induction ==
  ASSUME NEW S, 0 \in S, \A n \in Nat : n \in S => n + 1 \in S
  PROVE  Nat \subseteq S
<1>. SUFFICES ASSUME Nat \ S # {} PROVE FALSE
  OBVIOUS
<1>1. PICK m \in Nat \ S : \A n \in Nat \ S : m <= n
  BY Least
<1>2. m # 0 /\ m - 1 \in Nat /\ m = (m - 1) + 1 /\ ~(m <= m - 1)
  BY <1>1
<1>. QED
  BY <1>1, <1>2

\* A set of natural numbers with a bound has a largest one.
LEMMA Largest ==
  ASSUME NEW S, S \subseteq Nat, S # {}, NEW bound \in Nat, \A n \in S : n <= bound
  PROVE  \E m \in S : \A n \in S : n <= m
<1>. DEFINE Above == {k \in Nat : \A n \in S : n <= k}
<1>1. Above \subseteq Nat /\ Above # {}
  OBVIOUS
<1>2. PICK m \in Above : \A k \in Above : m <= k
  BY <1>1, Least
<1>3. m \in Nat /\ \A n \in S : n \in Nat /\ n <= m
  BY <1>2
<1>4. CASE m = 0
  <2>1. PICK n \in S : TRUE
    OBVIOUS
  <2>2. n = m
    BY <1>3, <1>4, <2>1
  <2>. QED
    BY <1>3, <2>1, <2>2
<1>5. CASE m # 0
  <2>1. m - 1 \in Nat /\ m - 1 \notin Above
    BY <1>2, <1>3, <1>5
  <2>2. PICK n \in S : ~(n <= m - 1)
    BY <2>1
  <2>3. n = m
    BY <1>3, <2>1, <2>2
  <2>. QED
    BY <1>3, <2>3
<1>. QED
  BY <1>4, <1>5

---------------------------------------------------------------------------
(* Offsets.  The lemmas are about the layers of any manifest.              *)

LEMMA LayerType ==
  ASSUME layers \in Seq(Layer)
  PROVE  /\ Len(layers) \in Nat /\ DOMAIN layers = 1 .. Len(layers) /\ Task = 1 .. Len(layers)
         /\ \A i \in Task : /\ layers[i].disk \in Disk /\ layers[i].size \in Nat
                            /\ layers[i].data \in Seq(Block)
<1>1. Len(layers) \in Nat /\ DOMAIN layers = 1 .. Len(layers) /\ Task = 1 .. Len(layers)
  BY DEF Task
<1>2. ASSUME NEW i \in 1 .. Len(layers) PROVE layers[i] \in Layer
  OBVIOUS
<1>. QED
  BY <1>1, <1>2 DEF Layer

\* What Offsets has for n layers, given what it has for fewer.
OffsetStep(offset, n) ==
  IF n = 0 THEN [d \in Disk |-> 0]
  ELSE [offset[n - 1] EXCEPT ![layers[n].disk] = @ + layers[n].size]

LEMMA OffsetsExist ==
  ASSUME NEW N \in Nat
  PROVE  \E offset : offset = [n \in 0 .. N |-> OffsetStep(offset, n)]
<1>. DEFINE Defined == {m \in Nat : \E offset : offset = [n \in 0 .. m |-> OffsetStep(offset, n)]}
<1>1. 0 \in Defined
  <2>. DEFINE offset == [n \in 0 .. 0 |-> [d \in Disk |-> 0]]
  <2>1. offset = [n \in 0 .. 0 |-> OffsetStep(offset, n)]
    BY DEF OffsetStep
  <2>. HIDE DEF offset
  <2>. QED
    BY <2>1
<1>2. ASSUME NEW m \in Nat, m \in Defined PROVE m + 1 \in Defined
  <2>1. PICK offset : offset = [n \in 0 .. m |-> OffsetStep(offset, n)]
    BY <1>2
  <2>. DEFINE more == [n \in 0 .. m + 1 |-> OffsetStep(offset, n)]
  <2>2. ASSUME NEW n \in 0 .. m + 1 PROVE more[n] = OffsetStep(more, n)
    <3>1. more[n] = OffsetStep(offset, n)
      OBVIOUS
    <3>2. CASE n = 0
      BY <3>1, <3>2 DEF OffsetStep
    <3>3. CASE n # 0
      <4>. DEFINE k == n - 1
      <4>1. k \in 0 .. m /\ k \in 0 .. m + 1
        BY <3>3
      <4>. HIDE DEF k
      <4>2. more[k] = offset[k]
        BY <2>1, <4>1
      <4>. QED
        BY <3>1, <3>3, <4>2 DEF OffsetStep, k
    <3>. QED
      BY <3>2, <3>3
  <2>3. more = [n \in 0 .. m + 1 |-> OffsetStep(more, n)]
    BY <2>2
  <2>. HIDE DEF more
  <2>. QED
    BY <2>3
<1>. HIDE DEF Defined
<1>3. N \in Defined
  BY <1>1, <1>2, Induction
<1>. QED
  BY <1>3 DEF Defined

\* Each layer moves the offset of its disk.
LEMMA OffsetsDef ==
  ASSUME layers \in Seq(Layer)
  PROVE  /\ Offsets[0] = [d \in Disk |-> 0]
         /\ \A n \in 1 .. Len(layers) :
              Offsets[n] = [Offsets[n - 1] EXCEPT ![layers[n].disk] = @ + layers[n].size]
<1>1. Offsets = [n \in 0 .. Len(layers) |-> OffsetStep(Offsets, n)]
  BY LayerType, OffsetsExist DEF Offsets, OffsetStep
<1>2. Len(layers) \in Nat
  BY LayerType
<1>3. \A n \in 0 .. Len(layers) : Offsets[n] = OffsetStep(Offsets, n)
  BY <1>1
<1>4. ASSUME NEW n \in 1 .. Len(layers)
      PROVE  Offsets[n] = [Offsets[n - 1] EXCEPT ![layers[n].disk] = @ + layers[n].size]
  <2>1. n \in 0 .. Len(layers) /\ n # 0
    BY <1>2
  <2>. QED
    BY <1>3, <2>1 DEF OffsetStep
<1>5. Offsets[0] = OffsetStep(Offsets, 0)
  BY <1>2, <1>3
<1>. QED
  BY <1>4, <1>5 DEF OffsetStep

LEMMA OffsetsType ==
  ASSUME layers \in Seq(Layer)
  PROVE  /\ \A n \in 0 .. Len(layers) : Offsets[n] \in [Disk -> Nat]
         /\ \A n \in 1 .. Len(layers), d \in Disk :
              Offsets[n][d] = Offsets[n - 1][d] + IF layers[n].disk = d THEN layers[n].size ELSE 0
<1>. DEFINE Typed == {n \in Nat : n <= Len(layers) => Offsets[n] \in [Disk -> Nat]}
<1>. USE LayerType
<1>1. 0 \in Typed
  BY OffsetsDef
<1>2. ASSUME NEW n \in Nat, n \in Typed PROVE n + 1 \in Typed
  <2>. SUFFICES ASSUME n + 1 <= Len(layers) PROVE Offsets[n + 1] \in [Disk -> Nat]
    OBVIOUS
  <2>1. n + 1 \in 1 .. Len(layers) /\ (n + 1) - 1 = n /\ n <= Len(layers)
    OBVIOUS
  <2>2. Offsets[n + 1] = [Offsets[n] EXCEPT ![layers[n + 1].disk] = @ + layers[n + 1].size]
    BY <2>1, OffsetsDef
  <2>3. Offsets[n] \in [Disk -> Nat]
    BY <1>2, <2>1
  <2>. QED
    BY <2>1, <2>2, <2>3
<1>3. \A n \in 0 .. Len(layers) : Offsets[n] \in [Disk -> Nat]
  <2>. HIDE DEF Typed
  <2>1. Nat \subseteq Typed
    BY <1>1, <1>2, Induction
  <2>. QED
    BY <2>1 DEF Typed
<1>4. ASSUME NEW n \in 1 .. Len(layers), NEW d \in Disk
      PROVE  Offsets[n][d] = Offsets[n - 1][d] + IF layers[n].disk = d THEN layers[n].size ELSE 0
  <2>1. n - 1 \in 0 .. Len(layers) /\ n \in Task
    OBVIOUS
  <2>2. Offsets[n - 1] \in [Disk -> Nat]
    BY <1>3, <2>1
  <2>3. Offsets[n] = [Offsets[n - 1] EXCEPT ![layers[n].disk] = @ + layers[n].size]
    BY OffsetsDef
  <2>4. layers[n].disk \in Disk /\ layers[n].size \in Nat
    BY <2>1
  <2>. HIDE DEF Offsets
  <2>. QED
    BY <2>2, <2>3, <2>4
<1>. QED
  BY <1>3, <1>4

\* Offsets only grow.
LEMMA OffsetsGrow ==
  ASSUME layers \in Seq(Layer), NEW d \in Disk, NEW m \in 0 .. Len(layers)
  PROVE  \A n \in m .. Len(layers) : Offsets[m][d] <= Offsets[n][d]
<1>. DEFINE Above == {k \in Nat : m + k <= Len(layers) => Offsets[m][d] <= Offsets[m + k][d]}
<1>. USE LayerType
<1>0. \A n \in 0 .. Len(layers) : Offsets[n][d] \in Nat
  BY OffsetsType
<1>1. 0 \in Above
  BY <1>0
<1>2. ASSUME NEW k \in Nat, k \in Above PROVE k + 1 \in Above
  <2>. SUFFICES ASSUME m + (k + 1) <= Len(layers) PROVE Offsets[m][d] <= Offsets[m + (k + 1)][d]
    OBVIOUS
  <2>. DEFINE n == m + (k + 1)
  <2>1. n \in 1 .. Len(layers) /\ n - 1 = m + k /\ m + k \in 0 .. Len(layers) /\ n \in Task
    OBVIOUS
  <2>2. Offsets[n][d] = Offsets[n - 1][d] + IF layers[n].disk = d THEN layers[n].size ELSE 0
    BY <2>1, OffsetsType
  <2>3. layers[n].size \in Nat
    BY <2>1
  <2>. HIDE DEF n
  <2>4. Offsets[n - 1][d] <= Offsets[n][d]
    BY <1>0, <2>1, <2>2, <2>3
  <2>5. Offsets[m][d] <= Offsets[n - 1][d]
    BY <1>2, <2>1
  <2>6. Offsets[m][d] \in Nat /\ Offsets[n - 1][d] \in Nat /\ Offsets[n][d] \in Nat
    BY <1>0, <2>1
  <2>. QED
    BY <2>4, <2>5, <2>6 DEF n
<1>3. ASSUME NEW n \in m .. Len(layers) PROVE Offsets[m][d] <= Offsets[n][d]
  <2>. HIDE DEF Above
  <2>1. n - m \in Above
    BY <1>1, <1>2, Induction
  <2>. QED
    BY <2>1 DEF Above
<1>. QED
  BY <1>3

\* Where a layer starts and ends in the file of its disk.
LEMMA OffsetType ==
  ASSUME layers \in Seq(Layer), NEW i \in Task
  PROVE  /\ Offset(i) \in Nat
         /\ Offsets[i][layers[i].disk] = Offset(i) + layers[i].size
         /\ Offset(i) + layers[i].size <= Offsets[Len(layers)][layers[i].disk]
<1>1. /\ i \in 1 .. Len(layers) /\ i - 1 \in 0 .. Len(layers) /\ Len(layers) \in Nat
      /\ layers[i].disk \in Disk /\ layers[i].size \in Nat
  BY LayerType
<1>2. Offset(i) \in Nat
  BY <1>1, OffsetsType DEF Offset
<1>3. Offsets[i][layers[i].disk] = Offset(i) + layers[i].size
  BY <1>1, OffsetsType DEF Offset
<1>4. i \in 0 .. Len(layers) /\ Len(layers) \in i .. Len(layers)
  BY <1>1
<1>5. Offsets[i][layers[i].disk] <= Offsets[Len(layers)][layers[i].disk]
  BY <1>1, <1>4, OffsetsGrow
<1>. QED
  BY <1>2, <1>3, <1>5

\* Two layers of a disk are apart.
LEMMA RangesAreDisjoint ==
  ASSUME layers \in Seq(Layer), NEW h \in Task, NEW i \in Task, layers[h].disk = layers[i].disk,
         NEW j \in 1 .. layers[h].size, NEW k \in 1 .. layers[i].size, Offset(h) + j = Offset(i) + k
  PROVE  h = i /\ j = k
<1>1. ASSUME NEW a \in Task, NEW b \in Task, layers[a].disk = layers[b].disk, a < b
      PROVE  Offset(a) + layers[a].size <= Offset(b)
  <2>1. /\ a \in 0 .. Len(layers) /\ b - 1 \in a .. Len(layers) /\ layers[b].disk \in Disk
    BY <1>1, LayerType
  <2>2. Offsets[a][layers[b].disk] <= Offsets[b - 1][layers[b].disk]
    BY <2>1, OffsetsGrow
  <2>. QED
    BY <1>1, <2>2, OffsetType DEF Offset
<1>2. /\ Offset(h) \in Nat /\ Offset(i) \in Nat /\ layers[h].size \in Nat /\ layers[i].size \in Nat
      /\ h \in Nat /\ i \in Nat
  BY OffsetType, LayerType
<1>3. ~(h < i)
  BY <1>1, <1>2
<1>4. ~(i < h)
  BY <1>1, <1>2
<1>5. h = i
  BY <1>2, <1>3, <1>4
<1>. QED
  BY <1>2, <1>5

\* Every block of a disk is of some layer.
LEMMA RangesCover ==
  ASSUME layers \in Seq(Layer), NEW d \in Disk, NEW k \in 1 .. Offsets[Len(layers)][d]
  PROVE  \E i \in Task : \E j \in 1 .. layers[i].size : layers[i].disk = d /\ k = Offset(i) + j
<1>. DEFINE Of(n) == \E i \in Task : \E j \in 1 .. layers[i].size : layers[i].disk = d /\ k = Offset(i) + j
            Covered == {n \in Nat : n <= Len(layers) /\ k <= Offsets[n][d] => Of(n)}
<1>. USE LayerType
<1>0. /\ \A n \in 0 .. Len(layers) : Offsets[n][d] \in Nat
      /\ k \in Nat \ {0} /\ k <= Offsets[Len(layers)][d] /\ Len(layers) \in 0 .. Len(layers)
  <2>1. \A n \in 0 .. Len(layers) : Offsets[n][d] \in Nat
    BY OffsetsType
  <2>2. Offsets[Len(layers)][d] \in Nat
    BY <2>1
  <2>. QED
    BY <2>1, <2>2
<1>1. 0 \in Covered
  BY <1>0, OffsetsDef
<1>2. ASSUME NEW m \in Nat, m \in Covered PROVE m + 1 \in Covered
  <2>. DEFINE n == m + 1
  <2>. SUFFICES ASSUME n <= Len(layers), k <= Offsets[n][d] PROVE Of(n)
    OBVIOUS
  <2>1. n \in 1 .. Len(layers) /\ n - 1 = m /\ m \in 0 .. Len(layers) /\ n \in Task
    OBVIOUS
  <2>2. Offsets[n][d] = Offsets[m][d] + IF layers[n].disk = d THEN layers[n].size ELSE 0
    BY <2>1, OffsetsType
  <2>3. CASE k <= Offsets[m][d]
    BY <1>2, <2>1, <2>3
  <2>4. CASE ~(k <= Offsets[m][d])
    <3>1. Offsets[m][d] \in Nat /\ layers[n].size \in Nat
      BY <1>0, <2>1
    <3>. HIDE DEF n
    <3>2. layers[n].disk = d
      BY <1>0, <2>2, <2>4, <3>1
    <3>3. Offset(n) = Offsets[m][d]
      BY <2>1, <3>2 DEF Offset
    <3>. DEFINE j == k - Offset(n)
    <3>4. j \in 1 .. layers[n].size /\ k = Offset(n) + j
      BY <1>0, <2>2, <2>4, <3>1, <3>2, <3>3
    <3>. HIDE DEF j
    <3>. QED
      BY <2>1, <3>2, <3>4
  <2>. QED
    BY <2>3, <2>4
<1>. HIDE DEF Covered
<1>3. Len(layers) \in Covered
  BY <1>1, <1>2, Induction
<1>. QED
  BY <1>0, <1>3 DEF Covered

---------------------------------------------------------------------------
(* The reference, Whole, which is a fold over the layers.                  *)

\* What the fold has after the layers in s, given what it has after fewer.
JoinStep(d, whole, s) ==
  IF s = {} THEN <<>>
  ELSE IF layers[Max(s)].disk = d THEN whole[s \ {Max(s)}] \o layers[Max(s)].data
                                  ELSE whole[s \ {Max(s)}]

LEMMA MaxIs ==
  ASSUME NEW N \in Nat, NEW s \in SUBSET (1 .. N), s # {}
  PROVE  Max(s) \in s /\ \A x \in s : x <= Max(s)
<1>1. s \subseteq Nat /\ \A n \in s : n <= N
  OBVIOUS
<1>2. \E m \in s : \A n \in s : n <= m
  BY <1>1, Largest
<1>3. \E m \in s : \A n \in s : m >= n
  BY <1>1, <1>2
<1>4. Max(s) \in s /\ \A n \in s : Max(s) >= n
  BY <1>3 DEF Max
<1>. QED
  BY <1>1, <1>4

LEMMA JoinExists ==
  ASSUME NEW d, NEW N \in Nat
  PROVE  \E whole : whole = [s \in SUBSET (1 .. N) |-> JoinStep(d, whole, s)]
<1>. DEFINE U == 1 .. N
            Small(n) == {s \in SUBSET U : Cardinality(s) <= n}
            Defined == {n \in Nat : \E whole : whole = [s \in Small(n) |-> JoinStep(d, whole, s)]}
<1>0. IsFiniteSet(U)
  BY FS_Interval
<1>1. \A s \in SUBSET U : IsFiniteSet(s) /\ Cardinality(s) \in Nat /\ Cardinality(s) <= Cardinality(U)
  BY <1>0, FS_Subset, FS_CardinalityType
<1>2. ASSUME NEW s \in SUBSET U, s # {}
      PROVE  s \ {Max(s)} \in SUBSET U /\ Cardinality(s \ {Max(s)}) = Cardinality(s) - 1
  BY <1>1, <1>2, MaxIs, FS_RemoveElement
<1>. HIDE DEF U
<1>3. 0 \in Defined
  <2>1. \A s \in Small(0) : s = {}
    BY <1>1, FS_EmptySet
  <2>. DEFINE whole == [s \in Small(0) |-> <<>>]
  <2>2. whole = [s \in Small(0) |-> JoinStep(d, whole, s)]
    BY <2>1 DEF JoinStep
  <2>. HIDE DEF whole
  <2>. QED
    BY <2>2
<1>4. ASSUME NEW n \in Nat, n \in Defined PROVE n + 1 \in Defined
  <2>1. PICK whole : whole = [s \in Small(n) |-> JoinStep(d, whole, s)]
    BY <1>4
  <2>. DEFINE more == [s \in Small(n + 1) |-> JoinStep(d, whole, s)]
  <2>2. ASSUME NEW s \in Small(n + 1) PROVE more[s] = JoinStep(d, more, s)
    <3>1. more[s] = JoinStep(d, whole, s)
      OBVIOUS
    <3>2. CASE s = {}
      BY <3>1, <3>2 DEF JoinStep
    <3>3. CASE s # {}
      <4>. DEFINE r == s \ {Max(s)}
      <4>1. r \in Small(n) /\ r \in Small(n + 1)
        BY <1>1, <1>2, <3>3
      <4>. HIDE DEF r
      <4>2. more[r] = whole[r]
        BY <2>1, <4>1
      <4>. QED
        BY <3>1, <3>3, <4>2 DEF JoinStep, r
    <3>. QED
      BY <3>2, <3>3
  <2>3. more = [s \in Small(n + 1) |-> JoinStep(d, more, s)]
    BY <2>2
  <2>. HIDE DEF more
  <2>4. \E w : w = [s \in Small(n + 1) |-> JoinStep(d, w, s)]
    <3>. HIDE DEF Small
    <3>. QED
      BY <2>3
  <2>5. n + 1 \in Nat
    OBVIOUS
  <2>. QED
    BY <2>4, <2>5
<1>5. Cardinality(U) \in Defined
  <2>. HIDE DEF Defined
  <2>1. Nat \subseteq Defined
    BY <1>3, <1>4, Induction
  <2>. QED
    BY <2>1, <1>1
<1>6. Small(Cardinality(U)) = SUBSET U
  BY <1>1
<1>. QED
  BY <1>5, <1>6 DEF U

\* The annotated sizes are those of the data.
Annotated == \A i \in Task : layers[i].size = Len(layers[i].data)

\* s is what the first n layers make of the disk d: each block at its offset.
Joined(d, n, s) ==
  /\ s \in Seq(Block) /\ Len(s) = Offsets[n][d]
  /\ \A i \in 1 .. n : layers[i].disk = d =>
       \A j \in 1 .. layers[i].size : s[Offset(i) + j] = layers[i].data[j]

\* One layer more.
LEMMA JoinOne ==
  ASSUME layers \in Seq(Layer), Annotated, NEW d \in Disk, NEW n \in Task, NEW s, Joined(d, n - 1, s)
  PROVE  Joined(d, n, IF layers[n].disk = d THEN s \o layers[n].data ELSE s)
<1>. DEFINE t == layers[n].data
<1>1. /\ n \in 1 .. Len(layers) /\ t \in Seq(Block) /\ Len(t) = layers[n].size /\ s \in Seq(Block)
      /\ Len(s) = Offsets[n - 1][d] /\ layers[n].size \in Nat /\ Len(s) \in Nat
  BY LayerType DEF Joined, Annotated
<1>2. Offsets[n][d] = Len(s) + IF layers[n].disk = d THEN layers[n].size ELSE 0
  BY <1>1, OffsetsType
<1>3. \A i \in 1 .. n - 1 : layers[i].disk = d =>
        \A j \in 1 .. layers[i].size :
          s[Offset(i) + j] = layers[i].data[j] /\ Offset(i) + j \in 1 .. Len(s)
  <2>. SUFFICES ASSUME NEW i \in 1 .. n - 1, layers[i].disk = d, NEW j \in 1 .. layers[i].size
                PROVE  s[Offset(i) + j] = layers[i].data[j] /\ Offset(i) + j \in 1 .. Len(s)
    OBVIOUS
  <2>1. i \in Task /\ i \in 0 .. Len(layers) /\ n - 1 \in i .. Len(layers)
    BY <1>1, LayerType
  <2>2. Offset(i) \in Nat /\ Offsets[i][d] = Offset(i) + layers[i].size /\ layers[i].size \in Nat
    BY <2>1, OffsetType, LayerType
  <2>3. Offsets[i][d] <= Len(s)
    BY <1>1, <2>1, OffsetsGrow
  <2>4. s[Offset(i) + j] = layers[i].data[j]
    BY DEF Joined
  <2>5. Offset(i) + j \in 1 .. Len(s)
    <3>. DEFINE o == Offset(i)
                l == layers[i].size
    <3>1. o \in Nat /\ l \in Nat /\ j \in 1 .. l /\ o + l <= Len(s) /\ Len(s) \in Nat
      BY <1>1, <2>2, <2>3
    <3>. HIDE DEF o, l
    <3>2. o + j \in 1 .. Len(s)
      BY <3>1
    <3>. QED
      BY <3>2 DEF o
  <2>. QED
    BY <2>4, <2>5
<1>4. CASE layers[n].disk = d
  <2>. DEFINE u == s \o t
  <2>1. /\ u \in Seq(Block) /\ Len(u) = Len(s) + Len(t)
        /\ \A k \in 1 .. Len(s) : u[k] = s[k]
        /\ \A k \in 1 .. Len(t) : u[Len(s) + k] = t[k]
    <3>. HIDE DEF t
    <3>1. /\ u \in Seq(Block) /\ Len(u) = Len(s) + Len(t)
          /\ \A k \in 1 .. Len(s) + Len(t) :
               u[k] = IF k <= Len(s) THEN s[k] ELSE t[k - Len(s)]
      BY <1>1, ConcatProperties
    <3>2. Len(s) \in Nat /\ Len(t) \in Nat
      BY <1>1
    <3>. HIDE DEF u
    <3>3. ASSUME NEW k \in 1 .. Len(t) PROVE u[Len(s) + k] = t[k]
      <4>1. Len(s) + k \in 1 .. Len(s) + Len(t) /\ ~(Len(s) + k <= Len(s)) /\ (Len(s) + k) - Len(s) = k
        BY <3>2
      <4>. QED
        BY <3>1, <4>1
    <3>. QED
      BY <3>1, <3>2, <3>3
  <2>2. Offset(n) = Len(s)
    BY <1>1, <1>4 DEF Offset
  <2>. HIDE DEF t, u
  <2>3. ASSUME NEW i \in 1 .. n, layers[i].disk = d, NEW j \in 1 .. layers[i].size
        PROVE  u[Offset(i) + j] = layers[i].data[j]
    <3>1. CASE i = n
      BY <1>1, <2>1, <2>2, <3>1 DEF t
    <3>2. CASE i # n
      <4>1. i \in 1 .. n - 1
        BY <1>1, <3>2
      <4>. QED
        BY <1>3, <2>1, <2>3, <4>1
    <3>. QED
      BY <3>1, <3>2
  <2>4. Joined(d, n, u)
    BY <1>1, <1>2, <1>4, <2>1, <2>3 DEF Joined
  <2>. QED
    BY <1>4, <2>4 DEF u, t
<1>5. CASE layers[n].disk # d
  <2>1. ASSUME NEW i \in 1 .. n, layers[i].disk = d PROVE i \in 1 .. n - 1
    BY <1>1, <1>5, <2>1
  <2>2. Joined(d, n, s)
    BY <1>1, <1>2, <1>3, <1>5, <2>1 DEF Joined
  <2>. QED
    BY <1>5, <2>2
<1>. QED
  BY <1>4, <1>5

\* The reference puts each block where the offsets say.
LEMMA WholeIsJoined ==
  ASSUME layers \in Seq(Layer), Annotated, NEW d \in Disk
  PROVE  Joined(d, Len(layers), Whole(d))
<1>. DEFINE fold == CHOOSE whole : whole = [s \in SUBSET DOMAIN layers |-> JoinStep(d, whole, s)]
            N == Len(layers)
<1>1. N \in Nat /\ DOMAIN layers = 1 .. N
  BY LayerType
<1>2. fold = [s \in SUBSET DOMAIN layers |-> JoinStep(d, fold, s)]
  BY <1>1, JoinExists
<1>3. Whole(d) = fold[DOMAIN layers]
  BY DEF Whole, FoldLeft, MapThenFoldSet, JoinStep
<1>. HIDE DEF fold
<1>. DEFINE Right == {n \in Nat : n <= N => Joined(d, n, fold[1 .. n])}
<1>4. 0 \in Right
  <2>1. 1 .. 0 = {}
    OBVIOUS
  <2>2. fold[{}] = <<>>
    BY <1>2 DEF JoinStep
  <2>3. Joined(d, 0, <<>>)
    BY OffsetsDef, <2>1 DEF Joined
  <2>. QED
    BY <2>1, <2>2, <2>3
<1>5. ASSUME NEW m \in Nat, m \in Right PROVE m + 1 \in Right
  <2>. DEFINE n == m + 1
              s == 1 .. n
  <2>. SUFFICES ASSUME n <= N PROVE Joined(d, n, fold[s])
    OBVIOUS
  <2>1. n \in Task /\ n - 1 = m /\ n \in Nat /\ m <= N
    BY <1>1 DEF Task
  <2>2. s \in SUBSET DOMAIN layers /\ s # {} /\ n \in s /\ s \in SUBSET (1 .. N)
    BY <1>1
  <2>3. Max(s) = n
    <3>1. Max(s) \in s /\ n <= Max(s)
      BY <1>1, <2>2, MaxIs
    <3>. QED
      BY <3>1
  <2>4. s \ {n} = 1 .. m
    OBVIOUS
  <2>5. fold[s] = IF layers[n].disk = d THEN fold[1 .. m] \o layers[n].data ELSE fold[1 .. m]
    BY <1>2, <2>2, <2>3, <2>4 DEF JoinStep
  <2>6. Joined(d, m, fold[1 .. m])
    BY <1>5, <2>1
  <2>. HIDE DEF n, s
  <2>. QED
    BY <2>1, <2>5, <2>6, JoinOne
<1>. HIDE DEF Right
<1>6. N \in Right
  BY <1>1, <1>4, <1>5, Induction
<1>. QED
  BY <1>1, <1>3, <1>6 DEF Right

---------------------------------------------------------------------------
(* The invariant of PullDisks and its tasks.                               *)

\* Where PullDisks and its tasks are.
Control ==
  /\ pc = "create" => next = 1 /\ \A d \in Disk : file[d] = <<>>
  /\ pc = "go" => next <= Len(layers)
  /\ pc \in {"wait", "returned"} => next > Len(layers) \/ cancelled
  /\ pc = "returned" => \A i \in Task : task[i] \notin {"get", "copy"}
  /\ result # "none" => pc = "returned"
  /\ result = "nil" => ~failed
  /\ cancelled => failed \/ interrupted
  /\ \A i \in Task : /\ task[i] = "new" <=> i >= next
                     /\ task[i] = "failed" => failed
                     /\ pos[i] <= Len(layers[i].data)
                     /\ task[i] \in {"new", "get"} => pos[i] = 0
                     /\ task[i] = "done" => pos[i] = Len(layers[i].data)

\* Each file has its full length, and of each layer what its task has dealt with.
Written ==
  pc # "create" =>
    /\ \A d \in Disk : Len(file[d]) = Offsets[Len(layers)][d]
    /\ \A i \in Task : \A j \in 1 .. layers[i].size :
         file[layers[i].disk][Offset(i) + j] = IF j <= pos[i] THEN layers[i].data[j] ELSE 0

IInv == TypeOK /\ Annotated /\ Control /\ Written

\* Offsets, as a function of the layers.
OffsetsOf(ls) ==
  LET offset[n \in 0 .. Len(ls)] ==
        IF n = 0 THEN [d \in Disk |-> 0]
        ELSE [offset[n - 1] EXCEPT ![ls[n].disk] = @ + ls[n].size]
  IN offset

LEMMA SameLayers ==
  ASSUME layers' = layers
  PROVE  /\ Task' = Task /\ Offsets' = Offsets /\ \A i : Offset(i)' = Offset(i)
         /\ Annotated' = Annotated
<1>1. Offsets = OffsetsOf(layers) /\ Offsets' = OffsetsOf(layers')
  BY DEF Offsets, OffsetsOf
<1>2. OffsetsOf(layers') = OffsetsOf(layers)
  OBVIOUS
<1>3. Offsets' = Offsets
  BY <1>1, <1>2
<1>4. Task' = Task
  BY DEF Task
<1>. QED
  BY <1>3, <1>4 DEF Offset, Annotated

\* The control, when a step changes neither the files nor a position.
LEMMA WrittenStays ==
  ASSUME Written, layers' = layers, file' = file, pos' = pos, pc' = "create" <=> pc = "create"
  PROVE  Written'
BY SameLayers DEF Written

LEMMA CreateKeeps == ASSUME IInv, Create PROVE IInv'
<1>. DEFINE N == Len(layers)
<1>1. /\ pc = "create" /\ pc' = "spawn" /\ file' = [d \in Disk |-> [k \in 1 .. Offsets[N][d] |-> 0]]
      /\ UNCHANGED <<layers, next, task, pos, cancelled, failed, interrupted, result>>
  BY DEF Create
<1>2. layers \in Seq(Layer) /\ N \in Nat /\ Offsets[N] \in [Disk -> Nat]
  BY LayerType, OffsetsType DEF IInv, TypeOK
<1>3. ASSUME NEW d \in Disk
      PROVE  /\ file'[d] \in Seq(Block) /\ Len(file'[d]) = Offsets[N][d]
             /\ \A k \in 1 .. Offsets[N][d] : file'[d][k] = 0
  <2>. DEFINE n == Offsets[N][d]
  <2>1. n \in Nat /\ file'[d] = [k \in 1 .. n |-> 0]
    BY <1>1, <1>2
  <2>. HIDE DEF n
  <2>2. 0 \in Block
    BY ConstantsAssumption
  <2>3. file'[d] \in Seq(Block)
    BY <2>1, <2>2
  <2>. QED
    BY <2>1, <2>3 DEF n
<1>4. TypeOK'
  BY <1>1, <1>3, SameLayers DEF IInv, TypeOK
<1>5. Control'
  BY <1>1, SameLayers DEF IInv, Control
<1>6. ASSUME NEW i \in Task, NEW j \in 1 .. layers[i].size
      PROVE  file'[layers[i].disk][Offset(i) + j] = 0 /\ ~(j <= pos[i])
  <2>1. /\ Offset(i) \in Nat /\ layers[i].size \in Nat /\ layers[i].disk \in Disk
        /\ Offset(i) + layers[i].size <= Offsets[N][layers[i].disk]
    BY <1>2, OffsetType, LayerType
  <2>2. Offsets[N][layers[i].disk] \in Nat
    BY <1>2, <2>1
  <2>3. Offset(i) + j \in 1 .. Offsets[N][layers[i].disk]
    BY <2>1, <2>2
  <2>4. i >= 1
    BY LayerType DEF IInv, TypeOK
  <2>5. pos[i] = 0
    BY <1>1, <2>4 DEF IInv, Control
  <2>. QED
    BY <1>3, <2>1, <2>3, <2>5
<1>7. Written'
  <2>1. layers' = layers /\ pos' = pos
    BY <1>1
  <2>2. /\ Task' = Task /\ Offsets'[Len(layers')] = Offsets[N]
        /\ \A i \in Task : Offset(i)' = Offset(i)
    BY <2>1, SameLayers
  <2>. QED
    BY <1>3, <1>6, <2>1, <2>2 DEF Written
<1>. QED
  BY <1>1, <1>4, <1>5, <1>7, SameLayers DEF IInv

LEMMA SpawnKeeps == ASSUME IInv, Spawn PROVE IInv'
<1>1. /\ pc = "spawn" /\ pc' = IF cancelled \/ next > Len(layers) THEN "wait" ELSE "go"
      /\ UNCHANGED <<layers, file, next, task, pos, cancelled, failed, interrupted, result>>
  BY DEF Spawn
<1>2. TypeOK'
  BY <1>1, SameLayers DEF IInv, TypeOK
<1>3. Control'
  <2>1. Len(layers) \in Nat /\ next \in Nat
    BY LayerType DEF IInv, TypeOK
  <2>. QED
    BY <1>1, <2>1, SameLayers DEF IInv, Control
<1>4. Written'
  BY <1>1, WrittenStays DEF IInv
<1>. QED
  BY <1>1, <1>2, <1>3, <1>4, SameLayers DEF IInv

LEMMA GoKeeps == ASSUME IInv, Go PROVE IInv'
<1>1. /\ pc = "go" /\ pc' = "spawn" /\ task' = [task EXCEPT ![next] = "get"] /\ next' = next + 1
      /\ UNCHANGED <<layers, file, pos, cancelled, failed, interrupted, result>>
  BY DEF Go
<1>2. /\ Len(layers) \in Nat /\ next \in Nat /\ next <= Len(layers) /\ next \in Task
      /\ \A i \in Task : i \in Nat
  <2>1. Task = 1 .. Len(layers) /\ Len(layers) \in Nat
    BY LayerType DEF IInv, TypeOK
  <2>2. next \in 1 .. Len(layers) + 1 /\ next <= Len(layers)
    BY <1>1 DEF IInv, TypeOK, Control
  <2>. QED
    BY <2>1, <2>2
<1>3. TypeOK'
  <2>1. task' \in [Task -> {"new", "get", "copy", "done", "failed"}]
    BY <1>1 DEF IInv, TypeOK
  <2>2. next' \in 1 .. Len(layers) + 1
    BY <1>1, <1>2
  <2>. QED
    BY <1>1, <2>1, <2>2, SameLayers DEF IInv, TypeOK
<1>4. task[next] = "new" /\ pos[next] = 0 /\ result = "none"
  BY <1>1, <1>2 DEF IInv, Control
<1>5. ASSUME NEW i \in Task
      PROVE  /\ task'[i] = "new" <=> i >= next'
             /\ task'[i] = "failed" => failed
             /\ pos[i] <= Len(layers[i].data)
             /\ task'[i] \in {"new", "get"} => pos[i] = 0
             /\ task'[i] = "done" => pos[i] = Len(layers[i].data)
  <2>1. CASE i = next
    BY <1>1, <1>2, <1>4, <2>1 DEF IInv, TypeOK, Control
  <2>2. CASE i # next
    <3>1. task'[i] = task[i] /\ (i >= next' <=> i >= next)
      BY <1>1, <1>2, <2>2 DEF IInv, TypeOK
    <3>. QED
      BY <3>1 DEF IInv, Control
  <2>. QED
    BY <2>1, <2>2
<1>6. Control'
  BY <1>1, <1>4, <1>5, SameLayers DEF IInv, Control
<1>7. Written'
  BY <1>1, WrittenStays DEF IInv
<1>. QED
  BY <1>1, <1>3, <1>6, <1>7, SameLayers DEF IInv

LEMMA WaitKeeps == ASSUME IInv, Wait PROVE IInv'
<1>1. /\ pc = "wait" /\ pc' = "returned" /\ Running = {} /\ result' = IF failed THEN "error" ELSE "nil"
      /\ UNCHANGED <<layers, file, next, task, pos, cancelled, failed, interrupted>>
  BY DEF Wait
<1>2. TypeOK'
  BY <1>1, SameLayers DEF IInv, TypeOK
<1>3. \A i \in Task : task[i] \notin {"get", "copy"}
  BY <1>1 DEF Running
<1>4. Control'
  BY <1>1, <1>3, SameLayers DEF IInv, Control
<1>5. Written'
  BY <1>1, WrittenStays DEF IInv
<1>. QED
  BY <1>1, <1>2, <1>4, <1>5, SameLayers DEF IInv

\* A task goes on, and neither writes nor leaves its slot without a reason.
LEMMA TaskKeeps ==
  ASSUME IInv, NEW i \in Task, BlobGet(i) \/ TaskDone(i) \/ TaskFail(i)
  PROVE  IInv'
<1>1. PICK t \in {"copy", "done", "failed"} :
        /\ task' = [task EXCEPT ![i] = t] /\ task[i] \in {"get", "copy"}
        /\ t = "done" => pos[i] = Len(layers[i].data)
        /\ t = "failed" => failed' /\ cancelled'
        /\ t # "failed" => UNCHANGED <<failed, cancelled>>
  BY DEF BlobGet, TaskDone, TaskFail
<1>2. UNCHANGED <<layers, file, pc, next, pos, interrupted, result>>
  BY DEF BlobGet, TaskDone, TaskFail
<1>3. /\ failed' \in BOOLEAN /\ cancelled' \in BOOLEAN /\ (failed => failed')
      /\ cancelled' => failed' \/ interrupted
  <2>1. CASE TaskFail(i)
    BY <2>1 DEF TaskFail
  <2>2. CASE BlobGet(i) \/ TaskDone(i)
    BY <2>2 DEF BlobGet, TaskDone, IInv, TypeOK, Control
  <2>. QED
    BY <2>1, <2>2
<1>4. TypeOK'
  BY <1>1, <1>2, <1>3, SameLayers DEF IInv, TypeOK
<1>5. ASSUME NEW h \in Task
      PROVE  /\ task'[h] = "new" <=> h >= next
             /\ task'[h] = "failed" => failed'
             /\ pos[h] <= Len(layers[h].data)
             /\ task'[h] \in {"new", "get"} => pos[h] = 0
             /\ task'[h] = "done" => pos[h] = Len(layers[h].data)
             /\ task'[h] \in {"get", "copy"} => task[h] \in {"get", "copy"}
  <2>1. CASE h = i
    BY <1>1, <2>1 DEF IInv, TypeOK, Control
  <2>2. CASE h # i
    <3>1. task'[h] = task[h]
      BY <1>1, <2>2 DEF IInv, TypeOK
    <3>. QED
      BY <1>3, <3>1 DEF IInv, Control
  <2>. QED
    BY <2>1, <2>2
<1>6. pc # "returned" /\ result = "none"
  BY <1>1 DEF IInv, Control
<1>7. pc \in {"wait", "returned"} => next > Len(layers) \/ cancelled'
  BY <1>1 DEF IInv, Control
<1>8. pc # "create"
  <2>1. Task = 1 .. Len(layers) /\ Len(layers) \in Nat
    BY LayerType DEF IInv, TypeOK
  <2>2. i >= 1
    BY <2>1
  <2>. QED
    BY <1>1, <2>2 DEF IInv, Control
<1>9. Control'
  BY <1>2, <1>3, <1>5, <1>6, <1>7, <1>8, SameLayers DEF IInv, Control
<1>10. Written'
  BY <1>2, WrittenStays DEF IInv
<1>. QED
  BY <1>2, <1>4, <1>9, <1>10, SameLayers DEF IInv

LEMMA InterruptKeeps == ASSUME IInv, Interrupt PROVE IInv'
<1>1. /\ pc # "returned" /\ interrupted' = TRUE /\ cancelled' = TRUE
      /\ UNCHANGED <<layers, file, pc, next, task, pos, failed, result>>
  BY DEF Interrupt
<1>2. TypeOK'
  BY <1>1, SameLayers DEF IInv, TypeOK
<1>3. Control'
  BY <1>1, SameLayers DEF IInv, Control
<1>4. Written'
  BY <1>1, WrittenStays DEF IInv
<1>. QED
  BY <1>1, <1>2, <1>3, <1>4, SameLayers DEF IInv

\* A write inside a file.
LEMMA WriteAtInside ==
  ASSUME NEW f \in Seq(Block), NEW k \in 1 .. Len(f), NEW b \in Block
  PROVE  /\ WriteAt(f, k, b) \in Seq(Block) /\ Len(WriteAt(f, k, b)) = Len(f)
         /\ \A j \in 1 .. Len(f) : WriteAt(f, k, b)[j] = IF j = k THEN b ELSE f[j]
<1>1. Len(f) \in Nat /\ DOMAIN f = 1 .. Len(f) /\ ~(k > Len(f))
  OBVIOUS
<1>2. WriteAt(f, k, b) = [j \in 1 .. Len(f) |-> IF j = k THEN b ELSE f[j]]
  BY <1>1 DEF WriteAt
<1>3. \A j \in 1 .. Len(f) : (IF j = k THEN b ELSE f[j]) \in Block
  OBVIOUS
<1>. QED
  BY <1>1, <1>2, <1>3

\* What a task writes was a hole, and is of no other layer.
LEMMA CopyBlockEffect ==
  ASSUME IInv, NEW i \in Task, CopyBlock(i)
  PROVE  /\ pos' = [pos EXCEPT ![i] = @ + 1] /\ pos[i] + 1 \in 1 .. layers[i].size
         /\ pc # "create" /\ DOMAIN file' = Disk
         /\ \A d \in Disk : /\ file'[d] \in Seq(Block) /\ Len(file'[d]) = Len(file[d])
                            /\ \A k \in 1 .. Len(file[d]) :
                                 IF d = layers[i].disk /\ k = Offset(i) + pos[i] + 1
                                 THEN file[d][k] = 0 /\ file'[d][k] = layers[i].data[pos[i] + 1]
                                 ELSE file'[d][k] = file[d][k]
<1>. DEFINE j == pos[i] + 1
            b == layers[i].data[j]
            e == layers[i].disk
            at == Offset(i) + pos[i] + 1
<1>1. /\ task[i] = "copy" /\ pos[i] < Len(layers[i].data) /\ pos' = [pos EXCEPT ![i] = j]
      /\ file' = IF b = 0 THEN file ELSE [file EXCEPT ![e] = WriteAt(file[e], at, b)]
  BY DEF CopyBlock
<1>2. layers \in Seq(Layer) /\ DOMAIN file = Disk /\ \A d \in Disk : file[d] \in Seq(Block)
  BY DEF IInv, TypeOK
<1>3. /\ Task = 1 .. Len(layers) /\ Len(layers) \in Nat /\ e \in Disk /\ layers[i].size \in Nat
      /\ layers[i].data \in Seq(Block) /\ layers[i].size = Len(layers[i].data)
      /\ pos[i] \in Nat
  BY <1>2, LayerType DEF IInv, TypeOK, Annotated
<1>4. pc # "create"
  <2>1. i >= 1
    BY <1>3
  <2>. QED
    BY <1>1, <2>1 DEF IInv, Control
<1>5. j \in 1 .. layers[i].size /\ ~(j <= pos[i]) /\ b \in Block
  BY <1>1, <1>3
<1>6. Offset(i) \in Nat /\ Offset(i) + layers[i].size <= Len(file[e])
  BY <1>2, <1>3, <1>4, OffsetType DEF IInv, Written
<1>7. at \in 1 .. Len(file[e]) /\ at = Offset(i) + j
  <2>1. Len(file[e]) \in Nat
    BY <1>2, <1>3
  <2>. DEFINE L == Len(file[e])
              z == layers[i].size
              o == Offset(i)
              q == pos[i]
  <2>2. L \in Nat /\ z \in Nat /\ o \in Nat /\ q \in Nat /\ o + z <= L /\ q + 1 <= z
    BY <1>3, <1>5, <1>6, <2>1
  <2>. HIDE DEF L, z, o, q
  <2>3. o + q + 1 \in 1 .. L /\ o + q + 1 = o + (q + 1)
    BY <2>2
  <2>. QED
    BY <2>3 DEF L, z, o, q
<1>8. file[e][at] = 0
  BY <1>4, <1>5, <1>7 DEF IInv, Written
<1>. HIDE DEF b, e, at, j
<1>9. ASSUME NEW d \in Disk
      PROVE  /\ file'[d] \in Seq(Block) /\ Len(file'[d]) = Len(file[d])
             /\ \A k \in 1 .. Len(file[d]) :
                  IF d = e /\ k = at THEN file[d][k] = 0 /\ file'[d][k] = b ELSE file'[d][k] = file[d][k]
  <2>1. CASE b = 0
    BY <1>1, <1>2, <1>8, <2>1
  <2>2. CASE b # 0 /\ d = e
    <3>1. file'[d] = WriteAt(file[e], at, b)
      BY <1>1, <1>2, <2>2
    <3>. DEFINE f == file[e]
                w == WriteAt(f, at, b)
    <3>2. f \in Seq(Block) /\ at \in 1 .. Len(f)
      BY <1>2, <1>7, <2>2
    <3>. HIDE DEF f, w
    <3>3. /\ w \in Seq(Block) /\ Len(w) = Len(f)
          /\ \A k \in 1 .. Len(f) : w[k] = IF k = at THEN b ELSE f[k]
      BY <1>5, <3>2, WriteAtInside DEF w
    <3>. QED
      BY <1>8, <2>2, <3>1, <3>3 DEF f, w
  <2>3. CASE b # 0 /\ d # e
    BY <1>1, <1>2, <2>3
  <2>. QED
    BY <2>1, <2>2, <2>3
<1>10. DOMAIN file' = Disk
  BY <1>1, <1>2
<1>. QED
  BY <1>1, <1>4, <1>5, <1>9, <1>10 DEF b, e, at, j

LEMMA CopyBlockKeeps == ASSUME IInv, NEW i \in Task, CopyBlock(i) PROVE IInv'
<1>1. UNCHANGED <<layers, pc, next, task, cancelled, failed, interrupted, result>> /\ task[i] = "copy"
  BY DEF CopyBlock
<1>. DEFINE at == Offset(i) + pos[i] + 1
            e == layers[i].disk
            b == layers[i].data[pos[i] + 1]
<1>2. /\ pos' = [pos EXCEPT ![i] = pos[i] + 1] /\ pos[i] + 1 \in 1 .. layers[i].size
      /\ pc # "create" /\ DOMAIN file' = Disk
      /\ \A d \in Disk : /\ file'[d] \in Seq(Block) /\ Len(file'[d]) = Len(file[d])
                         /\ \A k \in 1 .. Len(file[d]) :
                              IF d = e /\ k = at THEN file'[d][k] = b ELSE file'[d][k] = file[d][k]
  BY CopyBlockEffect
<1>3. /\ layers \in Seq(Layer) /\ Annotated /\ pos \in [Task -> Nat] /\ Len(layers) \in Nat
      /\ \A h \in Task : layers[h].disk \in Disk /\ layers[h].size \in Nat
      /\ \A h \in Task : layers[h].size = Len(layers[h].data)
  BY LayerType DEF IInv, TypeOK, Annotated
<1>4. pos' \in [Task -> Nat]
  BY <1>2, <1>3
<1>5. TypeOK'
  BY <1>1, <1>2, <1>4, SameLayers DEF IInv, TypeOK
<1>6. ASSUME NEW h \in Task
      PROVE  /\ pos'[h] <= Len(layers[h].data)
             /\ task[h] \in {"new", "get"} => pos'[h] = 0
             /\ task[h] = "done" => pos'[h] = Len(layers[h].data)
  <2>1. CASE h = i
    <3>1. pos'[h] = pos[i] + 1 /\ pos[i] + 1 <= Len(layers[h].data)
      BY <1>2, <1>3, <2>1
    <3>. QED
      BY <1>1, <2>1, <3>1
  <2>2. CASE h # i
    BY <1>2, <1>3, <2>2 DEF IInv, Control
  <2>. QED
    BY <2>1, <2>2
<1>7. Control'
  BY <1>1, <1>2, <1>6, SameLayers DEF IInv, Control
<1>8. ASSUME NEW h \in Task, NEW j \in 1 .. layers[h].size
      PROVE  file'[layers[h].disk][Offset(h) + j] = IF j <= pos'[h] THEN layers[h].data[j] ELSE 0
  <2>. DEFINE d == layers[h].disk
              k == Offset(h) + j
  <2>1. file[d][k] = IF j <= pos[h] THEN layers[h].data[j] ELSE 0
    BY <1>2 DEF IInv, Written
  <2>2. d \in Disk /\ k \in 1 .. Len(file[d])
    <3>1. /\ Offset(h) \in Nat /\ Offset(h) + layers[h].size <= Offsets[Len(layers)][d] /\ d \in Disk
          /\ layers[h].size \in Nat
      BY <1>3, OffsetType
    <3>2. Len(file[d]) = Offsets[Len(layers)][d] /\ Len(file[d]) \in Nat
      BY <1>2, <3>1 DEF IInv, Written, TypeOK
    <3>. QED
      BY <3>1, <3>2
  <2>3. CASE h = i
    <3>1. pos'[h] = pos[i] + 1 /\ pos[i] \in Nat /\ j \in Nat /\ Offset(i) \in Nat
      BY <1>2, <1>3, <2>3, OffsetType
    <3>2. CASE j = pos[i] + 1
      <4>1. d = e /\ k = at
        BY <2>3, <3>1, <3>2
      <4>2. file'[d][k] = b
        BY <1>2, <2>2, <4>1
      <4>. QED
        BY <2>3, <3>1, <3>2, <4>2
    <3>3. CASE j # pos[i] + 1
      <4>1. k # at
        BY <2>3, <3>1, <3>3
      <4>2. file'[d][k] = file[d][k]
        BY <1>2, <2>2, <4>1
      <4>3. j <= pos'[h] <=> j <= pos[h]
        BY <2>3, <3>1, <3>3
      <4>. QED
        BY <2>1, <4>2, <4>3
    <3>. QED
      BY <3>2, <3>3
  <2>4. CASE h # i
    <3>1. pos'[h] = pos[h]
      BY <1>2, <1>3, <2>4
    <3>2. ~(d = e /\ k = at)
      <4>. SUFFICES ASSUME d = e, k = at PROVE FALSE
        OBVIOUS
      <4>1. Offset(h) + j = Offset(i) + (pos[i] + 1)
        BY <1>3, OffsetType
      <4>. QED
        BY <1>2, <1>3, <2>4, <4>1, RangesAreDisjoint
    <3>3. file'[d][k] = file[d][k]
      BY <1>2, <2>2, <3>2
    <3>. QED
      BY <2>1, <3>1, <3>3
  <2>. QED
    BY <2>3, <2>4
<1>9. Written'
  <2>1. \A d \in Disk : Len(file'[d]) = Offsets[Len(layers)][d]
    BY <1>2 DEF IInv, Written
  <2>2. layers' = layers
    BY <1>1
  <2>3. Task' = Task /\ Offsets' = Offsets /\ \A h \in Task : Offset(h)' = Offset(h)
    BY <2>2, SameLayers
  <2>. QED
    BY <1>8, <2>1, <2>2, <2>3 DEF Written
<1>. QED
  BY <1>1, <1>3, <1>5, <1>7, <1>9, SameLayers DEF IInv

---------------------------------------------------------------------------
(* The theorems.                                                           *)

\* PullDisks begins with the invariant, given a manifest with the right annotations.
LEMMA BeginIInv ==
  layers \in Seq(Layer) /\ Annotated /\ Begin(layers) => IInv
<1>. SUFFICES ASSUME layers \in Seq(Layer), Annotated, Begin(layers) PROVE IInv
  OBVIOUS
<1>1. /\ file = [d \in Disk |-> <<>>] /\ pc = "create" /\ next = 1
      /\ task = [i \in DOMAIN layers |-> "new"] /\ pos = [i \in DOMAIN layers |-> 0]
      /\ cancelled = FALSE /\ failed = FALSE /\ interrupted = FALSE /\ result = "none"
  BY DEF Begin
<1>2. /\ DOMAIN layers = 1 .. Len(layers) /\ Task = 1 .. Len(layers) /\ Len(layers) \in Nat
      /\ \A i \in Task : layers[i].data \in Seq(Block)
  BY LayerType
<1>3. TypeOK
  <2>1. DOMAIN file = Disk /\ \A d \in Disk : file[d] \in Seq(Block)
    BY <1>1
  <2>2. /\ task \in [Task -> {"new", "get", "copy", "done", "failed"}] /\ pos \in [Task -> Nat]
        /\ next \in 1 .. Len(layers) + 1
    BY <1>1, <1>2
  <2>. QED
    BY <1>1, <2>1, <2>2 DEF TypeOK
<1>4. \A i \in Task : i \in Nat /\ i >= 1 /\ Len(layers[i].data) \in Nat
  BY <1>2
<1>5. Control
  BY <1>1, <1>2, <1>4 DEF Control
<1>6. Written
  BY <1>1 DEF Written
<1>. QED
  BY <1>3, <1>5, <1>6 DEF IInv

LEMMA NextIInv == IInv /\ [Next]_vars => IInv'
<1>. SUFFICES ASSUME IInv, [Next]_vars PROVE IInv'
  OBVIOUS
<1>1. ASSUME NEW i \in Task, Progress(i) PROVE IInv'
  BY <1>1, TaskKeeps, CopyBlockKeeps DEF Progress
<1>2. CASE UNCHANGED vars
  <2>1. UNCHANGED <<layers, file, pc, next, task, pos, cancelled, failed, interrupted, result>>
    BY <1>2 DEF vars
  <2>2. TypeOK' /\ Control'
    BY <2>1, SameLayers DEF IInv, TypeOK, Control
  <2>3. Written'
    BY <2>1, WrittenStays DEF IInv
  <2>. QED
    BY <2>1, <2>2, <2>3, SameLayers DEF IInv
<1>. QED
  BY <1>1, <1>2, CreateKeeps, SpawnKeeps, GoKeeps, WaitKeeps, InterruptKeeps DEF Next, Returned

\* Each file has, of each layer of its disk, what the layer's task has dealt with,
\* at the layer's offset, whichever tasks run together: this is an invariant.
THEOREM Invariance == Spec => []IInv
<1>1. Init => IInv
  <2>. SUFFICES ASSUME NEW m \in Manifests, Begin(m) PROVE IInv
    BY DEF Init
  <2>1. layers = m /\ Begin(layers)
    BY DEF Begin
  <2>2. layers \in Seq(Layer) /\ \A i \in DOMAIN layers : layers[i].size = Len(layers[i].data)
    BY <2>1, ConstantsAssumption
  <2>3. DOMAIN layers = Task
    BY <2>2, LayerType
  <2>. QED
    BY <2>1, <2>2, <2>3, BeginIInv DEF Annotated
<1>. QED
  BY <1>1, NextIInv, PTL DEF Spec

\* The variables of PullDisks keep their types.
THEOREM TypeCorrect == Spec => []TypeOK
BY Invariance, PTL DEF IInv

LEMMA IInvPulled == IInv => PulledIsWhole
<1>. SUFFICES ASSUME IInv, result = "nil", ~interrupted, NEW d \in Disk PROVE file[d] = Whole(d)
  BY DEF PulledIsWhole
<1>1. pc = "returned" /\ ~failed /\ ~cancelled /\ next > Len(layers)
  BY DEF IInv, Control
<1>2. /\ layers \in Seq(Layer) /\ Annotated /\ Len(layers) \in Nat /\ next \in Nat
      /\ Task = 1 .. Len(layers) /\ file[d] \in Seq(Block)
      /\ \A i \in Task : layers[i].size = Len(layers[i].data) /\ layers[i].size \in Nat
  BY LayerType DEF IInv, TypeOK, Annotated
<1>3. ASSUME NEW i \in Task PROVE pos[i] = layers[i].size
  <2>1. ~(i >= next)
    BY <1>1, <1>2
  <2>2. task[i] = "done"
    BY <1>1, <2>1 DEF IInv, Control, TypeOK
  <2>. QED
    BY <1>2, <2>2 DEF IInv, Control
<1>4. Joined(d, Len(layers), Whole(d))
  BY <1>2, WholeIsJoined
<1>5. Whole(d) \in Seq(Block) /\ Len(Whole(d)) = Len(file[d])
  BY <1>1, <1>4 DEF Joined, IInv, Written
<1>6. ASSUME NEW k \in 1 .. Len(file[d]) PROVE file[d][k] = Whole(d)[k]
  <2>1. k \in 1 .. Offsets[Len(layers)][d]
    BY <1>1 DEF IInv, Written
  <2>2. PICK i \in Task : \E j \in 1 .. layers[i].size : layers[i].disk = d /\ k = Offset(i) + j
    BY <1>2, <2>1, RangesCover
  <2>3. PICK j \in 1 .. layers[i].size : layers[i].disk = d /\ k = Offset(i) + j
    BY <2>2
  <2>4. j <= pos[i]
    BY <1>2, <1>3, <2>3
  <2>5. file[d][k] = layers[i].data[j]
    BY <1>1, <2>3, <2>4 DEF IInv, Written
  <2>6. Whole(d)[k] = layers[i].data[j]
    BY <1>2, <1>4, <2>3 DEF Joined
  <2>. QED
    BY <2>5, <2>6
<1>. HIDE DEF Whole
<1>. QED
  BY <1>2, <1>5, <1>6, SeqEqual

\* When PullDisks returns nil, and no signal has come, every disk is what its
\* layers say, for any manifest and any number of concurrent tasks.
THEOREM PulledIsWholeAlways == Spec => []PulledIsWhole
BY IInvPulled, Invariance, PTL

\* Concurrent tasks never write over what another one, or they themselves, wrote.
THEOREM WritesAreDisjointAlways == Spec => WritesAreDisjoint
<1>. DEFINE Kept == \A d \in Disk : \A k \in DOMAIN file[d] :
                      file[d][k] # 0 => file'[d][k] = file[d][k]
<1>1. IInv /\ [Next]_vars => [Kept]_vars
  <2>. SUFFICES ASSUME IInv, Next PROVE Kept \/ file' = file
    BY DEF vars
  <2>1. ASSUME Create PROVE Kept
    BY <2>1 DEF Create, IInv, Control
  <2>2. ASSUME NEW i \in Task, CopyBlock(i) PROVE Kept
    <3>. SUFFICES ASSUME NEW d \in Disk, NEW k \in DOMAIN file[d], file[d][k] # 0
                  PROVE  file'[d][k] = file[d][k]
      OBVIOUS
    <3>1. k \in 1 .. Len(file[d])
      BY DEF IInv, TypeOK
    <3>. QED
      BY <2>2, <3>1, CopyBlockEffect
  <2>3. ASSUME NEW i \in Task, Progress(i), ~CopyBlock(i) PROVE file' = file
    BY <2>3 DEF Progress, BlobGet, TaskDone, TaskFail
  <2>. QED
    BY <2>1, <2>2, <2>3 DEF Next, Spawn, Go, Wait, Interrupt, Returned, vars
<1>. QED
  BY <1>1, Invariance, PTL DEF Spec, WritesAreDisjoint

=============================================================================
