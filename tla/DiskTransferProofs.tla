------------------------- MODULE DiskTransferProofs -------------------------
(* That a VM which is pushed and pulled arrives with the disks it had, for   *)
(* any disks, chunk sizes and numbers of tasks: every push leaves the disks  *)
(* in the manifest, and DiskPullProofs has what a pull makes of it.          *)
EXTENDS DiskTransfer, FiniteSetTheorems, SequenceTheorems, TLAPS

\* The results about the pull.
PullProofs == INSTANCE DiskPullProofs WITH
  Disk <- Name, Manifests <- {}, layers <- fetched, result <- pulled

LEMMA Induction ==
  ASSUME NEW S, 0 \in S, \A n \in Nat : n \in S => n + 1 \in S
  PROVE  Nat \subseteq S
BY PullProofs!Induction, NamesAssumption

LEMMA MaxIs ==
  ASSUME NEW N \in Nat, NEW s \in SUBSET (1 .. N), s # {}
  PROVE  Max(s) \in s /\ \A x \in s : x <= Max(s)
<1>1. s \subseteq Nat /\ \A n \in s : n <= N
  OBVIOUS
<1>2. \E m \in s : \A n \in s : n <= m
  BY <1>1, PullProofs!Largest, NamesAssumption
<1>3. \E m \in s : \A n \in s : m >= n
  BY <1>1, <1>2
<1>4. Max(s) \in s /\ \A n \in s : Max(s) >= n
  BY <1>3 DEF Max
<1>. QED
  BY <1>1, <1>4

---------------------------------------------------------------------------
(* Sequences of sequences, joined by folds.                                *)

\* FoldLeft computes along all sets of positions, each without its largest one.
LEMMA JoinExists ==
  ASSUME NEW N \in Nat, NEW part \in [1 .. N -> Seq(Block)]
  PROVE  \E whole \in [SUBSET (1 .. N) -> Seq(Block)] :
           \A s \in SUBSET (1 .. N) :
             whole[s] = IF s = {} THEN <<>> ELSE whole[s \ {Max(s)}] \o part[Max(s)]
<1>. DEFINE U == 1 .. N
            Small(n) == {s \in SUBSET U : Cardinality(s) <= n}
            Joins(whole, n) == \A s \in Small(n) :
              whole[s] = IF s = {} THEN <<>> ELSE whole[s \ {Max(s)}] \o part[Max(s)]
            Defined == {n \in Nat : \E whole \in [Small(n) -> Seq(Block)] : Joins(whole, n)}
<1>0. IsFiniteSet(U)
  BY FS_Interval
<1>1. \A s \in SUBSET U : IsFiniteSet(s) /\ Cardinality(s) \in Nat /\ Cardinality(s) <= Cardinality(U)
  BY <1>0, FS_Subset, FS_CardinalityType
<1>2. ASSUME NEW s \in SUBSET U, s # {}
      PROVE  /\ s \ {Max(s)} \in SUBSET U /\ Cardinality(s \ {Max(s)}) = Cardinality(s) - 1
             /\ part[Max(s)] \in Seq(Block)
  BY <1>1, <1>2, MaxIs, FS_RemoveElement
<1>. HIDE DEF U
<1>3. 0 \in Defined
  <2>1. \A s \in Small(0) : s = {}
    BY <1>1, FS_EmptySet
  <2>. DEFINE whole == [s \in Small(0) |-> <<>>]
  <2>2. whole \in [Small(0) -> Seq(Block)] /\ Joins(whole, 0)
    BY <2>1
  <2>. HIDE DEF whole, Joins
  <2>. QED
    BY <2>2
<1>4. ASSUME NEW n \in Nat, n \in Defined PROVE n + 1 \in Defined
  <2>1. PICK whole \in [Small(n) -> Seq(Block)] : Joins(whole, n)
    BY <1>4
  <2>. DEFINE more == [s \in Small(n + 1) |->
                         IF s = {} THEN <<>> ELSE whole[s \ {Max(s)}] \o part[Max(s)]]
  <2>2. ASSUME NEW s \in Small(n + 1), s # {}
        PROVE  s \ {Max(s)} \in Small(n) /\ s \ {Max(s)} \in Small(n + 1)
    <3>1. s \in SUBSET U /\ Cardinality(s) \in Nat /\ Cardinality(s) <= n + 1
      BY <1>1
    <3>2. s \ {Max(s)} \in SUBSET U /\ Cardinality(s \ {Max(s)}) = Cardinality(s) - 1
      BY <1>2, <2>2, <3>1
    <3>. QED
      BY <3>1, <3>2
  <2>3. \A s \in Small(n) : s \in Small(n + 1) /\ more[s] = whole[s]
    <3>. SUFFICES ASSUME NEW s \in Small(n) PROVE s \in Small(n + 1) /\ more[s] = whole[s]
      OBVIOUS
    <3>1. s \in Small(n + 1)
      BY <1>1
    <3>2. whole[s] = IF s = {} THEN <<>> ELSE whole[s \ {Max(s)}] \o part[Max(s)]
      BY <2>1
    <3>. HIDE DEF Small
    <3>. QED
      BY <3>1, <3>2
  <2>4. more \in [Small(n + 1) -> Seq(Block)]
    <3>1. ASSUME NEW s \in Small(n + 1) PROVE (IF s = {} THEN <<>> ELSE whole[s \ {Max(s)}] \o part[Max(s)]) \in Seq(Block)
      <4>1. CASE s # {}
        <5>1. whole[s \ {Max(s)}] \in Seq(Block) /\ part[Max(s)] \in Seq(Block)
          BY <1>2, <2>1, <2>2, <4>1
        <5>. QED
          BY <4>1, <5>1
      <4>. QED
        BY <4>1
    <3>. QED
      BY <3>1
  <2>5. Joins(more, n + 1)
    <3>. SUFFICES ASSUME NEW s \in Small(n + 1)
                  PROVE  more[s] = IF s = {} THEN <<>> ELSE more[s \ {Max(s)}] \o part[Max(s)]
      OBVIOUS
    <3>1. CASE s = {}
      BY <3>1
    <3>2. CASE s # {}
      <4>1. more[s] = whole[s \ {Max(s)}] \o part[Max(s)]
        BY <3>2
      <4>2. more[s \ {Max(s)}] = whole[s \ {Max(s)}]
        BY <2>2, <2>3, <3>2
      <4>. QED
        BY <3>2, <4>1, <4>2
    <3>. QED
      BY <3>1, <3>2
  <2>. HIDE DEF more, Joins
  <2>6. n + 1 \in Nat
    OBVIOUS
  <2>. QED
    BY <2>4, <2>5, <2>6
<1>5. Cardinality(U) \in Defined
  <2>. HIDE DEF Defined
  <2>1. Nat \subseteq Defined
    BY <1>3, <1>4, Induction
  <2>. QED
    BY <2>1, <1>1
<1>6. Small(Cardinality(U)) = SUBSET U
  BY <1>1
<1>7. PICK whole \in [SUBSET U -> Seq(Block)] : Joins(whole, Cardinality(U))
  BY <1>5, <1>6
<1>. QED
  BY <1>6, <1>7 DEF U

\* What such a fold has along the initial segments.
LEMMA JoinSegments ==
  ASSUME NEW N \in Nat, NEW part \in [1 .. N -> Seq(Block)], NEW whole,
         \A s \in SUBSET (1 .. N) :
           whole[s] = IF s = {} THEN <<>> ELSE whole[s \ {Max(s)}] \o part[Max(s)]
  PROVE  /\ whole[1 .. 0] = <<>>
         /\ \A n \in 1 .. N : whole[1 .. n] = whole[1 .. n - 1] \o part[n]
         /\ \A n \in 0 .. N : whole[1 .. n] \in Seq(Block)
<1>1. whole[1 .. 0] = <<>>
  <2>1. 1 .. 0 = {} /\ {} \in SUBSET (1 .. N)
    OBVIOUS
  <2>. QED
    BY <2>1
<1>2. ASSUME NEW n \in 1 .. N PROVE whole[1 .. n] = whole[1 .. n - 1] \o part[n]
  <2>. DEFINE s == 1 .. n
  <2>1. s \in SUBSET (1 .. N) /\ s # {} /\ n \in s /\ n \in Nat
    <3>1. n \in Nat /\ 1 <= n /\ n <= N
      OBVIOUS
    <3>2. n \in 1 .. n /\ \A i \in 1 .. n : i \in 1 .. N
      BY <3>1
    <3>. QED
      BY <3>1, <3>2
  <2>2. Max(s) = n
    <3>1. Max(s) \in s /\ n <= Max(s)
      BY <2>1, MaxIs
    <3>. QED
      BY <3>1
  <2>3. s \ {n} = 1 .. n - 1
    OBVIOUS
  <2>4. whole[s] = whole[s \ {Max(s)}] \o part[Max(s)]
    <3>. HIDE DEF s
    <3>. QED
      BY <2>1
  <2>. QED
    BY <2>2, <2>3, <2>4
<1>. DEFINE Typed == {n \in Nat : n <= N => whole[1 .. n] \in Seq(Block)}
<1>3. 0 \in Typed
  <2>1. whole[1 .. 0] \in Seq(Block)
    BY <1>1, EmptySeq
  <2>. QED
    BY <2>1
<1>4. ASSUME NEW m \in Nat, m \in Typed PROVE m + 1 \in Typed
  <2>. DEFINE n == m + 1
  <2>. SUFFICES ASSUME n <= N PROVE whole[1 .. n] \in Seq(Block)
    OBVIOUS
  <2>1. n \in 1 .. N /\ n - 1 = m /\ m <= N
    OBVIOUS
  <2>2. whole[1 .. m] \in Seq(Block) /\ part[n] \in Seq(Block)
    BY <1>4, <2>1
  <2>3. whole[1 .. n] = whole[1 .. m] \o part[n]
    BY <1>2, <2>1
  <2>. QED
    BY <2>2, <2>3
<1>. HIDE DEF Typed
<1>5. Nat \subseteq Typed
  BY <1>3, <1>4, Induction
<1>6. \A n \in 0 .. N : whole[1 .. n] \in Seq(Block)
  BY <1>5 DEF Typed
<1>. QED
  BY <1>1, <1>2, <1>6

LEMMA Associative ==
  ASSUME NEW s \in Seq(Block), NEW t \in Seq(Block), NEW u \in Seq(Block)
  PROVE  (s \o t) \o u = s \o (t \o u)
BY ConcatAssociative

\* Functions with the same steps have the same end.
LEMMA SameSteps ==
  ASSUME NEW K \in Nat, NEW M \in Nat, NEW f \in [0 .. K -> Seq(Block)],
         NEW g \in [0 .. M -> Seq(Block)], f[0] = g[0],
         \A n \in 1 .. K : f[n - 1] = g[n - 1] => f[n] = g[n]
  PROVE  f[K] = g[K]
<1>. DEFINE Same == {n \in Nat : n <= K => f[n] = g[n]}
<1>1. 0 \in Same
  OBVIOUS
<1>2. ASSUME NEW m \in Nat, m \in Same PROVE m + 1 \in Same
  <2>. SUFFICES ASSUME m + 1 <= K PROVE f[m + 1] = g[m + 1]
    OBVIOUS
  <2>1. m + 1 \in 1 .. K /\ (m + 1) - 1 = m /\ m <= K
    OBVIOUS
  <2>. QED
    BY <1>2, <2>1
<1>. HIDE DEF Same
<1>3. K \in Same
  BY <1>1, <1>2, Induction
<1>. QED
  BY <1>3 DEF Same

---------------------------------------------------------------------------
(* What the layers of a push are together, and what a manifest has of a disk. *)

Flat(ls) == FoldLeft(LAMBDA done, l : done \o l.data, <<>>, ls)

WholeOf(m, d) ==
  FoldLeft(LAMBDA done, l : IF l.disk = d THEN done \o l.data ELSE done, <<>>, m)

LEMMA FlatSteps ==
  ASSUME NEW ls \in Seq(Chunk)
  PROVE  \E f \in [0 .. Len(ls) -> Seq(Block)] :
           /\ f[0] = <<>> /\ f[Len(ls)] = Flat(ls)
           /\ \A n \in 1 .. Len(ls) : f[n] = f[n - 1] \o ls[n].data
<1>. DEFINE N == Len(ls)
            part == [i \in 1 .. N |-> ls[i].data]
            Is(whole) == whole = [s \in SUBSET DOMAIN ls |->
              IF s = {} THEN <<>> ELSE whole[s \ {Max(s)}] \o ls[Max(s)].data]
            fold == CHOOSE whole : Is(whole)
<1>0. ASSUME NEW i \in 1 .. Len(ls) PROVE ls[i].data \in Seq(Block)
  <2>1. ls[i] \in Chunk
    BY ElementOfSeq
  <2>. QED
    BY <2>1 DEF Chunk
<1>1. N \in Nat /\ DOMAIN ls = 1 .. N /\ part \in [1 .. N -> Seq(Block)]
  BY <1>0, LenProperties
<1>2. \A s \in SUBSET (1 .. N) : s # {} => part[Max(s)] = ls[Max(s)].data
  BY <1>1, MaxIs
<1>3. \E whole : Is(whole)
  <2>. HIDE DEF part
  <2>1. PICK whole \in [SUBSET (1 .. N) -> Seq(Block)] :
          \A s \in SUBSET (1 .. N) :
            whole[s] = IF s = {} THEN <<>> ELSE whole[s \ {Max(s)}] \o part[Max(s)]
    <3>. HIDE DEF N
    <3>. QED
      BY <1>1, JoinExists
  <2>2. Is(whole)
    BY <1>1, <1>2, <2>1
  <2>. HIDE DEF Is
  <2>. QED
    BY <2>2
<1>4. Is(fold)
  <2>. HIDE DEF Is
  <2>. QED
    BY <1>3
<1>5. Flat(ls) = fold[DOMAIN ls]
  BY DEF Flat, FoldLeft, MapThenFoldSet
<1>. HIDE DEF fold
<1>6. \A s \in SUBSET (1 .. N) :
        fold[s] = IF s = {} THEN <<>> ELSE fold[s \ {Max(s)}] \o part[Max(s)]
  BY <1>1, <1>2, <1>4
<1>7. /\ fold[1 .. 0] = <<>> /\ \A n \in 1 .. N : fold[1 .. n] = fold[1 .. n - 1] \o part[n]
      /\ \A n \in 0 .. N : fold[1 .. n] \in Seq(Block)
  <2>. HIDE DEF part, N
  <2>. QED
    BY <1>1, <1>6, JoinSegments
<1>. DEFINE f == [n \in 0 .. N |-> fold[1 .. n]]
<1>8. f \in [0 .. N -> Seq(Block)]
  BY <1>7
<1>9. f[0] = <<>> /\ f[N] = Flat(ls)
  BY <1>1, <1>5, <1>7
<1>10. ASSUME NEW n \in 1 .. N PROVE f[n] = f[n - 1] \o ls[n].data
  <2>1. n \in 0 .. N /\ n - 1 \in 0 .. N
    BY <1>1
  <2>2. f[n] = fold[1 .. n] /\ f[n - 1] = fold[1 .. n - 1] /\ part[n] = ls[n].data
    BY <2>1
  <2>. QED
    BY <1>7, <2>2
<1>. HIDE DEF f
<1>. QED
  BY <1>8, <1>9, <1>10

LEMMA WholeSteps ==
  ASSUME NEW m \in Seq(Pull!Layer), NEW d \in Name
  PROVE  \E f \in [0 .. Len(m) -> Seq(Block)] :
           /\ f[0] = <<>> /\ f[Len(m)] = WholeOf(m, d)
           /\ \A n \in 1 .. Len(m) :
                f[n] = IF m[n].disk = d THEN f[n - 1] \o m[n].data ELSE f[n - 1]
<1>. DEFINE N == Len(m)
            part == [i \in 1 .. N |-> IF m[i].disk = d THEN m[i].data ELSE <<>>]
            Is(whole) == whole = [s \in SUBSET DOMAIN m |->
              IF s = {} THEN <<>>
              ELSE IF m[Max(s)].disk = d THEN whole[s \ {Max(s)}] \o m[Max(s)].data
                                         ELSE whole[s \ {Max(s)}]]
            fold == CHOOSE whole : Is(whole)
<1>0. ASSUME NEW i \in 1 .. Len(m) PROVE m[i].data \in Seq(Block)
  <2>1. m[i] \in Pull!Layer
    BY ElementOfSeq
  <2>. QED
    BY <2>1 DEF Pull!Layer
<1>1. N \in Nat /\ DOMAIN m = 1 .. N /\ part \in [1 .. N -> Seq(Block)]
  <2>1. \A i \in 1 .. N : (IF m[i].disk = d THEN m[i].data ELSE <<>>) \in Seq(Block)
    BY <1>0, EmptySeq
  <2>. QED
    BY <2>1, LenProperties
<1>2. \A s \in SUBSET (1 .. N) : s # {} =>
        part[Max(s)] = IF m[Max(s)].disk = d THEN m[Max(s)].data ELSE <<>>
  BY <1>1, MaxIs
<1>3. \E whole : Is(whole)
  <2>. HIDE DEF part
  <2>1. PICK whole \in [SUBSET (1 .. N) -> Seq(Block)] :
          \A s \in SUBSET (1 .. N) :
            whole[s] = IF s = {} THEN <<>> ELSE whole[s \ {Max(s)}] \o part[Max(s)]
    <3>. HIDE DEF N
    <3>. QED
      BY <1>1, JoinExists
  <2>2. ASSUME NEW s \in SUBSET (1 .. N), s # {}, m[Max(s)].disk # d
        PROVE  whole[s] = whole[s \ {Max(s)}]
    <3>1. whole[s] = whole[s \ {Max(s)}] \o <<>>
      BY <1>2, <2>1, <2>2
    <3>2. whole[s \ {Max(s)}] \in Seq(Block)
      BY <2>1
    <3>. QED
      BY <3>1, <3>2, ConcatEmptySeq
  <2>3. Is(whole)
    BY <1>1, <1>2, <2>1, <2>2
  <2>. HIDE DEF Is
  <2>. QED
    BY <2>3
<1>4. Is(fold)
  <2>. HIDE DEF Is
  <2>. QED
    BY <1>3
<1>5. WholeOf(m, d) = fold[DOMAIN m]
  BY DEF WholeOf, FoldLeft, MapThenFoldSet
<1>. HIDE DEF fold
<1>. DEFINE f == [n \in 0 .. N |-> fold[1 .. n]]
            Typed == {n \in Nat : n <= N => fold[1 .. n] \in Seq(Block)}
<1>6. fold[1 .. 0] = <<>>
  <2>1. 1 .. 0 = {} /\ {} \in SUBSET DOMAIN m
    OBVIOUS
  <2>. QED
    BY <1>4, <2>1
<1>7. ASSUME NEW n \in 1 .. N
      PROVE  fold[1 .. n] = IF m[n].disk = d THEN fold[1 .. n - 1] \o m[n].data ELSE fold[1 .. n - 1]
  <2>. DEFINE s == 1 .. n
  <2>1. s \in SUBSET (1 .. N) /\ s # {} /\ n \in s /\ n \in Nat
    <3>1. n \in Nat /\ 1 <= n /\ n <= N
      BY <1>1
    <3>2. n \in 1 .. n /\ \A i \in 1 .. n : i \in 1 .. N
      BY <1>1, <3>1
    <3>. QED
      BY <3>1, <3>2
  <2>2. Max(s) = n
    <3>1. Max(s) \in s /\ n <= Max(s)
      BY <1>1, <2>1, MaxIs
    <3>. QED
      BY <3>1
  <2>3. s \ {n} = 1 .. n - 1
    OBVIOUS
  <2>4. fold[s] = IF m[Max(s)].disk = d THEN fold[s \ {Max(s)}] \o m[Max(s)].data
                                        ELSE fold[s \ {Max(s)}]
    <3>. HIDE DEF s
    <3>. QED
      BY <1>1, <1>4, <2>1
  <2>. QED
    BY <2>2, <2>3, <2>4
<1>8. 0 \in Typed
  <2>1. fold[1 .. 0] \in Seq(Block)
    BY <1>6, EmptySeq
  <2>. QED
    BY <2>1
<1>9. ASSUME NEW k \in Nat, k \in Typed PROVE k + 1 \in Typed
  <2>. DEFINE n == k + 1
  <2>. SUFFICES ASSUME n <= N PROVE fold[1 .. n] \in Seq(Block)
    OBVIOUS
  <2>1. n \in 1 .. N /\ n - 1 = k /\ k <= N
    BY <1>1
  <2>2. fold[1 .. k] \in Seq(Block) /\ m[n].data \in Seq(Block)
    BY <1>0, <1>9, <2>1
  <2>3. fold[1 .. n] = IF m[n].disk = d THEN fold[1 .. k] \o m[n].data ELSE fold[1 .. k]
    BY <1>7, <2>1
  <2>. QED
    BY <2>2, <2>3
<1>. HIDE DEF Typed
<1>10. Nat \subseteq Typed
  BY <1>8, <1>9, Induction
<1>11. f \in [0 .. N -> Seq(Block)]
  BY <1>1, <1>10 DEF Typed
<1>12. f[0] = <<>> /\ f[N] = WholeOf(m, d)
  BY <1>1, <1>5, <1>6
<1>13. \A n \in 1 .. N : f[n] = IF m[n].disk = d THEN f[n - 1] \o m[n].data ELSE f[n - 1]
  BY <1>1, <1>7
<1>. HIDE DEF f
<1>. QED
  BY <1>11, <1>12, <1>13

\* Nothing makes up nothing.
LEMMA NoLayers == Flat(<<>>) = <<>> /\ \A d \in Name : WholeOf(<<>>, d) = <<>>
<1>1. Len(<<>>) = 0 /\ <<>> \in Seq(Chunk) /\ <<>> \in Seq(Pull!Layer)
  BY EmptySeq
<1>2. Flat(<<>>) = <<>>
  BY <1>1, FlatSteps
<1>3. ASSUME NEW d \in Name PROVE WholeOf(<<>>, d) = <<>>
  <2>. DEFINE m == <<>>
  <2>1. m \in Seq(Pull!Layer) /\ Len(m) = 0
    BY <1>1
  <2>. HIDE DEF m
  <2>2. \E f \in [0 .. Len(m) -> Seq(Block)] :
          /\ f[0] = <<>> /\ f[Len(m)] = WholeOf(m, d)
          /\ \A n \in 1 .. Len(m) :
               f[n] = IF m[n].disk = d THEN f[n - 1] \o m[n].data ELSE f[n - 1]
    BY ONLY <2>1, d \in Name, WholeSteps
  <2>3. WholeOf(m, d) = <<>>
    BY ONLY <2>1, <2>2
  <2>. QED
    BY ONLY <2>3 DEF m
<1>. QED
  BY <1>2, <1>3

LEMMA FlatType ==
  ASSUME NEW ls \in Seq(Chunk)
  PROVE  Flat(ls) \in Seq(Block)
<1>1. Len(ls) \in 0 .. Len(ls)
  BY LenProperties
<1>. QED
  BY <1>1, FlatSteps

\* One layer more.
LEMMA FlatAppend ==
  ASSUME NEW ls \in Seq(Chunk), NEW c \in Chunk
  PROVE  Flat(Append(ls, c)) = Flat(ls) \o c.data
<1>. DEFINE K == Len(ls)
            more == Append(ls, c)
<1>1. /\ K \in Nat /\ more \in Seq(Chunk) /\ Len(more) = K + 1 /\ more[K + 1] = c
      /\ \A i \in 1 .. K : more[i] = ls[i]
  BY AppendProperties, LenProperties
<1>2. PICK f \in [0 .. K -> Seq(Block)] :
        /\ f[0] = <<>> /\ f[K] = Flat(ls) /\ \A n \in 1 .. K : f[n] = f[n - 1] \o ls[n].data
  BY FlatSteps
<1>. HIDE DEF more
<1>3. PICK g \in [0 .. K + 1 -> Seq(Block)] :
        /\ g[0] = <<>> /\ g[K + 1] = Flat(more)
        /\ \A n \in 1 .. K + 1 : g[n] = g[n - 1] \o more[n].data
  BY <1>1, FlatSteps
<1>. HIDE DEF K
<1>4. ASSUME NEW n \in 1 .. K, f[n - 1] = g[n - 1] PROVE f[n] = g[n]
  <2>1. n \in 1 .. K + 1 /\ more[n] = ls[n]
    BY <1>1
  <2>. QED
    BY <1>2, <1>3, <1>4, <2>1
<1>5. f[K] = g[K]
  <2>1. K + 1 \in Nat /\ f[0] = g[0]
    BY <1>1, <1>2, <1>3
  <2>. QED
    BY <1>1, <1>4, <2>1, SameSteps
<1>6. K + 1 \in 1 .. K + 1 /\ (K + 1) - 1 = K
  BY <1>1
<1>7. g[K + 1] = g[K] \o c.data
  BY <1>1, <1>3, <1>6
<1>. QED
  BY <1>2, <1>3, <1>5, <1>7 DEF more

\* The layers of a push of the disk d, as they go to the manifest.
Tagged(ls, d) == [i \in DOMAIN ls |-> [disk |-> d, data |-> ls[i].data, size |-> ls[i].size]]

LEMMA TaggedType ==
  ASSUME NEW ls \in Seq(Chunk), NEW d \in Name
  PROVE  /\ Tagged(ls, d) \in Seq(Pull!Layer) /\ Len(Tagged(ls, d)) = Len(ls)
         /\ \A i \in 1 .. Len(ls) : /\ Tagged(ls, d)[i].disk = d
                                    /\ Tagged(ls, d)[i].data = ls[i].data
                                    /\ Tagged(ls, d)[i].size = ls[i].size
<1>. DEFINE N == Len(ls)
            t == [i \in 1 .. N |-> [disk |-> d, data |-> ls[i].data, size |-> ls[i].size]]
<1>1. N \in Nat /\ DOMAIN ls = 1 .. N
  BY LenProperties
<1>2. ASSUME NEW i \in 1 .. N PROVE t[i] \in Pull!Layer
  <2>1. ls[i] \in Chunk
    BY ElementOfSeq
  <2>. QED
    BY <2>1 DEF Chunk, Pull!Layer
<1>3. Tagged(ls, d) = t
  BY <1>1 DEF Tagged
<1>4. t \in [1 .. N -> Pull!Layer]
  BY <1>2
<1>5. t \in Seq(Pull!Layer) /\ Len(t) = N
  <2>. HIDE DEF t, N
  <2>. QED
    BY <1>1, <1>4, SeqDef
<1>. QED
  BY <1>3, <1>5

\* The layers of a disk that is pushed add what they are to what the manifest has
\* of it, and nothing to what it has of others.
LEMMA WholeAppend ==
  ASSUME NEW m \in Seq(Pull!Layer), NEW ls \in Seq(Chunk), NEW e \in Name, NEW d \in Name
  PROVE  WholeOf(m \o Tagged(ls, e), d) =
           IF d = e THEN WholeOf(m, d) \o Flat(ls) ELSE WholeOf(m, d)
<1>. DEFINE K == Len(m)
            N == Len(ls)
            t == Tagged(ls, e)
            more == m \o t
<1>1. /\ K \in Nat /\ N \in Nat /\ t \in Seq(Pull!Layer) /\ Len(t) = N
      /\ \A i \in 1 .. N : t[i].disk = e /\ t[i].data = ls[i].data
  BY TaggedType, LenProperties
<1>. HIDE DEF t
<1>2. /\ more \in Seq(Pull!Layer) /\ Len(more) = K + N
      /\ \A i \in 1 .. K + N : more[i] = IF i <= K THEN m[i] ELSE t[i - K]
  <2>1. m \in Seq(Pull!Layer) /\ t \in Seq(Pull!Layer)
    BY <1>1
  <2>2. /\ m \o t \in Seq(Pull!Layer) /\ Len(m \o t) = Len(m) + Len(t)
        /\ \A i \in 1 .. Len(m) + Len(t) : (m \o t)[i] = IF i <= Len(m) THEN m[i] ELSE t[i - Len(m)]
    BY <2>1, ConcatProperties
  <2>. QED
    BY <1>1, <2>2
<1>. HIDE DEF more
<1>3. PICK f \in [0 .. K -> Seq(Block)] :
        /\ f[0] = <<>> /\ f[K] = WholeOf(m, d)
        /\ \A n \in 1 .. K : f[n] = IF m[n].disk = d THEN f[n - 1] \o m[n].data ELSE f[n - 1]
  BY WholeSteps
<1>4. PICK g \in [0 .. K + N -> Seq(Block)] :
        /\ g[0] = <<>> /\ g[K + N] = WholeOf(more, d)
        /\ \A n \in 1 .. K + N :
             g[n] = IF more[n].disk = d THEN g[n - 1] \o more[n].data ELSE g[n - 1]
  <2>1. more \in Seq(Pull!Layer) /\ Len(more) = K + N
    BY <1>2
  <2>2. \E g \in [0 .. Len(more) -> Seq(Block)] :
          /\ g[0] = <<>> /\ g[Len(more)] = WholeOf(more, d)
          /\ \A n \in 1 .. Len(more) :
               g[n] = IF more[n].disk = d THEN g[n - 1] \o more[n].data ELSE g[n - 1]
    BY <2>1, WholeSteps
  <2>. HIDE DEF K, N
  <2>. QED
    BY <2>1, <2>2
<1>5. PICK h \in [0 .. N -> Seq(Block)] :
        /\ h[0] = <<>> /\ h[N] = Flat(ls) /\ \A n \in 1 .. N : h[n] = h[n - 1] \o ls[n].data
  BY FlatSteps
<1>50. \A i \in 1 .. N : ls[i].data \in Seq(Block)
  <2>. SUFFICES ASSUME NEW i \in 1 .. N PROVE ls[i].data \in Seq(Block)
    OBVIOUS
  <2>1. ls[i] \in Chunk
    BY ElementOfSeq
  <2>. QED
    BY <2>1 DEF Chunk
<1>. HIDE DEF K, N
<1>6. ASSUME NEW n \in 1 .. K, f[n - 1] = g[n - 1] PROVE f[n] = g[n]
  <2>1. n \in 1 .. K + N /\ n <= K
    BY <1>1
  <2>2. more[n] = m[n]
    BY <1>2, <2>1
  <2>. QED
    BY <1>3, <1>4, <1>6, <2>1, <2>2
<1>7. f[K] = g[K]
  <2>1. K + N \in Nat /\ f[0] = g[0]
    BY <1>1, <1>3, <1>4
  <2>. DEFINE Same == {n \in Nat : n <= K => f[n] = g[n]}
  <2>2. 0 \in Same
    BY ONLY <2>1
  <2>3. ASSUME NEW n \in Nat, n \in Same PROVE n + 1 \in Same
    <3>1. n + 1 <= K => n + 1 \in 1 .. K /\ (n + 1) - 1 = n /\ n <= K
      BY ONLY <1>1, n \in Nat
    <3>. QED
      BY <1>6, <2>3, <3>1
  <2>. HIDE DEF Same
  <2>4. K \in Same
    BY <1>1, <2>2, <2>3, Induction
  <2>. QED
    BY ONLY <1>1, <2>4 DEF Same
<1>8. K \in 0 .. K + N /\ g[K] \in Seq(Block)
  <2>1. K \in 0 .. K + N
    BY <1>1
  <2>2. g \in [0 .. K + N -> Seq(Block)]
    BY <1>4
  <2>. QED
    BY ONLY <2>1, <2>2
<1>. DEFINE Right == {n \in Nat : n <= N => g[K + n] = IF d = e THEN g[K] \o h[n] ELSE g[K]}
<1>9. 0 \in Right
  <2>1. K + 0 = K /\ g[K] \o <<>> = g[K]
    BY <1>1, <1>8, ConcatEmptySeq
  <2>. QED
    BY <1>5, <2>1
<1>10. ASSUME NEW k \in Nat, k \in Right PROVE k + 1 \in Right
  <2>. DEFINE n == k + 1
  <2>. SUFFICES ASSUME n <= N PROVE g[K + n] = IF d = e THEN g[K] \o h[n] ELSE g[K]
    OBVIOUS
  <2>1. /\ n \in 1 .. N /\ n - 1 = k /\ k <= N /\ k \in 0 .. N /\ K + n \in 1 .. K + N
        /\ ~(K + n <= K) /\ (K + n) - K = n /\ (K + n) - 1 = K + k
    BY <1>1
  <2>2. more[K + n].disk = e /\ more[K + n].data = ls[n].data
    <3>1. more[K + n] = t[n]
      BY ONLY <1>2, <2>1
    <3>2. t[n].disk = e /\ t[n].data = ls[n].data
      BY ONLY <1>1, <2>1
    <3>. QED
      BY ONLY <3>1, <3>2
  <2>3. g[K + n] = IF d = e THEN g[K + k] \o ls[n].data ELSE g[K + k]
    <3>1. g[K + n] = IF more[K + n].disk = d THEN g[(K + n) - 1] \o more[K + n].data ELSE g[(K + n) - 1]
      BY ONLY <1>4, <2>1
    <3>. QED
      BY ONLY <2>1, <2>2, <3>1
  <2>4. g[K + k] = IF d = e THEN g[K] \o h[k] ELSE g[K]
    BY <1>10, <2>1
  <2>5. h[k] \in Seq(Block) /\ ls[n].data \in Seq(Block) /\ h[n] = h[k] \o ls[n].data
    BY <1>5, <1>50, <2>1
  <2>6. (g[K] \o h[k]) \o ls[n].data = g[K] \o (h[k] \o ls[n].data)
    BY <1>8, <2>5, Associative
  <2>. HIDE DEF n
  <2>. QED
    BY <2>3, <2>4, <2>5, <2>6
<1>. HIDE DEF Right
<1>11. N \in Right
  BY <1>1, <1>9, <1>10, Induction
<1>12. g[K + N] = IF d = e THEN g[K] \o h[N] ELSE g[K]
  BY <1>1, <1>11 DEF Right
<1>. QED
  BY <1>3, <1>4, <1>5, <1>7, <1>12 DEF more, t

---------------------------------------------------------------------------
(* The invariant of pushDisk and its Chunker.                              *)

\* The variables of a push have their types.
PushTypes ==
  /\ disk \in Seq(Block) /\ copied \in 0 .. Len(disk)
  /\ producer \in {"copy", "done", "failed"} /\ data \in Seq(Block) /\ size \in Nat
  /\ buffered \in Nat /\ emitted \in BOOLEAN /\ closed \in BOOLEAN
  /\ errCh \in {"empty", "nil", "error"} /\ consumer \in {"receive", "upload", "done", "error"}
  /\ chunk \in Chunk /\ layers \in Seq(Chunk)

\* What the consumer has received and not yet uploaded.
Held == IF consumer = "upload" THEN chunk.data ELSE <<>>

\* What is uploaded, received and in the Chunker is what has been copied.
Accounted == consumer # "error" => (Flat(layers) \o Held) \o data = SubSeq(disk, 1, copied)

\* Sizes are those of the data; compression never makes more of it.
Sized ==
  /\ size = Len(data) /\ buffered <= Len(data) /\ chunk.size = Len(chunk.data)
  /\ \A i \in DOMAIN layers : layers[i].size = Len(layers[i].data)

\* Where producer and consumer are, and that only an empty disk has an empty chunk.
Stages ==
  /\ ~emitted /\ ~closed => layers = <<>> /\ consumer = "receive"
  /\ emitted /\ ~closed => data # <<>>
  /\ closed => producer = "done" /\ copied = Len(disk) /\ data = <<>>
  /\ closed /\ consumer \in {"receive", "done"} => layers # <<>>
  /\ producer = "done" => closed
  /\ consumer = "done" => closed
  /\ consumer = "upload" /\ chunk.data = <<>> => disk = <<>>
  /\ \A i \in DOMAIN layers : layers[i].data = <<>> => disk = <<>>

PushInv == PushTypes /\ Accounted /\ Sized /\ Stages

LEMMA BeginPush == disk \in Disks /\ Begin(disk) => PushInv
<1>. SUFFICES ASSUME disk \in Disks, Begin(disk) PROVE PushInv
  OBVIOUS
<1>1. /\ copied = 0 /\ producer = "copy" /\ data = <<>> /\ size = 0 /\ buffered = 0
      /\ emitted = FALSE /\ closed = FALSE /\ errCh = "empty" /\ consumer = "receive"
      /\ chunk = [data |-> <<>>, size |-> 0] /\ layers = <<>>
  BY DEF Begin, NoChunk
<1>2. disk \in Seq(Block) /\ Len(disk) \in Nat
  BY ConstantsAssumption
<1>0. <<>> \in Seq(Block) /\ <<>> \in Seq(Chunk) /\ Len(<<>>) = 0
  BY EmptySeq
<1>3. PushTypes
  <2>1. chunk \in Chunk
    BY <1>0, <1>1 DEF Chunk
  <2>2. copied \in 0 .. Len(disk) /\ size \in Nat /\ buffered \in Nat
    BY <1>1, <1>2
  <2>3. data \in Seq(Block) /\ layers \in Seq(Chunk)
    BY <1>0, <1>1
  <2>. QED
    BY <1>1, <1>2, <2>1, <2>2, <2>3 DEF PushTypes
<1>4. Accounted
  <2>1. SubSeq(disk, 1, 0) = <<>>
    BY SubSeqEmpty
  <2>2. Flat(layers) = <<>> /\ Held = <<>>
    BY <1>1, NoLayers DEF Held
  <2>3. (<<>> \o <<>>) \o <<>> = <<>>
    BY <1>0, ConcatEmptySeq
  <2>. QED
    BY <1>1, <2>1, <2>2, <2>3 DEF Accounted
<1>5. Sized /\ Stages
  BY <1>1 DEF Sized, Stages
<1>. QED
  BY <1>3, <1>4, <1>5 DEF PushInv

\* io.Copy passes on one block more.
LEMMA TakeOne ==
  ASSUME NEW p \in Seq(Block), NEW x \in Seq(Block), disk \in Seq(Block),
         copied \in 0 .. Len(disk), copied < Len(disk), p \o x = SubSeq(disk, 1, copied)
  PROVE  /\ Append(x, disk[copied + 1]) \in Seq(Block)
         /\ Len(Append(x, disk[copied + 1])) = Len(x) + 1
         /\ Append(x, disk[copied + 1]) # <<>>
         /\ p \o Append(x, disk[copied + 1]) = SubSeq(disk, 1, copied + 1)
         /\ copied + 1 \in 0 .. Len(disk)
<1>. DEFINE n == copied + 1
            b == disk[n]
<1>1. Len(disk) \in Nat /\ n \in 1 .. Len(disk) /\ n - 1 = copied /\ 1 \in 1 .. Len(disk)
  BY LenProperties
<1>2. b \in Block /\ <<b>> \in Seq(Block)
  BY <1>1, ElementOfSeq
<1>. HIDE DEF n, b
<1>3. Append(x, b) \in Seq(Block) /\ Append(x, b) # <<>> /\ Len(Append(x, b)) = Len(x) + 1
  BY <1>2, AppendProperties
<1>4. Append(x, b) = x \o <<b>>
  BY <1>2, AppendIsConcat
<1>5. p \o (x \o <<b>>) = (p \o x) \o <<b>>
  BY <1>2, Associative
<1>6. SubSeq(disk, 1, n) = SubSeq(disk, 1, n - 1) \o <<b>>
  BY <1>1, SubSeqRecursiveSecond DEF b
<1>. QED
  BY <1>1, <1>3, <1>4, <1>5, <1>6 DEF n, b

LEMMA WritePush == ASSUME PushInv, Write PROVE PushInv'
<1>1. /\ producer = "copy" /\ copied < Len(disk)
      /\ copied' = copied + 1 /\ data' = Append(data, disk[copied + 1]) /\ size' = size + 1
      /\ UNCHANGED <<disk, producer, emitted, closed, errCh, consumer, chunk, layers>>
  BY DEF Write, Take
<1>2. PICK output \in {0, 1} : buffered' = buffered + output
  BY DEF Write, Take
<1>. DEFINE p == Flat(layers) \o Held
<1>3. /\ disk \in Seq(Block) /\ copied \in 0 .. Len(disk) /\ data \in Seq(Block) /\ ~closed
      /\ Flat(layers) \in Seq(Block) /\ chunk.data \in Seq(Block) /\ Len(data) \in Nat
      /\ Len(disk) \in Nat
  <2>1. disk \in Seq(Block) /\ copied \in 0 .. Len(disk) /\ data \in Seq(Block) /\ ~closed
    BY <1>1 DEF PushInv, PushTypes, Stages
  <2>2. layers \in Seq(Chunk) /\ chunk \in Chunk
    BY DEF PushInv, PushTypes
  <2>3. chunk.data \in Seq(Block)
    BY <2>2 DEF Chunk
  <2>. QED
    BY <2>1, <2>2, <2>3, FlatType, LenProperties
<1>4. p \in Seq(Block)
  BY <1>3 DEF Held
<1>5. UNCHANGED Held /\ UNCHANGED Flat(layers)
  BY <1>1 DEF Held
<1>6. CASE consumer = "error"
  <2>1. data' \in Seq(Block) /\ Len(data') = Len(data) + 1 /\ data' # <<>> /\ copied' \in 0 .. Len(disk)
    <3>1. copied + 1 \in 1 .. Len(disk) /\ copied + 1 \in 0 .. Len(disk)
      BY <1>1, <1>3
    <3>2. disk[copied + 1] \in Block
      BY <1>3, <3>1, ElementOfSeq
    <3>. QED
      BY <1>1, <1>3, <3>1, <3>2, AppendProperties
  <2>2. Accounted'
    BY <1>1, <1>6 DEF Accounted
  <2>3. PushTypes'
    BY <1>1, <1>2, <2>1 DEF PushInv, PushTypes
  <2>4. Sized' /\ Stages'
    BY <1>1, <1>2, <1>3, <2>1 DEF PushInv, PushTypes, Sized, Stages
  <2>. QED
    BY <2>2, <2>3, <2>4 DEF PushInv
<1>7. CASE consumer # "error"
  <2>0. p \o data = SubSeq(disk, 1, copied)
    BY <1>7 DEF PushInv, Accounted
  <2>. HIDE DEF p
  <2>1. /\ data' \in Seq(Block) /\ Len(data') = Len(data) + 1 /\ data' # <<>> /\ copied' \in 0 .. Len(disk)
        /\ p \o data' = SubSeq(disk, 1, copied')
    BY <1>1, <1>3, <1>4, <2>0, TakeOne
  <2>2. Accounted'
    BY <1>1, <1>5, <2>1 DEF Accounted, p
  <2>3. PushTypes'
    BY <1>1, <1>2, <2>1 DEF PushInv, PushTypes
  <2>4. Sized' /\ Stages'
    BY <1>1, <1>2, <1>3, <2>1 DEF PushInv, PushTypes, Sized, Stages
  <2>. QED
    BY <2>2, <2>3, <2>4 DEF PushInv
<1>. QED
  BY <1>6, <1>7

LEMMA EmitPush == ASSUME PushInv, Emit PROVE PushInv'
<1>1. /\ producer = "copy" /\ consumer = "receive" /\ copied < Len(disk) /\ buffered >= ChunkSize
      /\ chunk' = [data |-> data, size |-> size] /\ consumer' = "upload" /\ emitted' = TRUE
      /\ copied' = copied + 1 /\ data' = Append(<<>>, disk[copied + 1]) /\ size' = 0 + 1
      /\ UNCHANGED <<disk, producer, closed, errCh, layers>>
  BY DEF Emit, Take
<1>2. PICK output \in {0, 1} : buffered' = 0 + output
  BY DEF Emit, Take
<1>3. /\ disk \in Seq(Block) /\ copied \in 0 .. Len(disk) /\ data \in Seq(Block) /\ ~closed
      /\ Flat(layers) \in Seq(Block) /\ Len(data) \in Nat /\ <<>> \in Seq(Block) /\ Len(<<>>) = 0
      /\ size = Len(data) /\ buffered \in Nat /\ buffered <= Len(data) /\ Len(disk) \in Nat
  BY <1>1, FlatType, EmptySeq DEF PushInv, PushTypes, Stages, Sized
<1>4. data # <<>>
  <2>1. ChunkSize \in Nat \ {0}
    BY ConstantsAssumption
  <2>. QED
    BY <1>1, <1>3, <2>1
<1>. DEFINE p == Flat(layers) \o data
<1>5. p \in Seq(Block) /\ p \o <<>> = SubSeq(disk, 1, copied)
  <2>1. (Flat(layers) \o <<>>) \o data = SubSeq(disk, 1, copied)
    BY <1>1 DEF PushInv, Accounted, Held
  <2>2. Flat(layers) \o <<>> = Flat(layers) /\ p \in Seq(Block)
    BY <1>3, ConcatEmptySeq
  <2>. HIDE DEF p
  <2>3. p \o <<>> = p
    BY <2>2, ConcatEmptySeq
  <2>. QED
    BY <2>1, <2>2, <2>3 DEF p
<1>. HIDE DEF p
<1>6. /\ data' \in Seq(Block) /\ Len(data') = 0 + 1 /\ data' # <<>> /\ copied' \in 0 .. Len(disk)
      /\ p \o data' = SubSeq(disk, 1, copied')
  BY <1>1, <1>3, <1>5, TakeOne
<1>7. Accounted'
  <2>1. Held' = data
    BY <1>1 DEF Held
  <2>. QED
    BY <1>1, <1>6, <2>1 DEF Accounted, p
<1>8. PushTypes'
  BY <1>1, <1>2, <1>3, <1>6 DEF PushInv, PushTypes, Chunk
<1>9. Sized'
  BY <1>1, <1>2, <1>3, <1>6 DEF PushInv, Sized
<1>10. Stages'
  BY <1>1, <1>3, <1>4, <1>6 DEF PushInv, Stages
<1>. QED
  BY <1>7, <1>8, <1>9, <1>10 DEF PushInv

LEMMA ReadFailPush == ASSUME PushInv, ReadFail PROVE PushInv'
<1>1. /\ producer = "copy" /\ producer' = "failed" /\ errCh' = "error"
      /\ UNCHANGED <<disk, copied, data, size, buffered, emitted, closed, consumer, chunk, layers>>
  BY DEF ReadFail, chunkerVars
<1>2. Accounted'
  BY <1>1 DEF PushInv, Accounted, Held
<1>. QED
  BY <1>1, <1>2 DEF PushInv, PushTypes, Sized, Stages

LEMMA ClosePush == ASSUME PushInv, Close PROVE PushInv'
<1>1. /\ producer = "copy" /\ consumer = "receive" /\ copied = Len(disk) /\ (data # <<>> \/ ~emitted)
      /\ chunk' = [data |-> data, size |-> size] /\ consumer' = "upload"
      /\ closed' = TRUE /\ data' = <<>> /\ size' = 0 /\ buffered' = 0
      /\ producer' = "done" /\ errCh' = "nil"
      /\ UNCHANGED <<disk, copied, emitted, layers>>
  BY DEF Close
<1>2. /\ disk \in Seq(Block) /\ copied \in 0 .. Len(disk) /\ data \in Seq(Block) /\ ~closed
      /\ Flat(layers) \in Seq(Block) /\ Len(data) \in Nat /\ <<>> \in Seq(Block) /\ Len(<<>>) = 0
      /\ size = Len(data) /\ Len(disk) \in Nat
  BY <1>1, FlatType, EmptySeq DEF PushInv, PushTypes, Stages, Sized
<1>3. Flat(layers) \o data = SubSeq(disk, 1, copied)
  <2>1. (Flat(layers) \o <<>>) \o data = SubSeq(disk, 1, copied)
    BY <1>1 DEF PushInv, Accounted, Held
  <2>. QED
    BY <1>2, <2>1, ConcatEmptySeq
<1>4. data = <<>> => disk = <<>>
  <2>. SUFFICES ASSUME data = <<>> PROVE disk = <<>>
    OBVIOUS
  <2>1. layers = <<>>
    BY <1>1, <1>2 DEF PushInv, Stages
  <2>2. Flat(layers) \o data = <<>>
    BY <1>2, <2>1, NoLayers, ConcatEmptySeq
  <2>3. SubSeq(disk, 1, copied) = disk
    BY <1>1, <1>2, SubSeqFull
  <2>. QED
    BY <1>3, <2>2, <2>3
<1>5. Accounted'
  <2>1. Held' = data
    BY <1>1 DEF Held
  <2>. DEFINE p == Flat(layers) \o data
  <2>2. p \in Seq(Block)
    BY <1>2
  <2>. HIDE DEF p
  <2>3. p \o <<>> = p
    BY <2>2, ConcatEmptySeq
  <2>. QED
    BY <1>1, <1>3, <2>1, <2>3 DEF Accounted, p
<1>6. PushTypes'
  BY <1>1, <1>2 DEF PushInv, PushTypes, Chunk
<1>7. Sized'
  BY <1>1, <1>2 DEF PushInv, Sized
<1>8. Stages'
  BY <1>1, <1>4 DEF PushInv, Stages
<1>. QED
  BY <1>5, <1>6, <1>7, <1>8 DEF PushInv

LEMMA UploadPush == ASSUME PushInv, Upload PROVE PushInv'
<1>1. /\ consumer = "upload"
      /\ UNCHANGED <<disk, copied, producer, data, size, buffered, emitted, closed, errCh, chunk>>
  BY DEF Upload, chunkerVars
<1>2. /\ layers \in Seq(Chunk) /\ chunk \in Chunk /\ chunk.data \in Seq(Block)
      /\ Flat(layers) \in Seq(Block) /\ data \in Seq(Block)
  BY FlatType DEF PushInv, PushTypes, Chunk
<1>3. CASE layers' = Append(layers, chunk) /\ consumer' = "receive"
  <2>1. /\ layers' \in Seq(Chunk) /\ layers' # <<>> /\ Len(layers') = Len(layers) + 1
        /\ \A i \in 1 .. Len(layers) : layers'[i] = layers[i]
        /\ layers'[Len(layers) + 1] = chunk
    BY <1>2, <1>3, AppendProperties
  <2>2. DOMAIN layers = 1 .. Len(layers) /\ DOMAIN layers' = 1 .. Len(layers) + 1 /\ Len(layers) \in Nat
    BY <1>2, <2>1, LenProperties
  <2>3. \A i \in DOMAIN layers' : layers'[i] = chunk \/ \E j \in DOMAIN layers : layers'[i] = layers[j]
    <3>. SUFFICES ASSUME NEW i \in DOMAIN layers'
                  PROVE  layers'[i] = chunk \/ \E j \in DOMAIN layers : layers'[i] = layers[j]
      OBVIOUS
    <3>1. i = Len(layers) + 1 \/ i \in 1 .. Len(layers)
      BY <2>2
    <3>. QED
      BY <2>1, <2>2, <3>1
  <2>4. Accounted'
    <3>. DEFINE p == Flat(layers) \o chunk.data
    <3>1. p \o data = SubSeq(disk, 1, copied)
      BY <1>1 DEF PushInv, Accounted, Held
    <3>2. Flat(layers)' = p
      BY <1>2, <1>3, FlatAppend
    <3>3. p \in Seq(Block)
      BY <1>2
    <3>4. Held' = <<>>
      BY <1>3 DEF Held
    <3>. HIDE DEF p
    <3>5. p \o <<>> = p
      BY <3>3, ConcatEmptySeq
    <3>. QED
      BY <1>1, <3>1, <3>2, <3>4, <3>5 DEF Accounted
  <2>5. PushTypes'
    BY <1>1, <1>3, <2>1 DEF PushInv, PushTypes
  <2>6. Sized'
    BY <1>1, <2>3 DEF PushInv, Sized
  <2>7. Stages'
    BY <1>1, <1>3, <2>1, <2>3 DEF PushInv, Stages
  <2>. QED
    BY <2>4, <2>5, <2>6, <2>7 DEF PushInv
<1>4. CASE consumer' = "error" /\ UNCHANGED layers
  <2>1. Accounted'
    BY <1>4 DEF Accounted
  <2>2. PushTypes' /\ Sized'
    BY <1>1, <1>4 DEF PushInv, PushTypes, Sized
  <2>3. Stages'
    BY <1>1, <1>4 DEF PushInv, Stages
  <2>. QED
    BY <2>1, <2>2, <2>3 DEF PushInv
<1>. QED
  BY <1>3, <1>4 DEF Upload

LEMMA FinishPush == ASSUME PushInv, Finish PROVE PushInv'
<1>1. /\ consumer = "receive" /\ closed /\ consumer' \in {"error", "done"}
      /\ UNCHANGED <<disk, copied, producer, data, size, buffered, emitted, closed, errCh, chunk, layers>>
  BY DEF Finish, chunkerVars
<1>2. Accounted'
  <2>1. Held = <<>> /\ Held' = <<>>
    BY <1>1 DEF Held
  <2>. QED
    BY <1>1, <2>1 DEF PushInv, Accounted
<1>3. PushTypes' /\ Sized'
  BY <1>1 DEF PushInv, PushTypes, Sized
<1>4. Stages'
  BY <1>1 DEF PushInv, Stages
<1>. QED
  BY <1>2, <1>3, <1>4 DEF PushInv

LEMMA SamePush == ASSUME PushInv, UNCHANGED vars PROVE PushInv'
<1>1. UNCHANGED <<disk, copied, producer, data, size, buffered, emitted, closed, errCh, consumer,
                  chunk, layers>>
  BY DEF vars, chunkerVars
<1>2. Accounted'
  BY <1>1 DEF PushInv, Accounted, Held
<1>. QED
  BY <1>1, <1>2 DEF PushInv, PushTypes, Sized, Stages

LEMMA PushInvPushed == PushInv => PushedIsWhole
<1>. SUFFICES ASSUME PushInv, consumer = "done" PROVE PushedIsWhole
  BY DEF PushedIsWhole
<1>1. /\ closed /\ copied = Len(disk) /\ data = <<>> /\ layers # <<>> /\ disk \in Seq(Block)
      /\ layers \in Seq(Chunk) /\ Flat(layers) \in Seq(Block)
  BY FlatType DEF PushInv, PushTypes, Stages
<1>2. (Flat(layers) \o <<>>) \o <<>> = SubSeq(disk, 1, copied)
  BY <1>1 DEF PushInv, Accounted, Held
<1>3. Flat(layers) = disk
  BY <1>1, <1>2, ConcatEmptySeq, SubSeqFull
<1>. QED
  BY <1>1, <1>3 DEF PushedIsWhole, PushInv, Sized, Stages, Flat

---------------------------------------------------------------------------
(* The invariant of the transfer.                                          *)

\* The VM and its manifest, whose sizes are right.
TransferTypes ==
  /\ vm \in [DOMAIN Names -> Disks] /\ at \in DOMAIN Names /\ disk = vm[at]
  /\ phase \in {"push", "put", "pull", "error"}
  /\ manifest \in Seq(Pull!Layer)
  /\ \A i \in DOMAIN manifest : manifest[i].size = Len(manifest[i].data)

\* The manifest has each disk that has been pushed, whole, and nothing of the others.
Carried ==
  phase # "error" =>
    \A k \in DOMAIN Names :
      WholeOf(manifest, Names[k]) = IF phase = "push" /\ k >= at THEN <<>> ELSE vm[k]

\* The pull is one of this manifest, and its own invariant holds.
Pulling ==
  /\ phase = "pull" => PullProofs!IInv /\ fetched = manifest
  /\ phase # "pull" => Pull!Begin(<<>>)

TInv == PushInv /\ TransferTypes /\ Carried /\ Pulling

LEMMA SamePull == ASSUME Pulling, UNCHANGED <<fetched, pullVars, manifest>>,
                         phase' = phase \/ (phase # "pull" /\ phase' # "pull")
                  PROVE  Pulling'
<1>1. UNCHANGED <<fetched, file, pc, next, task, pos, cancelled, failed, interrupted, pulled>>
  BY DEF pullVars
<1>2. PullProofs!IInv => PullProofs!IInv'
  <2>1. UNCHANGED PullProofs!vars
    BY <1>1 DEF PullProofs!vars
  <2>. QED
    BY <2>1, PullProofs!NextIInv, NamesAssumption
<1>3. Pull!Begin(<<>>) => Pull!Begin(<<>>)'
  BY <1>1 DEF Pull!Begin
<1>. QED
  BY <1>1, <1>2, <1>3 DEF Pulling

\* The names of the disks.
LEMMA NamesFact ==
  /\ DOMAIN Names = 1 .. Len(Names) /\ Len(Names) \in Nat /\ 1 \in DOMAIN Names
  /\ \A k \in DOMAIN Names : Names[k] \in Name
  /\ \A j \in DOMAIN Names, k \in DOMAIN Names : Names[j] = Names[k] => j = k
<1>1. Names \in Seq(Name) /\ Names # <<>>
  BY NamesAssumption DEF Name
<1>2. DOMAIN Names = 1 .. Len(Names) /\ Len(Names) \in Nat
  BY <1>1, LenProperties
<1>3. Len(Names) # 0
  BY <1>1, EmptySeq
<1>4. 1 \in DOMAIN Names
  BY <1>2, <1>3
<1>5. \A k \in DOMAIN Names : Names[k] \in Name
  BY <1>1, <1>2, ElementOfSeq
<1>6. \A j \in DOMAIN Names, k \in DOMAIN Names : Names[j] = Names[k] => j = k
  BY NamesAssumption DEF IsInjective
<1>. QED
  BY <1>2, <1>4, <1>5, <1>6

LEMMA TransferBegins == TransferInit => TInv
<1>. SUFFICES ASSUME TransferInit PROVE TInv
  OBVIOUS
<1>1. /\ vm \in [DOMAIN Names -> Disks] /\ at = 1 /\ manifest = <<>> /\ phase = "push"
      /\ Begin(vm[1]) /\ Pull!Begin(<<>>)
  BY DEF TransferInit
<1>2. disk = vm[1] /\ vm[1] \in Disks /\ at \in DOMAIN Names
  BY <1>1, NamesFact DEF Begin
<1>3. PushInv
  BY <1>1, <1>2, BeginPush
<1>4. TransferTypes
  <2>1. <<>> \in Seq(Pull!Layer) /\ DOMAIN <<>> = {}
    BY EmptySeq
  <2>. QED
    BY <1>1, <1>2, <2>1 DEF TransferTypes
<1>5. Carried
  <2>1. \A k \in DOMAIN Names : Names[k] \in Name /\ k >= at
    BY <1>1, NamesFact
  <2>2. \A k \in DOMAIN Names : WholeOf(manifest, Names[k]) = <<>>
    BY <1>1, <2>1, NoLayers
  <2>. QED
    BY <1>1, <2>1, <2>2 DEF Carried
<1>6. Pulling
  BY <1>1 DEF Pulling
<1>. QED
  BY <1>3, <1>4, <1>5, <1>6 DEF TInv

\* While a disk is pushed, or nothing happens.
LEMMA PushDiskKeeps ==
  ASSUME TInv, PushInv', UNCHANGED <<disk, vm, at, manifest, phase, fetched, pullVars>>
  PROVE  TInv'
<1>1. TransferTypes'
  BY DEF TInv, TransferTypes
<1>2. Carried'
  BY DEF TInv, Carried
<1>3. Pulling'
  BY SamePull DEF TInv
<1>. QED
  BY <1>1, <1>2, <1>3 DEF TInv

\* The manifest after a disk has been pushed.
LEMMA PushedManifest ==
  ASSUME TInv, phase = "push", consumer = "done"
  PROVE  /\ AppendLayers \in Seq(Pull!Layer)
         /\ \A i \in DOMAIN AppendLayers : AppendLayers[i].size = Len(AppendLayers[i].data)
         /\ \A k \in DOMAIN Names :
              WholeOf(AppendLayers, Names[k]) = IF k > at THEN <<>> ELSE vm[k]
<1>. DEFINE e == Names[at]
            t == Tagged(layers, e)
            K == Len(manifest)
            N == Len(layers)
<1>1. /\ at \in DOMAIN Names /\ e \in Name /\ manifest \in Seq(Pull!Layer) /\ disk = vm[at]
      /\ layers \in Seq(Chunk) /\ disk \in Seq(Block)
  BY NamesFact DEF TInv, TransferTypes, PushInv, PushTypes
<1>2. AppendLayers = manifest \o t
  BY DEF AppendLayers, Tagged
<1>3. Flat(layers) = disk /\ \A i \in DOMAIN layers : layers[i].size = Len(layers[i].data)
  BY PushInvPushed DEF TInv, PushedIsWhole, Flat
<1>. HIDE DEF e
<1>4. /\ t \in Seq(Pull!Layer) /\ Len(t) = N
      /\ \A i \in 1 .. N : t[i].data = layers[i].data /\ t[i].size = layers[i].size
  BY <1>1, TaggedType
<1>5. DOMAIN layers = 1 .. N /\ N \in Nat /\ K \in Nat /\ DOMAIN manifest = 1 .. K
  BY <1>1, LenProperties
<1>. HIDE DEF t
<1>6. /\ manifest \o t \in Seq(Pull!Layer) /\ Len(manifest \o t) = K + N
      /\ \A i \in 1 .. K + N : (manifest \o t)[i] = IF i <= K THEN manifest[i] ELSE t[i - K]
  <2>1. /\ manifest \o t \in Seq(Pull!Layer) /\ Len(manifest \o t) = Len(manifest) + Len(t)
        /\ \A i \in 1 .. Len(manifest) + Len(t) :
             (manifest \o t)[i] = IF i <= Len(manifest) THEN manifest[i] ELSE t[i - Len(manifest)]
    BY <1>1, <1>4, ConcatProperties
  <2>. QED
    BY <1>4, <2>1
<1>7. ASSUME NEW i \in DOMAIN AppendLayers
      PROVE  AppendLayers[i].size = Len(AppendLayers[i].data)
  <2>. HIDE DEF K, N
  <2>1. i \in 1 .. K + N
    <3>1. DOMAIN (manifest \o t) = 1 .. Len(manifest \o t)
      BY <1>6, LenProperties
    <3>. QED
      BY <1>2, <1>6, <3>1
  <2>2. CASE i <= K
    <3>1. i \in DOMAIN manifest /\ AppendLayers[i] = manifest[i]
      BY <1>2, <1>5, <1>6, <2>1, <2>2
    <3>. QED
      BY <3>1 DEF TInv, TransferTypes
  <2>3. CASE ~(i <= K)
    <3>1. i - K \in 1 .. N /\ AppendLayers[i] = t[i - K]
      BY <1>2, <1>5, <1>6, <2>1, <2>3
    <3>. QED
      BY <1>3, <1>4, <1>5, <3>1
  <2>. QED
    BY <2>2, <2>3
<1>8. ASSUME NEW k \in DOMAIN Names
      PROVE  WholeOf(AppendLayers, Names[k]) = IF k > at THEN <<>> ELSE vm[k]
  <2>1. Names[k] \in Name /\ (Names[k] = e <=> k = at) /\ k \in Nat /\ at \in Nat
    BY <1>1, NamesFact DEF e
  <2>2. WholeOf(manifest \o t, Names[k]) =
          IF Names[k] = e THEN WholeOf(manifest, Names[k]) \o Flat(layers) ELSE WholeOf(manifest, Names[k])
    BY <1>1, <2>1, WholeAppend DEF t
  <2>3. WholeOf(manifest, Names[k]) = IF k >= at THEN <<>> ELSE vm[k]
    BY DEF TInv, Carried
  <2>4. <<>> \o disk = disk
    BY <1>1, ConcatEmptySeq
  <2>5. CASE k = at
    <3>1. ~(k > at) /\ k >= at /\ Names[k] = e
      BY <2>1, <2>5
    <3>2. WholeOf(manifest \o t, Names[k]) = <<>> \o disk
      BY <1>3, <2>2, <2>3, <3>1
    <3>. QED
      BY <1>1, <1>2, <2>4, <2>5, <3>1, <3>2
  <2>6. CASE k # at
    <3>1. k >= at <=> k > at
      BY <2>1, <2>6
    <3>. QED
      BY <1>2, <2>1, <2>2, <2>3, <2>6, <3>1
  <2>. QED
    BY <2>5, <2>6
<1>. QED
  BY <1>2, <1>6, <1>7, <1>8

LEMMA NextDiskKeeps == ASSUME TInv, NextDisk PROVE TInv'
<1>1. /\ phase = "push" /\ consumer = "done" /\ manifest' = AppendLayers
      /\ UNCHANGED <<vm, fetched, pullVars>>
  BY DEF NextDisk, pullVars
<1>2. /\ manifest' \in Seq(Pull!Layer)
      /\ \A i \in DOMAIN manifest' : manifest'[i].size = Len(manifest'[i].data)
      /\ \A k \in DOMAIN Names : WholeOf(manifest', Names[k]) = IF k > at THEN <<>> ELSE vm[k]
  BY <1>1, PushedManifest
<1>3. /\ vm \in [DOMAIN Names -> Disks] /\ at \in DOMAIN Names /\ disk = vm[at] /\ PushInv
      /\ Pull!Begin(<<>>)
  BY <1>1 DEF TInv, TransferTypes, Pulling
<1>30. Pull!Begin(<<>>)'
  BY <1>1, <1>3 DEF Pull!Begin, pullVars
<1>4. CASE at < Len(Names)
  <2>1. at' = at + 1 /\ phase' = "push" /\ disk' = vm[at + 1] /\ Begin(disk)'
    BY <1>1, <1>4 DEF NextDisk, Begin
  <2>2. at + 1 \in DOMAIN Names /\ \A k \in DOMAIN Names : k > at <=> k >= at + 1
    BY <1>3, <1>4, NamesFact
  <2>3. PushInv'
    <3>1. disk' \in Disks
      BY <1>3, <2>1, <2>2
    <3>2. (disk \in Disks /\ Begin(disk) => PushInv)'
      BY BeginPush, PTL
    <3>. QED
      BY <2>1, <3>1, <3>2
  <2>4. TransferTypes'
    BY <1>1, <1>2, <1>3, <2>1, <2>2 DEF TransferTypes
  <2>5. Carried'
    BY <1>1, <1>2, <2>1, <2>2 DEF Carried
  <2>. QED
    BY <1>30, <2>1, <2>3, <2>4, <2>5 DEF TInv, Pulling
<1>5. CASE ~(at < Len(Names))
  <2>1. UNCHANGED <<at, vars, disk>> /\ phase' = "put"
    BY <1>1, <1>5 DEF NextDisk, vars
  <2>2. \A k \in DOMAIN Names : ~(k > at)
    BY <1>3, <1>5, NamesFact
  <2>3. PushInv'
    BY <1>3, <2>1, SamePush
  <2>4. TransferTypes'
    BY <1>1, <1>2, <1>3, <2>1 DEF TransferTypes
  <2>5. Carried'
    BY <1>1, <1>2, <2>1, <2>2 DEF Carried
  <2>. QED
    BY <1>30, <2>1, <2>3, <2>4, <2>5 DEF TInv, Pulling
<1>. QED
  BY <1>4, <1>5

LEMMA PushFailKeeps == ASSUME TInv, PushFail PROVE TInv'
<1>1. /\ phase = "push" /\ phase' = "error"
      /\ UNCHANGED <<vars, disk, vm, at, manifest, fetched, pullVars>>
  BY DEF PushFail, vars, pullVars
<1>2. PushInv'
  BY <1>1, SamePush DEF TInv
<1>3. Pulling'
  BY <1>1, SamePull DEF TInv
<1>. QED
  BY <1>1, <1>2, <1>3 DEF TInv, TransferTypes, Carried

LEMMA PullBegins ==
  fetched \in Seq(PullProofs!Layer) /\ PullProofs!Annotated /\ PullProofs!Begin(fetched)
    => PullProofs!IInv
BY PullProofs!BeginIInv, NamesAssumption

LEMMA PutManifestKeeps == ASSUME TInv, PutManifest PROVE TInv'
<1>1. phase = "put" /\ UNCHANGED <<vars, disk, vm, at, manifest>>
  BY DEF PutManifest, vars
<1>2. PushInv' /\ Pull!Begin(<<>>)
  BY <1>1, SamePush DEF TInv, Pulling
<1>3. CASE phase' = "error" /\ UNCHANGED pullVars
  <2>1. Pulling'
    BY <1>1, <1>3, SamePull DEF TInv, pullVars
  <2>. QED
    BY <1>1, <1>2, <1>3, <2>1 DEF TInv, TransferTypes, Carried
<1>4. CASE /\ phase' = "pull" /\ fetched' = manifest
           /\ task' = [i \in DOMAIN manifest |-> "new"]
           /\ pos' = [i \in DOMAIN manifest |-> 0]
           /\ UNCHANGED <<file, pc, next, cancelled, failed, interrupted, pulled>>
  <2>1. fetched' \in Seq(PullProofs!Layer)
    BY <1>4 DEF TInv, TransferTypes, Pull!Layer, PullProofs!Layer
  <2>2. PullProofs!Annotated'
    <3>1. DOMAIN manifest = 1 .. Len(manifest)
      BY LenProperties DEF TInv, TransferTypes
    <3>. QED
      BY <1>4, <3>1 DEF TInv, TransferTypes, PullProofs!Annotated, PullProofs!Task
  <2>3. PullProofs!Begin(fetched)'
    BY <1>2, <1>4 DEF Pull!Begin, PullProofs!Begin
  <2>4. (fetched \in Seq(PullProofs!Layer) /\ PullProofs!Annotated /\ PullProofs!Begin(fetched)
           => PullProofs!IInv)'
    BY PullBegins, PTL
  <2>5. Pulling'
    BY <1>1, <1>4, <2>1, <2>2, <2>3, <2>4 DEF Pulling
  <2>. QED
    BY <1>1, <1>2, <1>4, <2>5 DEF TInv, TransferTypes, Carried
<1>. QED
  BY <1>3, <1>4 DEF PutManifest

\* DiskTransfer's instance of DiskPull and the one of its proofs are the same.
LEMMA SamePuller == Pull!Next => PullProofs!Next
<1>. SUFFICES ASSUME Pull!Next PROVE PullProofs!Next
  OBVIOUS
<1>1. CASE Pull!Create
  BY <1>1 DEF Pull!Create, PullProofs!Create, Pull!Offsets, PullProofs!Offsets, PullProofs!Next
<1>2. CASE Pull!Spawn
  BY <1>2 DEF Pull!Spawn, PullProofs!Spawn, PullProofs!Next
<1>3. CASE Pull!Go
  <2>1. Pull!Running = PullProofs!Running
    BY DEF Pull!Running, PullProofs!Running, Pull!Task, PullProofs!Task
  <2>2. Pull!Cardinality(Pull!Running) = PullProofs!Cardinality(PullProofs!Running)
    BY <2>1 DEF Pull!Cardinality, PullProofs!Cardinality
  <2>. QED
    BY <1>3, <2>2 DEF Pull!Go, PullProofs!Go, PullProofs!Next
<1>4. CASE Pull!Wait
  BY <1>4 DEF Pull!Wait, PullProofs!Wait, PullProofs!Next, Pull!Running, PullProofs!Running,
              Pull!Task, PullProofs!Task
<1>5. ASSUME NEW i \in Pull!Task, Pull!Progress(i) PROVE PullProofs!Next
  <2>0. Pull!Task = PullProofs!Task
    BY ONLY DEF Pull!Task, PullProofs!Task
  <2>1. i \in PullProofs!Task
    BY ONLY <2>0, i \in Pull!Task
  <2>2. Pull!BlobGet(i) => PullProofs!BlobGet(i)
    BY DEF Pull!BlobGet, PullProofs!BlobGet
  <2>3. Pull!CopyBlock(i) => PullProofs!CopyBlock(i)
    BY DEF Pull!CopyBlock, PullProofs!CopyBlock, Pull!WriteAt, PullProofs!WriteAt,
           Pull!Offset, PullProofs!Offset, Pull!Offsets, PullProofs!Offsets
  <2>4. Pull!TaskDone(i) => PullProofs!TaskDone(i)
    BY DEF Pull!TaskDone, PullProofs!TaskDone
  <2>5. Pull!TaskFail(i) => PullProofs!TaskFail(i)
    BY DEF Pull!TaskFail, PullProofs!TaskFail
  <2>6. PullProofs!Progress(i)
    BY <1>5, <2>2, <2>3, <2>4, <2>5 DEF Pull!Progress, PullProofs!Progress
  <2>. QED
    BY <2>1, <2>6 DEF PullProofs!Next
<1>6. CASE Pull!Interrupt
  BY <1>6 DEF Pull!Interrupt, PullProofs!Interrupt, PullProofs!Next
<1>7. CASE Pull!Returned
  BY <1>7 DEF Pull!Returned, PullProofs!Returned, Pull!vars, PullProofs!vars, PullProofs!Next
<1>. QED
  BY <1>1, <1>2, <1>3, <1>4, <1>5, <1>6, <1>7 DEF Pull!Next

LEMMA PullDisksKeeps == ASSUME TInv, PullDisks PROVE TInv'
<1>1. phase = "pull" /\ Pull!Next /\ UNCHANGED <<vars, disk, vm, at, manifest, phase>>
  BY DEF PullDisks, vars
<1>2. PushInv'
  BY <1>1, SamePush DEF TInv
<1>3. PullProofs!IInv' /\ fetched' = fetched
  <2>1. PullProofs!IInv
    BY <1>1 DEF TInv, Pulling
  <2>2. PullProofs!IInv'
    BY <1>1, <2>1, SamePuller, PullProofs!NextIInv, NamesAssumption
  <2>3. fetched' = fetched
    BY <1>1 DEF Pull!Next, Pull!Create, Pull!Spawn, Pull!Go, Pull!Wait, Pull!Progress, Pull!BlobGet,
                Pull!CopyBlock, Pull!TaskDone, Pull!TaskFail, Pull!Interrupt, Pull!Returned, Pull!vars
  <2>. QED
    BY <2>2, <2>3
<1>4. TransferTypes' /\ Carried'
  BY <1>1 DEF TInv, TransferTypes, Carried
<1>. QED
  BY <1>1, <1>2, <1>3, <1>4 DEF TInv, Pulling

LEMMA TransferStep == TInv /\ [TransferNext]_transferVars => TInv'
<1>. SUFFICES ASSUME TInv, [TransferNext]_transferVars PROVE TInv'
  OBVIOUS
<1>1. CASE PushDisk
  <2>1. /\ Write \/ Emit \/ ReadFail \/ Close \/ Upload \/ Finish
        /\ UNCHANGED <<vm, at, manifest, phase, fetched, pullVars>>
    BY <1>1 DEF PushDisk, pullVars
  <2>2. PushInv'
    BY <2>1, WritePush, EmitPush, ReadFailPush, ClosePush, UploadPush, FinishPush DEF TInv
  <2>3. UNCHANGED disk
    BY <2>1 DEF Write, Emit, ReadFail, Close, Upload, Finish
  <2>. QED
    BY <2>1, <2>2, <2>3, PushDiskKeeps
<1>2. CASE UNCHANGED transferVars
  <2>1. UNCHANGED <<vars, disk, vm, at, manifest, phase, fetched, pullVars>>
    BY <1>2 DEF transferVars, vars, pullVars
  <2>2. PushInv'
    BY <2>1, SamePush DEF TInv
  <2>. QED
    BY <2>1, <2>2, PushDiskKeeps
<1>. QED
  BY <1>1, <1>2, NextDiskKeeps, PushFailKeeps, PutManifestKeeps, PullDisksKeeps DEF TransferNext, Over

\* Pushes and the pull of their manifest keep the invariant.
THEOREM TransferInvariance == TransferSpec => []TInv
<1>1. TransferInit => TInv
  BY TransferBegins
<1>2. TInv /\ [TransferNext]_transferVars => TInv'
  BY TransferStep
<1>. QED
  BY <1>1, <1>2, PTL DEF TransferSpec

\* A push that succeeds has the whole disk in its layers, wherever compression ends
\* the chunks, in every push of a transfer.
THEOREM PushedIsWholeAlways == TransferSpec => []PushedIsWhole
<1>1. TInv => PushedIsWhole
  BY PushInvPushed DEF TInv
<1>. QED
  BY <1>1, TransferInvariance, PTL

---------------------------------------------------------------------------
(* That the transfer implements Transfer.                                  *)

LEMMA FlattenType ==
  ASSUME NEW S, NEW N \in Nat \ {0}, NEW seqs \in [1 .. N -> Seq(S)]
  PROVE  FlattenSeq(seqs) \in Seq(S)
<1>. DEFINE Is(f) == f = [i \in 1 .. N |-> IF i = 1 THEN seqs[i] ELSE f[i - 1] \o seqs[i]]
            Upto(f, n) == \A i \in 1 .. n : f[i] = IF i = 1 THEN seqs[i] ELSE f[i - 1] \o seqs[i]
            Defined == {n \in Nat : n < N => \E f \in [1 .. n + 1 -> Seq(S)] : Upto(f, n + 1)}
            flatten == CHOOSE f : Is(f)
<1>0. Len(seqs) = N
  BY SeqDef
<1>1. 0 \in Defined
  <2>. DEFINE f == [i \in 1 .. 0 + 1 |-> seqs[i]]
  <2>1. \A i \in 1 .. 0 + 1 : i = 1 /\ i \in 1 .. N
    OBVIOUS
  <2>2. f \in [1 .. 0 + 1 -> Seq(S)] /\ Upto(f, 0 + 1)
    BY <2>1
  <2>. HIDE DEF f, Upto
  <2>. QED
    BY <2>2
<1>2. ASSUME NEW n \in Nat, n \in Defined PROVE n + 1 \in Defined
  <2>. HIDE DEF Upto
  <2>. SUFFICES ASSUME n + 1 < N PROVE \E f \in [1 .. (n + 1) + 1 -> Seq(S)] : Upto(f, (n + 1) + 1)
    OBVIOUS
  <2>0. n < N
    OBVIOUS
  <2>1. PICK f \in [1 .. n + 1 -> Seq(S)] : Upto(f, n + 1)
    BY <1>2, <2>0
  <2>. USE DEF Upto
  <2>. DEFINE m == (n + 1) + 1
              g == [i \in 1 .. m |-> IF i = m THEN f[n + 1] \o seqs[m] ELSE f[i]]
  <2>2. /\ m \in 1 .. N /\ n + 1 \in 1 .. n + 1 /\ m # 1 /\ m - 1 = n + 1 /\ m - 1 # m
        /\ \A i \in 1 .. m : /\ i = m \/ i \in 1 .. n + 1
                             /\ i # 1 => i - 1 \in 1 .. n + 1 /\ i - 1 \in 1 .. m /\ i - 1 # m
    OBVIOUS
  <2>3. f[n + 1] \o seqs[m] \in Seq(S)
    <3>1. f[n + 1] \in Seq(S) /\ seqs[m] \in Seq(S)
      BY <2>2
    <3>. QED
      BY <3>1, ConcatProperties
  <2>4. g \in [1 .. m -> Seq(S)]
    BY <2>2, <2>3
  <2>5. ASSUME NEW i \in 1 .. m PROVE g[i] = IF i = 1 THEN seqs[i] ELSE g[i - 1] \o seqs[i]
    <3>1. CASE i = m
      <4>1. g[m] = f[n + 1] \o seqs[m] /\ g[m - 1] = f[n + 1]
        BY <2>2
      <4>. QED
        BY <2>2, <3>1, <4>1
    <3>2. CASE i # m
      <4>1. i \in 1 .. n + 1 /\ g[i] = f[i] /\ (i # 1 => g[i - 1] = f[i - 1])
        BY <2>2, <3>2
      <4>. QED
        BY <2>1, <4>1
    <3>. QED
      BY <3>1, <3>2
  <2>6. Upto(g, m)
    BY <2>5
  <2>. HIDE DEF Upto, g
  <2>. QED
    BY <2>4, <2>6
<1>3. \E f : Is(f)
  <2>. HIDE DEF Defined
  <2>1. N - 1 \in Nat /\ N - 1 \in Defined
    <3>1. N - 1 \in Nat
      OBVIOUS
    <3>. QED
      BY <1>1, <1>2, <3>1, Induction
  <2>. USE DEF Defined
  <2>2. PICK f \in [1 .. N -> Seq(S)] : Upto(f, N)
    <3>1. N - 1 \in Nat /\ N - 1 < N /\ (N - 1) + 1 = N
      OBVIOUS
    <3>. HIDE DEF Upto
    <3>. QED
      BY <2>1, <3>1
  <2>3. Is(f)
    BY <2>2
  <2>. HIDE DEF Is
  <2>. QED
    BY <2>3
<1>4. Is(flatten)
  <2>. HIDE DEF Is
  <2>. QED
    BY <1>3
<1>5. FlattenSeq(seqs) = flatten[N]
  BY <1>0 DEF FlattenSeq
<1>. HIDE DEF flatten
<1>. DEFINE Typed == {n \in Nat : n < N => flatten[n + 1] \in Seq(S)}
<1>6. 0 \in Typed
  <2>1. 0 + 1 = 1 /\ 1 \in 1 .. N
    OBVIOUS
  <2>2. flatten[1] = seqs[1]
    BY <1>4, <2>1
  <2>. QED
    BY <2>1, <2>2
<1>7. ASSUME NEW n \in Nat, n \in Typed PROVE n + 1 \in Typed
  <2>. DEFINE m == (n + 1) + 1
  <2>. SUFFICES ASSUME n + 1 < N PROVE flatten[m] \in Seq(S)
    OBVIOUS
  <2>1. m \in 1 .. N /\ m # 1 /\ m - 1 = n + 1 /\ n < N
    OBVIOUS
  <2>2. flatten[m] = flatten[m - 1] \o seqs[m]
    BY <1>4, <2>1
  <2>3. flatten[m - 1] \in Seq(S) /\ seqs[m] \in Seq(S)
    BY <1>7, <2>1
  <2>. HIDE DEF m
  <2>. QED
    BY <2>2, <2>3, ConcatProperties
<1>8. flatten[N] \in Seq(S)
  <2>. HIDE DEF Typed
  <2>1. N - 1 \in Nat /\ N - 1 < N /\ (N - 1) + 1 = N
    OBVIOUS
  <2>2. N - 1 \in Typed
    BY <1>6, <1>7, <2>1, Induction
  <2>. QED
    BY <2>1, <2>2 DEF Typed
<1>. QED
  BY <1>5, <1>8

LEMMA Sequence ==
  ASSUME NEW S, NEW N \in Nat, NEW s \in [1 .. N -> S]
  PROVE  s \in Seq(S)
BY SeqDef

LEMMA BlocksType ==
  ASSUME NEW f \in [DOMAIN Names -> Seq(Block)]
  PROVE  Blocks(f) \in Seq(Name \X Block)
<1>. DEFINE N == Len(Names)
            seqs == [d \in 1 .. N |-> [k \in DOMAIN f[d] |-> <<Names[d], f[d][k]>>]]
<1>1. N \in Nat \ {0} /\ DOMAIN Names = 1 .. N
  BY NamesFact
<1>2. ASSUME NEW d \in 1 .. N
      PROVE  [k \in DOMAIN f[d] |-> <<Names[d], f[d][k]>>] \in Seq(Name \X Block)
  <2>1. f[d] \in Seq(Block) /\ Names[d] \in Name
    BY <1>1, NamesFact
  <2>2. DOMAIN f[d] = 1 .. Len(f[d]) /\ Len(f[d]) \in Nat /\ \A k \in 1 .. Len(f[d]) : f[d][k] \in Block
    BY <2>1, LenProperties, ElementOfSeq
  <2>. DEFINE s == [k \in DOMAIN f[d] |-> <<Names[d], f[d][k]>>]
              n == Len(f[d])
              Pair == Name \X Block
  <2>3. s \in [1 .. n -> Pair] /\ n \in Nat
    BY <2>1, <2>2
  <2>. HIDE DEF s, n, Pair
  <2>4. s \in Seq(Pair)
    BY <2>3, Sequence
  <2>. QED
    BY <2>4 DEF s, Pair
<1>3. seqs \in [1 .. N -> Seq(Name \X Block)]
  BY <1>2
<1>4. Blocks(f) = FlattenSeq(seqs)
  BY <1>1 DEF Blocks
<1>. HIDE DEF seqs, N
<1>. QED
  BY <1>1, <1>3, <1>4, FlattenType

\* What a pull without a signal returns nil with is the VM that was pushed.
LEMMA ArrivedIsWhole ==
  TInv /\ pulled = "nil" /\ ~interrupted => [d \in DOMAIN Names |-> file[Names[d]]] = vm
<1>. SUFFICES ASSUME TInv, pulled = "nil", ~interrupted
              PROVE  [d \in DOMAIN Names |-> file[Names[d]]] = vm
  OBVIOUS
<1>1. phase = "pull" /\ PullProofs!IInv /\ fetched = manifest
  BY DEF TInv, Pulling, Pull!Begin
<1>2. \A d \in Name : file[d] = PullProofs!Whole(d)
  BY <1>1, PullProofs!IInvPulled, NamesAssumption DEF PullProofs!PulledIsWhole
<1>3. \A d \in Name : PullProofs!Whole(d) = WholeOf(manifest, d)
  BY <1>1 DEF PullProofs!Whole, WholeOf, FoldLeft, PullProofs!FoldLeft, MapThenFoldSet,
              PullProofs!MapThenFoldSet, Max, PullProofs!Max
<1>4. \A k \in DOMAIN Names : Names[k] \in Name /\ WholeOf(manifest, Names[k]) = vm[k]
  BY <1>1, NamesFact DEF TInv, Carried
<1>5. \A k \in DOMAIN Names : file[Names[k]] = vm[k]
  BY <1>2, <1>3, <1>4
<1>6. vm \in [DOMAIN Names -> Disks]
  BY DEF TInv, TransferTypes
<1>. QED
  BY <1>5, <1>6

\* Source, output and result of the transfer, as Whole has them.
LEMMA Mapping ==
  TInv =>
    /\ pulled \in {"none", "nil", "error"} /\ (pulled # "none" => phase = "pull" /\ pc = "returned")
    /\ Blocks(vm) \in Seq(Name \X Block)
    /\ (IF pulled = "nil" /\ ~interrupted THEN Blocks([d \in DOMAIN Names |-> file[Names[d]]]) ELSE <<>>)
         = (IF pulled = "nil" /\ ~interrupted THEN Blocks(vm) ELSE <<>>)
<1>. SUFFICES ASSUME TInv
              PROVE  /\ pulled \in {"none", "nil", "error"}
                     /\ (pulled # "none" => phase = "pull" /\ pc = "returned")
                     /\ Blocks(vm) \in Seq(Name \X Block)
                     /\ pulled = "nil" /\ ~interrupted
                          => Blocks([d \in DOMAIN Names |-> file[Names[d]]]) = Blocks(vm)
  OBVIOUS
<1>1. pulled \in {"none", "nil", "error"} /\ (pulled # "none" => phase = "pull" /\ pc = "returned")
  <2>1. CASE phase = "pull"
    BY <2>1 DEF TInv, Pulling, PullProofs!IInv, PullProofs!TypeOK, PullProofs!Control
  <2>2. CASE phase # "pull"
    BY <2>2 DEF TInv, Pulling, Pull!Begin
  <2>. QED
    BY <2>1, <2>2
<1>2. Blocks(vm) \in Seq(Name \X Block)
  <2>1. vm \in [DOMAIN Names -> Seq(Block)]
    BY ConstantsAssumption DEF TInv, TransferTypes
  <2>. QED
    BY <2>1, BlocksType
<1>. QED
  BY <1>1, <1>2, ArrivedIsWhole

\* A step either leaves what it maps to alone, or ends the transfer.
LEMMA Ends ==
  ASSUME TInv, [TransferNext]_transferVars
  PROVE  /\ vm' = vm
         /\ \/ UNCHANGED <<pulled>> /\ (pulled = "none" \/ UNCHANGED interrupted)
                                    /\ (phase' = "error" <=> phase = "error")
            \/ pulled = "none" /\ UNCHANGED pulled /\ phase # "error" /\ phase' = "error"
            \/ /\ pulled = "none" /\ pulled' # "none" /\ UNCHANGED interrupted
               /\ phase = "pull" /\ phase' = "pull"
<1>1. CASE PushDisk
  BY <1>1 DEF PushDisk, pullVars
<1>2. CASE NextDisk
  BY <1>2 DEF NextDisk, pullVars
<1>3. CASE PushFail
  BY <1>3 DEF PushFail, pullVars, TInv, Pulling, Pull!Begin
<1>4. CASE PutManifest
  BY <1>4 DEF PutManifest, pullVars, TInv, Pulling, Pull!Begin
<1>5. CASE PullDisks
  <2>1. phase = "pull" /\ phase' = "pull" /\ vm' = vm /\ Pull!Next
    BY <1>5 DEF PullDisks
  <2>2. pulled # "none" => pc = "returned"
    BY Mapping
  <2>3. CASE Pull!Wait
    BY <2>1, <2>2, <2>3 DEF Pull!Wait
  <2>4. CASE Pull!Interrupt
    BY <2>1, <2>2, <2>4 DEF Pull!Interrupt
  <2>5. CASE UNCHANGED <<pulled, interrupted>>
    BY <2>1, <2>5
  <2>. QED
    BY <2>1, <2>3, <2>4, <2>5 DEF Pull!Next, Pull!Create, Pull!Spawn, Pull!Go, Pull!Progress,
       Pull!BlobGet, Pull!CopyBlock, Pull!TaskDone, Pull!TaskFail, Pull!Returned, Pull!vars
<1>6. CASE UNCHANGED transferVars
  BY <1>6 DEF transferVars, pullVars
<1>. QED
  BY <1>1, <1>2, <1>3, <1>4, <1>5, <1>6 DEF TransferNext, Over

\* A VM arrives with the disks it had, or the transfer reports an error: pushes and
\* pull together implement the abstract Transfer, whatever fails on the way.
THEOREM ArrivesWholeAlways == TransferSpec => ArrivesWhole
<1>1. TransferInit => Whole!Init
  BY DEF TransferInit, Pull!Begin, Whole!Init
<1>2. TInv /\ TInv' /\ [TransferNext]_transferVars => [Whole!Next]_(Whole!vars)
  <2>. SUFFICES ASSUME TInv, TInv', [TransferNext]_transferVars PROVE [Whole!Next]_(Whole!vars)
    OBVIOUS
  <2>. DEFINE src == Blocks(vm)
              out == IF pulled = "nil" /\ ~interrupted
                     THEN Blocks([d \in DOMAIN Names |-> file[Names[d]]]) ELSE <<>>
              res == IF phase = "error" \/ (pulled = "nil" /\ interrupted) THEN "error" ELSE pulled
  <2>1. /\ pulled \in {"none", "nil", "error"} /\ (pulled # "none" => phase = "pull" /\ pc = "returned")
        /\ src \in Seq(Name \X Block) /\ out = IF pulled = "nil" /\ ~interrupted THEN src ELSE <<>>
    BY Mapping
  <2>2. /\ pulled' \in {"none", "nil", "error"}
        /\ out' = IF pulled' = "nil" /\ ~interrupted' THEN src' ELSE <<>>
    <3>1. (TInv =>
             /\ pulled \in {"none", "nil", "error"}
             /\ (IF pulled = "nil" /\ ~interrupted
                 THEN Blocks([d \in DOMAIN Names |-> file[Names[d]]]) ELSE <<>>)
                  = (IF pulled = "nil" /\ ~interrupted THEN Blocks(vm) ELSE <<>>))'
      BY Mapping, PTL
    <3>. QED
      BY <3>1
  <2>3. src' = src
    BY Ends DEF Blocks
  <2>4. src' = src /\ out' = out /\ res' = res => UNCHANGED Whole!vars
    BY DEF Whole!vars
  <2>5. /\ src' = src /\ res = "none" /\ res' = "error" /\ out' = out => Whole!Fail
    BY DEF Whole!Fail
  <2>6. src' = src /\ res = "none" /\ res' = "nil" /\ out = <<>> /\ out' = src => Whole!Deliver
    <3>. SUFFICES ASSUME src' = src, res = "none", res' = "nil", out = <<>>, out' = src
                  PROVE  Whole!Deliver
      OBVIOUS
    <3>1. Len(src) \in Len(out) .. Len(src) /\ out' = SubSeq(src, 1, Len(src))
      BY <2>1, SubSeqFull, LenProperties, EmptySeq
    <3>. QED
      BY <3>1 DEF Whole!Deliver
  <2>. HIDE DEF src, out
  <2>7. \/ src' = src /\ out' = out /\ res' = res
        \/ src' = src /\ res = "none" /\ res' = "error" /\ out' = out
        \/ src' = src /\ res = "none" /\ res' = "nil" /\ out = <<>> /\ out' = src
    BY <2>1, <2>2, <2>3, Ends
  <2>. HIDE DEF res
  <2>. QED
    BY <2>4, <2>5, <2>6, <2>7 DEF Whole!Next
<1>. QED
  BY <1>1, <1>2, TransferInvariance, PTL DEF TransferSpec, ArrivesWhole, Whole!Spec
=============================================================================
