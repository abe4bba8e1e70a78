--------------------------- MODULE NetworkProofs ---------------------------
(* That FindAvailableSubnet finds the lowest free subnet, whatever the       *)
(* interfaces of the host use, and that the subnets and addresses that       *)
(* concurrent runs give to their VMs are those VMs' own; and, for the        *)
(* software network, when its forwarders give slots back and close flows.    *)
EXTENDS Network, Forwarder, Integers, FiniteSetTheorems, WellFoundedInduction, TLAPS

---------------------------------------------------------------------------
(* Induction over the natural numbers as facts about sets of numbers.  The  *)
(* theorems of the library are about predicates, NEW P(_), with which the   *)
(* provers at hand cannot do anything; a set {n \in Nat : P(n)} they can be *)
(* given.  What follows rests on WFMin and NatLessThanWellFounded.          *)

\* A set of natural numbers has a least one.
LEMMA Least ==
  ASSUME NEW S, S \subseteq Nat, S # {}
  PROVE  \E m \in S : \A n \in S : m <= n
<1>. DEFINE R == OpToRel(<, Nat)
<1>1. \A x, y \in Nat : x < y => <<x, y>> \in R
  BY DEF OpToRel
<1>2. IsWellFoundedOn(R, Nat)
  BY NatLessThanWellFounded
<1>. HIDE DEF R
<1>3. PICK m \in S : \A n \in S : <<n, m>> \notin R
  BY <1>2, WFMin
<1>4. ASSUME NEW n \in S PROVE m <= n
  <2>1. n \in Nat /\ m \in Nat /\ ~(n < m)
    BY <1>1, <1>3
  <2>. QED
    BY <2>1
<1>. QED
  BY <1>3, <1>4

\* What holds 0 and, with each number, the next one holds them all.
LEMMA Induction ==
  ASSUME NEW S, 0 \in S, \A n \in Nat : n \in S => n + 1 \in S
  PROVE  Nat \subseteq S
<1>. SUFFICES ASSUME Nat \ S # {} PROVE FALSE
  OBVIOUS
<1>1. PICK m \in Nat \ S : \A n \in Nat \ S : m <= n
  BY Least
<1>2. m # 0 /\ m - 1 \in Nat /\ m = (m - 1) + 1 /\ ~(m <= m - 1)
  BY <1>1
<1>. QED
  BY <1>1, <1>2

\* A set of natural numbers with a bound has a largest one.
LEMMA Largest ==
  ASSUME NEW S, S \subseteq Nat, S # {}, NEW bound \in Nat, \A n \in S : n <= bound
  PROVE  \E m \in S : \A n \in S : n <= m
<1>. DEFINE Above == {k \in Nat : \A n \in S : n <= k}
<1>1. Above \subseteq Nat /\ Above # {}
  OBVIOUS
<1>2. PICK m \in Above : \A k \in Above : m <= k
  BY <1>1, Least
<1>3. m \in Nat /\ \A n \in S : n \in Nat /\ n <= m
  BY <1>2
<1>4. CASE m = 0
  <2>1. PICK n \in S : TRUE
    OBVIOUS
  <2>2. n = m
    BY <1>3, <1>4, <2>1
  <2>. QED
    BY <1>3, <2>1, <2>2
<1>5. CASE m # 0
  <2>1. m - 1 \in Nat /\ m - 1 \notin Above
    BY <1>2, <1>3, <1>5
  <2>2. PICK n \in S : ~(n <= m - 1)
    BY <2>1
  <2>3. n = m
    BY <1>3, <2>1, <2>2
  <2>. QED
    BY <1>3, <2>3
<1>. QED
  BY <1>4, <1>5

---------------------------------------------------------------------------
(* Prefix blocks.                                                          *)

LEMMA SpaceType ==
  /\ Space \in Nat \ {0} /\ Sizes \subseteq Nat \ {0} /\ Want \in Sizes /\ 1 \in Sizes /\ Space \in Sizes
  /\ \A n \in Sizes : n <= Space
  /\ Private \subseteq Block
BY SubnetsAssumption

LEMMA BlockType ==
  ASSUME NEW b \in Block
  PROVE  /\ b.base \in Nat /\ b.size \in Sizes /\ b.size \in Nat \ {0}
         /\ b.base + b.size <= Space /\ b.base % b.size = 0
<1>1. b \in [base : 0 .. Space - 1, size : Sizes] /\ b.base % b.size = 0 /\ b.base + b.size <= Space
  BY DEF Block
<1>2. b.base \in 0 .. Space - 1 /\ b.size \in Sizes
  BY <1>1
<1>3. b.size \in Nat \ {0} /\ Space \in Nat
  BY <1>2, SpaceType
<1>4. b.base \in Nat
  BY <1>2, <1>3
<1>. QED
  BY <1>1, <1>2, <1>3, <1>4

LEMMA BlockIntro ==
  ASSUME NEW n \in Sizes, NEW i \in Nat, i + n <= Space, i % n = 0
  PROVE  [base |-> i, size |-> n] \in Block
BY SpaceType DEF Block

LEMMA Divides ==
  ASSUME NEW m \in Nat \ {0}, NEW a \in Nat
  PROVE  a % m = 0 <=> \E k \in Nat : a = m * k
<1>1. a = m * (a \div m) + (a % m) /\ a \div m \in Nat /\ a % m \in Nat
  OBVIOUS
<1>2. ASSUME NEW k \in Nat PROVE (m * k) % m = 0
  OBVIOUS
<1>3. ASSUME a % m = 0 PROVE \E k \in Nat : a = m * k
  <2>1. a = m * (a \div m)
    BY <1>1, <1>3
  <2>. QED
    BY <1>1, <2>1
<1>. QED
  BY <1>2, <1>3

\* A shorter size divides a longer one.
LEMMA SizeDivides ==
  ASSUME NEW m \in Sizes, NEW n \in Sizes, m <= n
  PROVE  \E k \in Nat \ {0} : n = m * k
<1>1. m \in Nat \ {0} /\ n \in Nat \ {0}
  BY SpaceType
<1>2. CASE m = n
  BY <1>1, <1>2
<1>3. CASE m < n
  <2>1. n % m = 0
    BY <1>3, SubnetsAssumption
  <2>2. PICK k \in Nat : n = m * k
    BY <1>1, <2>1, Divides
  <2>3. k # 0
    BY <1>1, <2>2
  <2>. QED
    BY <2>2, <2>3
<1>. QED
  BY <1>1, <1>2, <1>3

LEMMA Scale ==
  ASSUME NEW m \in Nat \ {0}, NEW i \in Int, NEW j \in Int, m * i < m * j
  PROVE  m * i + m <= m * j
OBVIOUS

\* Two blocks are apart, or one is in the other.
LEMMA Laminar ==
  ASSUME NEW x \in Block, NEW y \in Block, x.size <= y.size
  PROVE  Disjoint(x, y) \/ Within(x, y)
<1>1. PICK i \in Nat : x.base = x.size * i
  BY BlockType, Divides
<1>2. PICK k \in Nat \ {0} : y.size = x.size * k
  BY BlockType, SizeDivides
<1>3. PICK j \in Nat : y.base = y.size * j
  BY BlockType, Divides
<1>. DEFINE m == x.size
            a == k * j
            b == k * j + k
<1>4. m \in Nat \ {0} /\ a \in Nat /\ b \in Nat
  BY BlockType
<1>5. y.base = m * a
  BY <1>2, <1>3, <1>4
<1>6. y.base + y.size = m * b
  BY <1>2, <1>4, <1>5
<1>7. x.base < y.base => x.base + m <= y.base
  BY <1>1, <1>4, <1>5, Scale
<1>8. x.base < y.base + y.size => x.base + m <= y.base + y.size
  BY <1>1, <1>4, <1>6, Scale
<1>. QED
  BY <1>7, <1>8, BlockType DEF Disjoint, Within

\* The block of an address.
LEMMA BlockOfIsBlock ==
  ASSUME NEW ip \in 0 .. Space - 1, NEW n \in Sizes
  PROVE  /\ BlockOf(ip, n) \in Block
         /\ BlockOf(ip, n).base <= ip /\ ip < BlockOf(ip, n).base + n
         /\ BlockOf(ip, n).size = n
<1>1. n \in Nat \ {0} /\ ip \in Nat /\ n <= Space /\ Space \in Nat
  BY SpaceType
<1>2. ip = n * (ip \div n) + (ip % n) /\ ip \div n \in Nat /\ ip % n \in 0 .. n - 1
  BY <1>1
<1>. DEFINE i == ip - (ip % n)
            q == ip \div n
<1>3. i = n * q /\ i \in Nat /\ q \in Nat
  BY <1>1, <1>2
<1>4. i % n = 0
  BY <1>1, <1>3, Divides
<1>5. PICK k \in Nat \ {0} : Space = n * k
  BY <1>1, SpaceType, SizeDivides
<1>6. n * q < n * k
  BY <1>1, <1>2, <1>3, <1>5
<1>7. i + n <= Space
  BY <1>1, <1>3, <1>5, <1>6, Scale
<1>8. BlockOf(ip, n) = [base |-> i, size |-> n]
  BY DEF BlockOf
<1>. QED
  BY <1>1, <1>2, <1>3, <1>4, <1>7, <1>8, BlockIntro

LEMMA InAddresses ==
  ASSUME NEW b \in Block, NEW a
  PROVE  a \in Addresses(b) <=> a \in Nat /\ b.base <= a /\ a < b.base + b.size
BY BlockType DEF Addresses

LEMMA Inside ==
  ASSUME NEW x \in Block, NEW y \in Block
  PROVE  Within(x, y) <=> Addresses(x) \subseteq Addresses(y)
<1>. DEFINE first == x.base
            last == x.base + x.size - 1
<1>1. first \in Addresses(x) /\ last \in Addresses(x)
  <2>1. x.base \in Nat /\ x.size \in Nat \ {0}
    BY BlockType
  <2>2. first \in x.base .. x.base + x.size - 1 /\ last \in x.base .. x.base + x.size - 1
    BY <2>1
  <2>. QED
    BY <2>2 DEF Addresses
<1>2. ASSUME Addresses(x) \subseteq Addresses(y) PROVE Within(x, y)
  <2>1. first \in Addresses(y) /\ last \in Addresses(y)
    BY <1>1, <1>2
  <2>. QED
    BY <2>1, BlockType, InAddresses DEF Within
<1>3. ASSUME Within(x, y), NEW a \in Addresses(x) PROVE a \in Addresses(y)
  BY <1>3, BlockType, InAddresses DEF Within
<1>. QED
  BY <1>2, <1>3

LEMMA Separate ==
  ASSUME NEW x \in Block, NEW y \in Block
  PROVE  Disjoint(x, y) <=> \A a \in Addresses(x) : a \notin Addresses(y)
<1>1. ASSUME Disjoint(x, y), NEW a \in Addresses(x) PROVE a \notin Addresses(y)
  BY <1>1, BlockType, InAddresses DEF Disjoint
<1>2. ASSUME ~Disjoint(x, y) PROVE \E a \in Addresses(x) : a \in Addresses(y)
  <2>1. CASE x.base <= y.base
    <3>1. y.base \in Addresses(x) /\ y.base \in Addresses(y)
      BY <1>2, <2>1, BlockType, InAddresses DEF Disjoint
    <3>. QED
      BY <3>1
  <2>2. CASE ~(x.base <= y.base)
    <3>1. x.base \in Addresses(x) /\ x.base \in Addresses(y)
      BY <1>2, <2>2, BlockType, InAddresses DEF Disjoint
    <3>. QED
      BY <3>1
  <2>. QED
    BY <2>1, <2>2
<1>. QED
  BY <1>1, <1>2

\* Apart, in, or around.
LEMMA Trichotomy ==
  ASSUME NEW x \in Block, NEW y \in Block, ~Within(x, y), ~Within(y, x)
  PROVE  Disjoint(x, y)
<1>1. x.size <= y.size \/ y.size <= x.size
  BY BlockType
<1>2. Disjoint(y, x) => Disjoint(x, y)
  BY DEF Disjoint
<1>. QED
  BY <1>1, <1>2, Laminar

---------------------------------------------------------------------------
(* One turn of the loop.                                                   *)

\* The trie has what is free, cut into blocks none of which could be longer.
Carves(used, trie) ==
  /\ trie \subseteq Block
  /\ \A e \in trie : Addresses(e) \subseteq Free(used)
  /\ \A x \in Block : Addresses(x) \subseteq Free(used) => \E e \in trie : Within(x, e)

LEMMA InFree ==
  ASSUME NEW used, NEW a
  PROVE  a \in Free(used) <=> /\ \E e \in Private : a \in Addresses(e)
                              /\ \A e \in used : a \notin Addresses(e)
BY DEF Free

\* What is left of e without b.
LEMMA SubtractIsRight ==
  ASSUME NEW e \in Block, NEW b \in Block
  PROVE  /\ Subtract(e, b) \subseteq Block
         /\ \A x \in Subtract(e, b) : Within(x, e) /\ Disjoint(x, b)
         /\ \A x \in Block : Within(x, e) /\ Disjoint(x, b) =>
              \E y \in Subtract(e, b) : Within(x, y)
<1>1. ASSUME NEW x \in Subtract(e, b) PROVE x \in Block /\ Within(x, e) /\ Disjoint(x, b)
  BY DEF Subtract
<1>2. ASSUME NEW x \in Block, Within(x, e), Disjoint(x, b)
      PROVE  \E y \in Subtract(e, b) : Within(x, y)
  <2>. DEFINE Candidates == {y \in Block : Within(x, y) /\ Within(y, e) /\ Disjoint(y, b)}
              Lengths == {y.size : y \in Candidates}
  <2>1. Within(x, x)
    BY BlockType DEF Within
  <2>2. x \in Candidates
    BY <1>2, <2>1
  <2>3. Lengths \subseteq Nat /\ Lengths # {} /\ \A n \in Lengths : n <= Space
    BY <2>2, BlockType, SpaceType
  <2>4. PICK m \in Lengths : \A n \in Lengths : n <= m
    <3>. HIDE DEF Lengths
    <3>. QED
      BY <2>3, Largest, SpaceType
  <2>5. PICK y \in Candidates : y.size = m
    BY <2>4
  <2>6. y \in Block /\ Within(x, y) /\ Within(y, e) /\ Disjoint(y, b)
    BY <2>5
  <2>. DEFINE d == BlockOf(y.base, 2 * y.size)
  <2>7. ~(Within(d, e) /\ Disjoint(d, b))
    <3>. SUFFICES ASSUME Within(d, e), Disjoint(d, b) PROVE FALSE
      OBVIOUS
    <3>1. d.size = 2 * y.size /\ d.base = y.base - (y.base % (2 * y.size))
      BY DEF BlockOf
    <3>2. d.base + d.size <= e.base + e.size /\ e.base <= d.base
      BY DEF Within
    <3>3. /\ y.base \in Nat /\ y.size \in Nat \ {0} /\ y.size \in Sizes /\ y.base + y.size <= Space
          /\ e.base \in Nat /\ e.size \in Nat \ {0} /\ e.size \in Sizes /\ Space \in Nat
      BY <2>6, BlockType, SpaceType
    <3>4. d.base \in Int /\ d.size \in Nat
      BY <3>1, <3>3
    <3>5. y.size < e.size
      BY <3>1, <3>2, <3>3, <3>4
    <3>6. 2 * y.size \in Sizes /\ y.base \in 0 .. Space - 1
      BY <3>3, <3>5, SubnetsAssumption
    <3>7. d \in Block /\ d.base <= y.base /\ y.base < d.base + d.size
      BY <3>1, <3>6, BlockOfIsBlock
    <3>8. ~Disjoint(y, d)
      BY <3>3, <3>7, BlockType DEF Disjoint
    <3>9. Within(y, d)
      <4>1. y.size <= d.size
        BY <3>1, <3>3
      <4>. QED
        BY <2>6, <3>7, <3>8, <4>1, Laminar
    <3>10. Within(x, d)
      BY <2>6, <3>7, <3>9, BlockType DEF Within
    <3>11. d.size \in Lengths
      BY <3>7, <3>10
    <3>12. d.size <= y.size
      BY <2>4, <2>5, <3>11
    <3>. QED
      BY <3>1, <3>3, <3>12
  <2>8. y \in Subtract(e, b)
    BY <2>6, <2>7 DEF Subtract
  <2>. QED
    BY <2>6, <2>8
<1>. QED
  BY <1>1, <1>2

\* A turn for b takes b's addresses out and nothing else.
LEMMA SubtractInterfaceCarves ==
  ASSUME NEW used, NEW trie, Carves(used, trie), NEW b \in Block
  PROVE  Carves(used \cup {b}, SubtractInterface(b, trie))
<1>. DEFINE rest == RemoveElementsContainedBy(trie, b)
            match == LongestPrefixMatch(rest, b)
            new == SubtractInterface(b, trie)
<1>1. trie \subseteq Block
  BY DEF Carves
<1>2. \A e : e \in new <=> \/ e \in trie /\ ~Within(e, b) /\ ~Within(b, e)
                           \/ \E o \in trie : /\ ~Within(o, b) /\ Within(b, o)
                                              /\ e \in Subtract(o, b)
  BY DEF SubtractInterface, RemoveElementsContainedBy, LongestPrefixMatch
<1>. HIDE DEF rest, match, new
<1>3. \A a : a \in Free(used \cup {b}) <=> a \in Free(used) /\ a \notin Addresses(b)
  BY InFree
<1>4. ASSUME NEW e \in new
      PROVE  e \in Block /\ Disjoint(e, b) /\ \E o \in trie : Addresses(e) \subseteq Addresses(o)
  <2>1. CASE e \in trie /\ ~Within(e, b) /\ ~Within(b, e)
    BY <1>1, <2>1, Trichotomy
  <2>2. ASSUME NEW o \in trie, e \in Subtract(o, b)
        PROVE  e \in Block /\ Disjoint(e, b) /\ Addresses(e) \subseteq Addresses(o)
    <3>1. o \in Block
      BY <1>1
    <3>2. e \in Block /\ Within(e, o) /\ Disjoint(e, b)
      BY <2>2, <3>1, SubtractIsRight
    <3>. QED
      BY <3>1, <3>2, Inside
  <2>. QED
    BY <1>2, <2>1, <2>2
<1>5. ASSUME NEW e \in new PROVE Addresses(e) \subseteq Free(used \cup {b})
  <2>1. PICK o \in trie : Addresses(e) \subseteq Addresses(o)
    BY <1>4
  <2>2. Addresses(o) \subseteq Free(used)
    BY DEF Carves
  <2>3. \A a \in Addresses(e) : a \notin Addresses(b)
    BY <1>4, Separate
  <2>. QED
    BY <1>3, <2>1, <2>2, <2>3
<1>6. ASSUME NEW x \in Block, Addresses(x) \subseteq Free(used \cup {b})
      PROVE  \E e \in new : Within(x, e)
  <2>1. PICK o \in trie : Within(x, o)
    BY <1>3, <1>6 DEF Carves
  <2>2. o \in Block
    BY <1>1
  <2>3. Disjoint(x, b)
    BY <1>3, <1>6, Separate
  <2>4. ~Within(o, b)
    BY <2>1, <2>2, <2>3, BlockType DEF Within, Disjoint
  <2>5. CASE Within(b, o)
    <3>1. PICK e \in Subtract(o, b) : Within(x, e)
      BY <2>1, <2>2, <2>3, SubtractIsRight
    <3>2. e \in new
      BY <1>2, <2>4, <2>5, <3>1
    <3>. QED
      BY <3>1, <3>2
  <2>6. CASE ~Within(b, o)
    <3>1. o \in new
      BY <1>2, <2>4, <2>6
    <3>. QED
      BY <2>1, <3>1
  <2>. QED
    BY <2>5, <2>6
<1>. QED
  BY <1>4, <1>5, <1>6 DEF Carves, new

---------------------------------------------------------------------------
(* The loop.                                                               *)

\* The address whose turn comes last, of those in s.
Last(s) == CHOOSE b \in s : TRUE

\* What Available makes of the set s, given what it makes of smaller sets.
Turn(rest, s) == IF s = {} THEN Private ELSE SubtractInterface(Last(s), rest[s \ {Last(s)}])

\* The loop is well defined: there is a function that takes one turn after the
\* other, for every set of addresses of at most n elements.
LEMMA LoopExists ==
  ASSUME NEW U, IsFiniteSet(U)
  PROVE  \E rest : rest = [s \in SUBSET U |-> Turn(rest, s)]
<1>. DEFINE Small(n) == {s \in SUBSET U : Cardinality(s) <= n}
            Defined == {n \in Nat : \E rest : rest = [s \in Small(n) |-> Turn(rest, s)]}
<1>1. \A s \in SUBSET U : IsFiniteSet(s) /\ Cardinality(s) \in Nat
  BY FS_Subset, FS_CardinalityType
<1>2. \A s \in SUBSET U : s # {} =>
        /\ Last(s) \in s /\ s \ {Last(s)} \in SUBSET U
        /\ Cardinality(s \ {Last(s)}) = Cardinality(s) - 1
  <2>. SUFFICES ASSUME NEW s \in SUBSET U, s # {}
                PROVE  /\ Last(s) \in s /\ s \ {Last(s)} \in SUBSET U
                       /\ Cardinality(s \ {Last(s)}) = Cardinality(s) - 1
    OBVIOUS
  <2>1. Last(s) \in s
    BY DEF Last
  <2>. QED
    BY <1>1, <2>1, FS_RemoveElement
<1>3. 0 \in Defined
  <2>1. \A s \in Small(0) : s = {}
    BY <1>1, FS_EmptySet
  <2>. DEFINE rest == [s \in Small(0) |-> Private]
  <2>2. rest = [s \in Small(0) |-> Turn(rest, s)]
    BY <2>1 DEF Turn
  <2>. HIDE DEF rest
  <2>. QED
    BY <2>2
<1>4. ASSUME NEW n \in Nat, n \in Defined PROVE n + 1 \in Defined
  <2>1. PICK rest : rest = [s \in Small(n) |-> Turn(rest, s)]
    BY <1>4
  <2>. DEFINE more == [s \in Small(n + 1) |-> Turn(rest, s)]
  <2>2. ASSUME NEW s \in Small(n + 1) PROVE more[s] = Turn(more, s)
    <3>1. more[s] = Turn(rest, s)
      OBVIOUS
    <3>2. CASE s = {}
      BY <3>1, <3>2 DEF Turn
    <3>3. CASE s # {}
      <4>. DEFINE r == s \ {Last(s)}
      <4>1. r \in Small(n) /\ r \in Small(n + 1)
        BY <1>1, <1>2, <3>3
      <4>. HIDE DEF r
      <4>2. rest[r] = Turn(rest, r)
        BY <2>1, <4>1
      <4>3. more[r] = rest[r]
        BY <4>1, <4>2
      <4>. QED
        BY <3>1, <3>3, <4>3 DEF Turn, r
    <3>. QED
      BY <3>2, <3>3
  <2>3. more = [s \in Small(n + 1) |-> Turn(more, s)]
    BY <2>2
  <2>. HIDE DEF more, Small
  <2>4. n + 1 \in Nat
    OBVIOUS
  <2>. QED
    BY <2>3, <2>4
<1>5. Cardinality(U) \in Defined
  <2>. HIDE DEF Defined
  <2>1. Nat \subseteq Defined
    BY <1>3, <1>4, Induction
  <2>. QED
    BY <2>1, <1>1
<1>6. Small(Cardinality(U)) = SUBSET U
  <2>1. \A s \in SUBSET U : Cardinality(s) <= Cardinality(U)
    BY FS_Subset
  <2>. QED
    BY <2>1
<1>. QED
  BY <1>5, <1>6

\* After the loop the trie has what none of the interfaces uses.
LEMMA AvailableCarves ==
  ASSUME NEW U, IsFiniteSet(U), U \subseteq Block
  PROVE  Carves(U, Available(U))
<1>. DEFINE loop == CHOOSE rest : rest = [s \in SUBSET U |-> Turn(rest, s)]
<1>1. loop = [s \in SUBSET U |-> Turn(loop, s)]
  BY LoopExists
<1>2. Available(U) = loop[U]
  BY DEF Available, FoldSet, MapThenFoldSet, Turn, Last
<1>. HIDE DEF loop
<1>3. \A s \in SUBSET U : IsFiniteSet(s) /\ Cardinality(s) \in Nat
  BY FS_Subset, FS_CardinalityType
<1>. DEFINE Right == {n \in Nat : \A s \in SUBSET U : Cardinality(s) = n => Carves(s, loop[s])}
<1>4. 0 \in Right
  <2>1. Carves({}, Private)
    <3>1. \A a : a \in Free({}) <=> \E e \in Private : a \in Addresses(e)
      BY InFree
    <3>2. Free({}) = UNION {Addresses(e) : e \in Private}
      BY <3>1
    <3>. QED
      BY <3>1, <3>2, SubnetsAssumption DEF Carves
  <2>2. ASSUME NEW s \in SUBSET U, Cardinality(s) = 0 PROVE Carves(s, loop[s])
    <3>1. s = {}
      BY <1>3, <2>2, FS_EmptySet
    <3>2. loop[s] = Private
      BY <1>1, <3>1 DEF Turn
    <3>. QED
      BY <2>1, <3>1, <3>2
  <2>. QED
    BY <2>2
<1>5. ASSUME NEW n \in Nat, n \in Right PROVE n + 1 \in Right
  <2>. SUFFICES ASSUME NEW s \in SUBSET U, Cardinality(s) = n + 1 PROVE Carves(s, loop[s])
    OBVIOUS
  <2>1. s # {}
    BY FS_EmptySet
  <2>2. Last(s) \in s /\ Last(s) \in Block
    BY <2>1 DEF Last
  <2>. DEFINE b == Last(s)
              r == s \ {b}
  <2>3. r \in SUBSET U /\ Cardinality(r) = n
    <3>1. Cardinality(r) = Cardinality(s) - 1
      BY <1>3, <2>2, FS_RemoveElement
    <3>. QED
      BY <3>1
  <2>4. Carves(r, loop[r])
    BY <1>5, <2>3
  <2>5. loop[s] = SubtractInterface(b, loop[r])
    BY <1>1, <2>1 DEF Turn
  <2>6. s = r \cup {b}
    BY <2>2
  <2>. HIDE DEF r, b
  <2>7. b \in Block
    BY <2>2 DEF b
  <2>8. Carves(r \cup {b}, SubtractInterface(b, loop[r]))
    BY <2>4, <2>7, SubtractInterfaceCarves
  <2>. QED
    BY <2>5, <2>6, <2>8
<1>6. Cardinality(U) \in Right
  <2>. HIDE DEF Right
  <2>1. Nat \subseteq Right
    BY <1>4, <1>5, Induction
  <2>. QED
    BY <2>1, <1>3
<1>. QED
  BY <1>2, <1>6

\* The subnet that FindAvailableSubnet returns is the lowest one that is free.
LEMMA FindsFirstFree ==
  ASSUME NEW U, IsFiniteSet(U), U \subseteq Block
  PROVE  FindAvailableSubnet(U) = FirstFree(U)
<1>. DEFINE trie == Available(U)
            fit == LargeEnough(trie)
            Cut(e) == [base |-> e.base, size |-> Want]
            free == {b \in Block : b.size = Want /\ Addresses(b) \subseteq Free(U)}
<1>1. Carves(U, trie)
  BY AvailableCarves
<1>2. FindAvailableSubnet(U) = {Cut(e) : e \in {x \in fit : \A y \in fit : x.base <= y.base}}
  BY DEF FindAvailableSubnet
<1>3. FirstFree(U) = {b \in free : \A c \in free : b.base <= c.base}
  BY DEF FirstFree
<1>. HIDE DEF trie
<1>4. Want \in Sizes /\ Want \in Nat \ {0}
  BY SpaceType
<1>5. ASSUME NEW e \in fit PROVE Cut(e) \in free /\ e \in Block
  <2>1. e \in Block /\ e.size >= Want /\ Addresses(e) \subseteq Free(U)
    BY <1>1 DEF Carves, LargeEnough
  <2>2. PICK k \in Nat \ {0} : e.size = Want * k
    BY <1>4, <2>1, BlockType, SizeDivides
  <2>3. PICK j \in Nat : e.base = e.size * j
    BY <2>1, BlockType, Divides
  <2>4. e.base = Want * (k * j) /\ k * j \in Nat
    BY <1>4, <2>2, <2>3
  <2>5. e.base % Want = 0
    <3>. DEFINE m == k * j
    <3>1. e.base = Want * m /\ m \in Nat /\ e.base \in Nat
      BY <2>1, <2>4, BlockType
    <3>. HIDE DEF m
    <3>. QED
      BY <1>4, <3>1, Divides
  <2>6. Cut(e) \in Block
    <3>1. e.base \in Nat /\ e.base + Want <= Space
      BY <1>4, <2>1, BlockType, SpaceType
    <3>. QED
      BY <1>4, <2>5, <3>1, BlockIntro
  <2>7. Within(Cut(e), e)
    BY <1>4, <2>1, BlockType DEF Within
  <2>8. Addresses(Cut(e)) \subseteq Free(U)
    <3>. HIDE DEF Cut
    <3>. QED
      BY <2>1, <2>6, <2>7, Inside
  <2>. QED
    BY <2>1, <2>6, <2>8
<1>6. ASSUME NEW c \in free PROVE \E e \in fit : e.base <= c.base /\ Within(c, e)
  <2>1. PICK e \in trie : Within(c, e)
    BY <1>1 DEF Carves
  <2>2. e \in Block /\ c \in Block /\ c.size = Want
    BY <1>1 DEF Carves
  <2>3. e.base <= c.base /\ e.size >= Want
    BY <1>4, <2>1, <2>2, BlockType DEF Within
  <2>. QED
    BY <2>1, <2>3 DEF LargeEnough
<1>7. ASSUME NEW c \in free
      PROVE  c \in Block /\ c.base \in Nat /\ c = [base |-> c.base, size |-> Want]
  <2>1. c \in Block /\ c.size = Want
    OBVIOUS
  <2>2. c = [base |-> c.base, size |-> c.size]
    BY <2>1 DEF Block
  <2>. QED
    BY <2>1, <2>2, BlockType
<1>. HIDE DEF fit, free
<1>8. ASSUME NEW e \in fit, \A y \in fit : e.base <= y.base
      PROVE  Cut(e) \in free /\ \A c \in free : Cut(e).base <= c.base
  <2>1. ASSUME NEW c \in free PROVE e.base <= c.base
    <3>1. PICK y \in fit : y.base <= c.base
      BY <1>6
    <3>2. e.base \in Nat /\ y.base \in Nat /\ c.base \in Nat
      BY <1>5, <1>7, <3>1, BlockType
    <3>. QED
      BY <1>8, <3>1, <3>2
  <2>. QED
    BY <1>5, <2>1
<1>9. ASSUME NEW c \in free, \A d \in free : c.base <= d.base
      PROVE  \E e \in fit : c = Cut(e) /\ \A y \in fit : e.base <= y.base
  <2>1. PICK e \in fit : e.base <= c.base
    BY <1>6
  <2>2. \A y \in fit : Cut(y).base = y.base
    OBVIOUS
  <2>3. \A y \in fit : c.base <= y.base
    BY <1>5, <1>9, <2>2
  <2>4. e.base = c.base
    <3>1. e.base \in Nat /\ c.base \in Nat /\ c.base <= e.base
      BY <1>5, <1>7, <2>3, BlockType
    <3>. QED
      BY <2>1, <3>1
  <2>. QED
    BY <1>7, <2>3, <2>4
<1>. QED
  BY <1>2, <1>3, <1>8, <1>9

LEMMA BlocksAreFinite == IsFiniteSet(Block)
<1>. DEFINE f == [b \in Block |-> <<b.base, b.size>>]
            T == (0 .. Space) \X (0 .. Space)
<1>1. IsFiniteSet(0 .. Space)
  BY SpaceType, FS_Interval
<1>2. IsFiniteSet(T)
  BY <1>1, FS_Product
<1>3. f \in [Block -> T]
  <2>1. ASSUME NEW b \in Block PROVE b.base \in 0 .. Space /\ b.size \in 0 .. Space
    BY BlockType, SpaceType
  <2>. QED
    BY <2>1
<1>4. ASSUME NEW b \in Block, NEW c \in Block, f[b] = f[c] PROVE b = c
  <2>1. b.base = c.base /\ b.size = c.size
    BY <1>4
  <2>. QED
    BY <2>1 DEF Block
<1>5. f \in Injection(Block, T)
  BY <1>3, <1>4 DEF Injection, IsInjective
<1>. HIDE DEF f, T
<1>. QED
  BY <1>2, <1>5, FS_Injection

\* A subnet that is found has nothing of what is in use.
LEMMA FoundIsFree ==
  ASSUME NEW U, U \subseteq Block, NEW b \in FirstFree(U)
  PROVE  b \in Block /\ b.size = Want /\ \A u \in U : Disjoint(b, u)
<1>1. b \in Block /\ b.size = Want /\ Addresses(b) \subseteq Free(U)
  BY DEF FirstFree
<1>. QED
  BY <1>1, InFree, Separate

\* There is at most one of it.
LEMMA FoundIsUnique ==
  ASSUME NEW U, NEW b \in FirstFree(U), NEW c \in FirstFree(U)
  PROVE  b = c
<1>1. b \in Block /\ c \in Block /\ b.size = Want /\ c.size = Want /\ b.base <= c.base /\ c.base <= b.base
  BY DEF FirstFree
<1>2. b.base = c.base
  BY <1>1, BlockType
<1>. QED
  BY <1>1, <1>2 DEF Block

---------------------------------------------------------------------------
(* The invariant of the runs.                                              *)

LockLabels == {"tap", "find", "neigh", "addr", "services"}

\* The host has an address on the interface of p: from AddrAdd until the last
\* process that has the interface open is gone.
Wired(p) ==
  /\ mode[p] # "bridged"
  /\ pc[p] \in {"services", "up", "running"} \/ (pc[p] = "exited" /\ hv[p])

Types ==
  /\ glock \in Proc \cup {None}
  /\ mode \in [Proc -> {"none", "software", "host", "bridged"}]
  /\ pc \in [Proc -> LockLabels \cup {"new", "up", "running", "exited"}]
  /\ DOMAIN subnet = Proc /\ DOMAIN neigh = Proc /\ DOMAIN addr = Proc
  /\ hv \in [Proc -> BOOLEAN]
  /\ reading \in {"network", "address"}
  /\ foreign \subseteq Foreign /\ known \in [Proc -> SUBSET Foreign]

\* How far p is: who has the lock, and what the interface has been given.
Stage(p) ==
  /\ pc[p] \in LockLabels <=> glock = p
  /\ hv[p] => pc[p] \in {"running", "exited"}
  /\ pc[p] \in {"find", "neigh", "addr", "services"} => mode[p] # "bridged"
  /\ IF pc[p] \in {"neigh", "addr"} \/ Wired(p)
     THEN \E b \in Block : b.size = Want /\ subnet[p] = {b}
     ELSE subnet[p] = {}
  /\ pc[p] = "addr" \/ Wired(p) => neigh[p] = VMIP(p)
  /\ addr[p] = IF Wired(p) THEN {[ip |-> i, size |-> Want] : i \in HostIP(p)} ELSE {}

IInv == Types /\ (\A p \in Proc : Stage(p)) /\ SubnetsDisjoint

\* The subnet of a run, and the addresses in it.
LEMMA SubnetOf ==
  ASSUME NEW p \in Proc, NEW b \in Block, b.size = Want, subnet[p] = {b}
  PROVE  /\ GatewayIP(p) = {b.base + 1} /\ VMIP(p) = {b.base + 2}
         /\ HostIP(p) = IF mode[p] = "host" THEN {b.base + 1} ELSE {b.base + 3}
         /\ \A i \in {b.base + 1, b.base + 2, b.base + 3} :
              i \in Addresses(b) /\ i \in 0 .. Space - 1 /\ BlockOf(i, Want) = b
<1>1. /\ GatewayIP(p) = {b.base + 1} /\ VMIP(p) = {b.base + 2}
      /\ HostIP(p) = IF mode[p] = "host" THEN {b.base + 1} ELSE {b.base + 3}
  BY DEF GatewayIP, VMIP, HostIP
<1>2. /\ b.base \in Nat /\ Want \in Nat \ {0} /\ Want >= 4 /\ b.base + Want <= Space /\ Space \in Nat
      /\ b.base % Want = 0 /\ Want \in Sizes
  BY BlockType, SpaceType, NetworkAssumption
<1>3. PICK k \in Nat : b.base = Want * k
  BY <1>2, Divides
<1>4. ASSUME NEW r \in {1, 2, 3}
      PROVE  /\ b.base + r \in Addresses(b) /\ b.base + r \in 0 .. Space - 1
             /\ BlockOf(b.base + r, Want) = b
  <2>1. r \in 0 .. Want - 1 /\ r \in Nat
    BY <1>2
  <2>2. (Want * k + r) % Want = r
    BY <1>2, <2>1
  <2>3. (b.base + r) - ((b.base + r) % Want) = b.base
    BY <1>2, <1>3, <2>1, <2>2
  <2>4. b = [base |-> b.base, size |-> Want]
    BY DEF Block
  <2>5. BlockOf(b.base + r, Want) = b
    BY <2>3, <2>4 DEF BlockOf
  <2>. QED
    BY <1>2, <2>1, <2>5, InAddresses
<1>. QED
  BY <1>1, <1>4

\* How the finder understands an address of an interface: as a block that has it.
LEMMA ParsedIsBlock ==
  ASSUME NEW a \in [ip : 0 .. Space - 1, size : Sizes], NEW r
  PROVE  Parsed(a, r) \in Block /\ a.ip \in Addresses(Parsed(a, r))
<1>1. a.ip \in 0 .. Space - 1 /\ a.size \in Sizes /\ 1 \in Sizes /\ a.ip \in Nat
  BY SpaceType
<1>2. ASSUME NEW n \in Sizes PROVE BlockOf(a.ip, n) \in Block /\ a.ip \in Addresses(BlockOf(a.ip, n))
  <2>1. /\ BlockOf(a.ip, n) \in Block /\ BlockOf(a.ip, n).size = n
        /\ BlockOf(a.ip, n).base <= a.ip /\ a.ip < BlockOf(a.ip, n).base + n
    BY <1>1, BlockOfIsBlock
  <2>. QED
    BY <1>1, <2>1, InAddresses
<1>. QED
  BY <1>1, <1>2 DEF Parsed

\* A subnet that is apart from what the finder has read has not the address, and is
\* in the network only if that is larger and was taken for the address alone.
LEMMA ParsedSpares ==
  ASSUME NEW a \in [ip : 0 .. Space - 1, size : Sizes], NEW b \in Block, b.size = Want,
         reading \in {"network", "address"}, Disjoint(b, Parsed(a, reading))
  PROVE  a.ip \notin Addresses(b) /\ (Disjoint(b, NetworkOf(a)) \/ Overlooked(a))
<1>1. a.ip \notin Addresses(b)
  BY ParsedIsBlock, Separate
<1>2. ASSUME ~Overlooked(a) PROVE Disjoint(b, NetworkOf(a))
  <2>1. CASE reading = "network" \/ a.ip % a.size = 0
    BY <2>1 DEF Parsed, NetworkOf
  <2>2. CASE ~(reading = "network" \/ a.ip % a.size = 0) /\ reading = "address"
    <3>. DEFINE n == a.size
    <3>1. n \in Sizes /\ a.ip \in 0 .. Space - 1 /\ ~(n > Want)
      BY <1>2, <2>2 DEF Overlooked
    <3>. HIDE DEF n
    <3>2. n <= Want
      BY <3>1, SpaceType
    <3>. USE DEF n
    <3>3. NetworkOf(a) \in Block /\ NetworkOf(a).size = a.size /\ a.ip \in Addresses(NetworkOf(a))
      <4>1. /\ BlockOf(a.ip, a.size) \in Block /\ BlockOf(a.ip, a.size).size = a.size
            /\ BlockOf(a.ip, a.size).base <= a.ip /\ a.ip < BlockOf(a.ip, a.size).base + a.size
        BY <3>1, BlockOfIsBlock
      <4>2. a.ip \in Nat
        BY <3>1, SpaceType
      <4>. QED
        BY <4>1, <4>2, InAddresses DEF NetworkOf
    <3>4. ~Within(NetworkOf(a), b)
      BY <1>1, <3>3, Inside
    <3>5. Disjoint(NetworkOf(a), b)
      BY <3>2, <3>3, <3>4, Laminar
    <3>. QED
      BY <3>5 DEF Disjoint
  <2>. QED
    BY <2>1, <2>2
<1>. QED
  BY <1>1, <1>2

\* The address of an interface is one of its subnet.
LEMMA HostAddress ==
  ASSUME NEW p \in Proc, Stage(p), Wired(p)
  PROVE  \E b \in Block, i \in 0 .. Space - 1 :
           /\ subnet[p] = {b} /\ b.size = Want /\ i \in Addresses(b)
           /\ i = IF mode[p] = "host" THEN b.base + 1 ELSE b.base + 3
           /\ addr[p] = {[ip |-> i, size |-> Want]}
<1>1. PICK b \in Block : b.size = Want /\ subnet[p] = {b}
  BY DEF Stage
<1>. DEFINE i == IF mode[p] = "host" THEN b.base + 1 ELSE b.base + 3
<1>2. HostIP(p) = {i} /\ i \in Addresses(b) /\ i \in 0 .. Space - 1
  BY <1>1, SubnetOf
<1>3. addr[p] = {[ip |-> j, size |-> Want] : j \in HostIP(p)}
  BY DEF Stage
<1>4. addr[p] = {[ip |-> i, size |-> Want]}
  BY <1>2, <1>3
<1>. QED
  BY <1>1, <1>2, <1>4

\* The addresses on the host's interfaces are addresses.
LEMMA AddrType ==
  ASSUME NEW p \in Proc, Stage(p), NEW a \in addr[p]
  PROVE  a \in [ip : 0 .. Space - 1, size : Sizes]
<1>1. Wired(p)
  BY DEF Stage
<1>2. PICK i \in 0 .. Space - 1 : addr[p] = {[ip |-> i, size |-> Want]}
  BY <1>1, HostAddress
<1>. QED
  BY <1>2, SpaceType

LEMMA InterfaceType ==
  ASSUME Types, \A p \in Proc : Stage(p), NEW p \in Proc, NEW a \in Interfaces(p)
  PROVE  a \in [ip : 0 .. Space - 1, size : Sizes] /\ a.size \in Int
<1>1. a \in [ip : 0 .. Space - 1, size : Sizes]
  <2>1. CASE a \in known[p]
    BY <2>1, NetworkAssumption DEF Types
  <2>2. ASSUME NEW q \in Proc, a \in addr[q] PROVE a \in [ip : 0 .. Space - 1, size : Sizes]
    BY <2>2, AddrType
  <2>. QED
    BY <2>1, <2>2 DEF Interfaces
<1>2. a.size \in Sizes
  BY <1>1
<1>3. \A n \in Sizes : n \in Int
  BY SpaceType
<1>. QED
  BY <1>1, <1>2, <1>3

LEMMA InUseIsBlocks ==
  ASSUME Types, \A p \in Proc : Stage(p)
  PROVE  InUse \subseteq Block /\ IsFiniteSet(InUse)
<1>1. ASSUME NEW a \in foreign \cup UNION {addr[p] : p \in Proc} PROVE Parsed(a, reading) \in Block
  <2>1. CASE a \in foreign
    BY <2>1, ParsedIsBlock, NetworkAssumption DEF Types
  <2>2. ASSUME NEW p \in Proc, a \in addr[p] PROVE Parsed(a, reading) \in Block
    BY <2>2, AddrType, ParsedIsBlock
  <2>. QED
    BY <2>1, <2>2
<1>2. InUse \subseteq Block
  BY <1>1 DEF InUse
<1>. QED
  BY <1>2, BlocksAreFinite, FS_Subset

---------------------------------------------------------------------------
(* Every step keeps the invariant.                                         *)

\* A process that a step leaves alone.
LEMMA Untouched ==
  ASSUME NEW q \in Proc, Stage(q),
         pc'[q] = pc[q], mode'[q] = mode[q], hv'[q] = hv[q],
         subnet'[q] = subnet[q], neigh'[q] = neigh[q], addr'[q] = addr[q],
         glock' = q <=> glock = q
  PROVE  Stage(q)'
<1>1. Wired(q)' = Wired(q)
  BY DEF Wired
<1>2. VMIP(q)' = VMIP(q) /\ HostIP(q)' = HostIP(q)
  BY DEF VMIP, HostIP, GatewayIP
<1>. QED
  BY <1>1, <1>2 DEF Stage

\* Subnets are only given back.
LEMMA StillDisjoint ==
  ASSUME SubnetsDisjoint, \A p \in Proc : subnet'[p] \subseteq subnet[p],
         \A p \in Proc : known'[p] \subseteq known[p], reading' = reading
  PROVE  SubnetsDisjoint'
<1>1. \A a : Overlooked(a)' = Overlooked(a)
  BY DEF Overlooked
<1>. QED
  BY <1>1 DEF SubnetsDisjoint

LEMMA NoneIsNobody == None \notin Proc
BY NetworkAssumption

LEMMA LockKeeps == ASSUME IInv, NEW p \in Proc, Lock(p) PROVE IInv'
<1>. USE NoneIsNobody
<1>1. /\ pc[p] = "new" /\ pc' = [pc EXCEPT ![p] = "tap"] /\ glock = None /\ glock' = p
      /\ UNCHANGED <<subnet, neigh, addr, hv, foreign, reading, known>>
  BY DEF Lock, Step
<1>2. PICK m \in {"software", "host", "bridged"} : mode' = [mode EXCEPT ![p] = m]
  BY DEF Lock
<1>3. Types'
  BY <1>1, <1>2 DEF IInv, Types, LockLabels
<1>4. ASSUME NEW q \in Proc PROVE Stage(q)'
  <2>1. CASE q # p
    BY <1>1, <1>2, <2>1, Untouched DEF IInv, Types
  <2>2. CASE q = p
    <3>1. pc'[p] = "tap" /\ ~hv[p] /\ subnet[p] = {} /\ addr[p] = {}
      BY <1>1 DEF IInv, Types, Stage, Wired, LockLabels
    <3>2. ~Wired(p)'
      BY <1>1, <3>1 DEF Wired
    <3>. QED
      BY <1>1, <2>2, <3>1, <3>2 DEF Stage, LockLabels
  <2>. QED
    BY <2>1, <2>2
<1>5. SubnetsDisjoint'
  BY <1>1, StillDisjoint DEF IInv
<1>. QED
  BY <1>3, <1>4, <1>5 DEF IInv

LEMMA NewTAPKeeps == ASSUME IInv, NEW p \in Proc, NewTAP(p) PROVE IInv'
<1>1. /\ pc[p] = "tap" /\ pc' = [pc EXCEPT ![p] = "find"] /\ mode[p] # "bridged"
      /\ UNCHANGED <<glock, mode, subnet, neigh, addr, hv, foreign, reading, known>>
  BY DEF NewTAP, Step
<1>2. Types'
  BY <1>1 DEF IInv, Types, LockLabels
<1>3. ASSUME NEW q \in Proc PROVE Stage(q)'
  <2>1. CASE q # p
    BY <1>1, <2>1, Untouched DEF IInv, Types
  <2>2. CASE q = p
    <3>1. pc'[p] = "find" /\ ~hv[p] /\ subnet[p] = {} /\ addr[p] = {} /\ glock = p
      BY <1>1 DEF IInv, Types, Stage, Wired, LockLabels
    <3>2. ~Wired(p)'
      BY <1>1, <3>1 DEF Wired
    <3>. QED
      BY <1>1, <2>2, <3>1, <3>2 DEF Stage, LockLabels
  <2>. QED
    BY <2>1, <2>2
<1>4. SubnetsDisjoint'
  BY <1>1, StillDisjoint DEF IInv
<1>. QED
  BY <1>2, <1>3, <1>4 DEF IInv

LEMMA NewBridgedKeeps == ASSUME IInv, NEW p \in Proc, NewBridged(p) PROVE IInv'
<1>. USE NoneIsNobody
<1>1. /\ pc[p] = "tap" /\ pc' = [pc EXCEPT ![p] = "up"] /\ mode[p] = "bridged" /\ glock' = None
      /\ UNCHANGED <<mode, subnet, neigh, addr, hv, foreign, reading, known>>
  BY DEF NewBridged, Step
<1>2. Types'
  BY <1>1 DEF IInv, Types, LockLabels
<1>3. ~hv[p] /\ subnet[p] = {} /\ addr[p] = {} /\ glock = p
  BY <1>1 DEF IInv, Types, Stage, Wired, LockLabels
<1>4. ASSUME NEW q \in Proc PROVE Stage(q)'
  <2>1. CASE q # p
    BY <1>1, <1>3, <2>1, Untouched DEF IInv, Types
  <2>2. CASE q = p
    <3>1. pc'[p] = "up" /\ ~Wired(p)'
      BY <1>1 DEF IInv, Types, Wired
    <3>. QED
      BY <1>1, <1>3, <2>2, <3>1 DEF Stage, LockLabels
  <2>. QED
    BY <2>1, <2>2
<1>5. SubnetsDisjoint'
  BY <1>1, StillDisjoint DEF IInv
<1>. QED
  BY <1>2, <1>4, <1>5 DEF IInv

\* The subnet that is found overlaps none that another run has: that run's
\* interface has an address in it by then, since it has left New and its lock.
LEMMA FindKeeps == ASSUME IInv, NEW p \in Proc, Find(p) PROVE IInv'
<1>1. /\ pc[p] = "find" /\ pc' = [pc EXCEPT ![p] = "neigh"]
      /\ subnet' = [subnet EXCEPT ![p] = FindAvailableSubnet(InUse)] /\ subnet'[p] # {}
      /\ known' = [known EXCEPT ![p] = foreign]
      /\ UNCHANGED <<glock, mode, neigh, addr, hv, foreign, reading>>
  BY DEF Find, Step
<1>2. InUse \subseteq Block /\ IsFiniteSet(InUse)
  BY InUseIsBlocks DEF IInv
<1>3. subnet'[p] = FirstFree(InUse)
  BY <1>1, <1>2, FindsFirstFree DEF IInv, Types
<1>4. PICK b \in FirstFree(InUse) : subnet'[p] = {b}
  BY <1>1, <1>3, FoundIsUnique
<1>5. b \in Block /\ b.size = Want /\ \A u \in InUse : Disjoint(b, u)
  BY <1>2, <1>4, FoundIsFree
<1>6. Types'
  BY <1>1 DEF IInv, Types, LockLabels
<1>7. glock = p /\ ~hv[p] /\ addr[p] = {} /\ mode[p] # "bridged"
  BY <1>1 DEF IInv, Stage, Wired, LockLabels
<1>8. ASSUME NEW q \in Proc PROVE Stage(q)'
  <2>1. CASE q # p
    BY <1>1, <2>1, Untouched DEF IInv, Types
  <2>2. CASE q = p
    <3>1. pc'[p] = "neigh" /\ ~Wired(p)'
      BY <1>1 DEF IInv, Types, Wired
    <3>. QED
      BY <1>1, <1>4, <1>5, <1>7, <2>2, <3>1 DEF Stage, LockLabels
  <2>. QED
    BY <2>1, <2>2
<1>9. ASSUME NEW a \in foreign
      PROVE  a.ip \notin Addresses(b) /\ (Disjoint(b, NetworkOf(a)) \/ Overlooked(a))
  <2>1. Disjoint(b, Parsed(a, reading))
    BY <1>5 DEF InUse
  <2>2. a \in [ip : 0 .. Space - 1, size : Sizes]
    BY NetworkAssumption DEF IInv, Types
  <2>. QED
    BY <1>5, <2>1, <2>2, ParsedSpares DEF IInv, Types
<1>10. ASSUME NEW q \in Proc \ {p}, NEW c \in subnet[q] PROVE Disjoint(b, c) /\ Disjoint(c, b)
  <2>1. Stage(q) /\ pc[q] \notin {"neigh", "addr"}
    BY <1>7 DEF IInv, Stage, LockLabels
  <2>2. Wired(q)
    BY <2>1 DEF Stage
  <2>3. PICK d \in Block, i \in 0 .. Space - 1 :
          /\ subnet[q] = {d} /\ d.size = Want /\ i \in Addresses(d)
          /\ addr[q] = {[ip |-> i, size |-> Want]}
    BY <2>1, <2>2, HostAddress
  <2>4. c = d
    BY <2>3
  <2>. DEFINE a == [ip |-> i, size |-> Want]
  <2>5. a \in addr[q] /\ a \in [ip : 0 .. Space - 1, size : Sizes] /\ a.ip = i
    BY <2>3, SpaceType
  <2>. HIDE DEF a
  <2>6. Parsed(a, reading) \in InUse
    BY <2>5 DEF InUse
  <2>7. Parsed(a, reading) \in Block /\ i \in Addresses(Parsed(a, reading))
    BY <2>5, ParsedIsBlock
  <2>8. i \notin Addresses(b)
    BY <1>5, <2>6, <2>7, Separate
  <2>9. ~Within(c, b) /\ ~Within(b, c)
    <3>1. c \in Block /\ c.size = b.size
      BY <1>5, <2>3, <2>4
    <3>2. Within(b, c) => Within(c, b)
      BY <1>5, <3>1, BlockType DEF Within
    <3>. QED
      BY <1>5, <2>3, <2>4, <2>8, <3>1, <3>2, Inside
  <2>10. Disjoint(b, c)
    BY <1>5, <2>3, <2>4, <2>9, Trichotomy
  <2>. QED
    BY <2>10 DEF Disjoint
<1>11. SubnetsDisjoint'
  <2>1. ASSUME NEW q \in Proc, q # p PROVE subnet'[q] = subnet[q]
    BY <1>1, <2>1 DEF IInv, Types
  <2>2. ASSUME NEW r \in Proc, NEW q \in Proc \ {r}, NEW x \in subnet'[r], NEW y \in subnet'[q]
        PROVE  Disjoint(x, y)
    <3>1. CASE r = p
      BY <1>4, <1>10, <2>1, <3>1
    <3>2. CASE q = p
      BY <1>4, <1>10, <2>1, <3>2
    <3>3. CASE r # p /\ q # p
      BY <2>1, <3>3 DEF IInv, SubnetsDisjoint
    <3>. QED
      BY <3>1, <3>2, <3>3
  <2>3. \A a : Overlooked(a)' = Overlooked(a)
    BY <1>1 DEF Overlooked
  <2>4. ASSUME NEW r \in Proc, NEW x \in subnet'[r], NEW a \in known'[r]
        PROVE  a.ip \notin Addresses(x) /\ (Disjoint(x, NetworkOf(a)) \/ Overlooked(a)')
    <3>1. CASE r = p
      <4>1. known'[p] = foreign
        BY <1>1 DEF IInv, Types
      <4>. QED
        BY <1>4, <1>9, <2>3, <3>1, <4>1
    <3>2. CASE r # p
      <4>1. known'[r] = known[r]
        BY <1>1, <3>2 DEF IInv, Types
      <4>. QED
        BY <2>1, <2>3, <3>2, <4>1 DEF IInv, SubnetsDisjoint
    <3>. QED
      BY <3>1, <3>2
  <2>. QED
    BY <2>2, <2>4 DEF SubnetsDisjoint
<1>. QED
  BY <1>6, <1>8, <1>11 DEF IInv

LEMMA NeighKeeps == ASSUME IInv, NEW p \in Proc, Neigh(p) PROVE IInv'
<1>1. /\ pc[p] = "neigh" /\ pc' = [pc EXCEPT ![p] = "addr"] /\ neigh' = [neigh EXCEPT ![p] = VMIP(p)]
      /\ UNCHANGED <<glock, mode, subnet, addr, hv, foreign, reading, known>>
  BY DEF Neigh, Step
<1>2. Types'
  BY <1>1 DEF IInv, Types, LockLabels
<1>3. ASSUME NEW q \in Proc PROVE Stage(q)'
  <2>1. CASE q # p
    BY <1>1, <2>1, Untouched DEF IInv, Types
  <2>2. CASE q = p
    <3>1. pc'[p] = "addr" /\ neigh'[p] = VMIP(p) /\ ~Wired(p) /\ ~Wired(p)'
      BY <1>1 DEF IInv, Types, Wired
    <3>2. VMIP(p)' = VMIP(p)
      BY <1>1 DEF VMIP
    <3>. QED
      BY <1>1, <2>2, <3>1, <3>2 DEF IInv, Stage, LockLabels
  <2>. QED
    BY <2>1, <2>2
<1>4. SubnetsDisjoint'
  BY <1>1, StillDisjoint DEF IInv
<1>. QED
  BY <1>2, <1>3, <1>4 DEF IInv

LEMMA AddrKeeps == ASSUME IInv, NEW p \in Proc, Addr(p) PROVE IInv'
<1>1. /\ pc[p] = "addr" /\ pc' = [pc EXCEPT ![p] = "services"]
      /\ addr' = [addr EXCEPT ![p] = {[ip |-> i, size |-> Want] : i \in HostIP(p)}]
      /\ UNCHANGED <<glock, mode, subnet, neigh, hv, foreign, reading, known>>
  BY DEF Addr, Step
<1>2. Types'
  BY <1>1 DEF IInv, Types, LockLabels
<1>3. ASSUME NEW q \in Proc PROVE Stage(q)'
  <2>1. CASE q # p
    BY <1>1, <2>1, Untouched DEF IInv, Types
  <2>2. CASE q = p
    <3>1. /\ pc'[p] = "services" /\ mode[p] # "bridged" /\ Wired(p)'
          /\ addr'[p] = {[ip |-> i, size |-> Want] : i \in HostIP(p)}
      BY <1>1 DEF IInv, Types, Stage, Wired
    <3>2. VMIP(p)' = VMIP(p) /\ HostIP(p)' = HostIP(p)
      BY <1>1 DEF VMIP, HostIP, GatewayIP
    <3>. QED
      BY <1>1, <2>2, <3>1, <3>2 DEF IInv, Stage, LockLabels
  <2>. QED
    BY <2>1, <2>2
<1>4. SubnetsDisjoint'
  BY <1>1, StillDisjoint DEF IInv
<1>. QED
  BY <1>2, <1>3, <1>4 DEF IInv

LEMMA ServicesKeeps == ASSUME IInv, NEW p \in Proc, Services(p) PROVE IInv'
<1>. USE NoneIsNobody
<1>1. /\ pc[p] = "services" /\ pc' = [pc EXCEPT ![p] = "up"] /\ glock' = None
      /\ UNCHANGED <<mode, subnet, neigh, addr, hv, foreign, reading, known>>
  BY DEF Services, Step
<1>2. Types'
  BY <1>1 DEF IInv, Types, LockLabels
<1>3. glock = p
  BY <1>1 DEF IInv, Stage, LockLabels
<1>4. ASSUME NEW q \in Proc PROVE Stage(q)'
  <2>1. CASE q # p
    BY <1>1, <1>3, <2>1, Untouched DEF IInv, Types
  <2>2. CASE q = p
    <3>1. pc'[p] = "up" /\ Wired(p)' = Wired(p)
      BY <1>1 DEF IInv, Types, Wired
    <3>2. VMIP(p)' = VMIP(p) /\ HostIP(p)' = HostIP(p)
      BY <1>1 DEF VMIP, HostIP, GatewayIP
    <3>. QED
      BY <1>1, <2>2, <3>1, <3>2 DEF IInv, Stage, LockLabels
  <2>. QED
    BY <2>1, <2>2
<1>5. SubnetsDisjoint'
  BY <1>1, StillDisjoint DEF IInv
<1>. QED
  BY <1>2, <1>4, <1>5 DEF IInv

LEMMA StartHvKeeps == ASSUME IInv, NEW p \in Proc, StartHv(p) PROVE IInv'
<1>1. /\ pc[p] = "up" /\ pc' = [pc EXCEPT ![p] = "running"] /\ hv' = [hv EXCEPT ![p] = TRUE]
      /\ UNCHANGED <<glock, mode, subnet, neigh, addr, foreign, reading, known>>
  BY DEF StartHv, Step
<1>2. Types'
  BY <1>1 DEF IInv, Types, LockLabels
<1>3. ASSUME NEW q \in Proc PROVE Stage(q)'
  <2>1. CASE q # p
    BY <1>1, <2>1, Untouched DEF IInv, Types
  <2>2. CASE q = p
    <3>1. pc'[p] = "running" /\ Wired(p)' = Wired(p)
      BY <1>1 DEF IInv, Types, Wired
    <3>2. VMIP(p)' = VMIP(p) /\ HostIP(p)' = HostIP(p)
      BY <1>1 DEF VMIP, HostIP, GatewayIP
    <3>. QED
      BY <1>1, <2>2, <3>1, <3>2 DEF IInv, Stage, LockLabels
  <2>. QED
    BY <2>1, <2>2
<1>4. SubnetsDisjoint'
  BY <1>1, StillDisjoint DEF IInv
<1>. QED
  BY <1>2, <1>3, <1>4 DEF IInv

\* A process ends, and the kernel removes its interface unless the hypervisor has
\* it open.
LEMMA ExitKeeps ==
  ASSUME IInv, NEW p \in Proc, Exit(p), hv[p] => pc[p] = "running",
         UNCHANGED <<mode, hv, foreign, reading>>
  PROVE  IInv'
<1>. USE NoneIsNobody
<1>1. pc' = [pc EXCEPT ![p] = "exited"] /\ glock' = IF glock = p THEN None ELSE glock
  BY DEF Exit
<1>2. IF hv[p] THEN UNCHANGED <<subnet, neigh, addr, known>>
      ELSE /\ subnet' = [subnet EXCEPT ![p] = {}] /\ neigh' = [neigh EXCEPT ![p] = {}]
           /\ addr' = [addr EXCEPT ![p] = {}] /\ known' = [known EXCEPT ![p] = {}]
  BY DEF Exit, RemoveTAP
<1>3. Types'
  BY <1>1, <1>2 DEF IInv, Types, LockLabels
<1>4. ASSUME NEW q \in Proc PROVE Stage(q)'
  <2>1. CASE q # p
    <3>1. /\ pc'[q] = pc[q] /\ subnet'[q] = subnet[q] /\ neigh'[q] = neigh[q] /\ addr'[q] = addr[q]
          /\ (glock' = q <=> glock = q)
      BY <1>1, <1>2, <2>1 DEF IInv, Types
    <3>. QED
      BY <3>1, Untouched DEF IInv
  <2>2. CASE q = p
    <3>1. pc'[p] = "exited" /\ glock' # p
      BY <1>1 DEF IInv, Types
    <3>2. CASE hv[p]
      <4>1. Wired(p)' = Wired(p)
        BY <3>1, <3>2 DEF Wired
      <4>2. VMIP(p)' = VMIP(p) /\ HostIP(p)' = HostIP(p)
        BY <1>2, <3>2 DEF VMIP, HostIP, GatewayIP
      <4>. QED
        BY <1>2, <2>2, <3>1, <3>2, <4>1, <4>2 DEF IInv, Stage, LockLabels
    <3>3. CASE ~hv[p]
      <4>1. ~Wired(p)' /\ subnet'[p] = {} /\ addr'[p] = {}
        BY <1>2, <3>1, <3>3 DEF Wired, IInv, Types
      <4>. QED
        BY <2>2, <3>1, <3>3, <4>1 DEF Stage, LockLabels
    <3>. QED
      BY <3>2, <3>3
  <2>. QED
    BY <2>1, <2>2
<1>5. \A q \in Proc : subnet'[q] \subseteq subnet[q] /\ known'[q] \subseteq known[q]
  BY <1>2 DEF IInv, Types
<1>6. SubnetsDisjoint'
  BY <1>5, StillDisjoint DEF IInv
<1>. QED
  BY <1>3, <1>4, <1>6 DEF IInv

LEMMA HvEndsKeeps == ASSUME IInv, NEW p \in Proc, HvEnds(p) PROVE IInv'
<1>1. /\ hv[p] /\ hv' = [hv EXCEPT ![p] = FALSE]
      /\ UNCHANGED <<glock, mode, pc, foreign, reading>>
  BY DEF HvEnds
<1>2. IF pc[p] = "exited"
      THEN /\ subnet' = [subnet EXCEPT ![p] = {}] /\ neigh' = [neigh EXCEPT ![p] = {}]
           /\ addr' = [addr EXCEPT ![p] = {}] /\ known' = [known EXCEPT ![p] = {}]
      ELSE UNCHANGED <<subnet, neigh, addr, known>>
  BY DEF HvEnds, RemoveTAP
<1>3. Types'
  BY <1>1, <1>2 DEF IInv, Types, LockLabels
<1>4. ASSUME NEW q \in Proc PROVE Stage(q)'
  <2>1. CASE q # p
    <3>1. subnet'[q] = subnet[q] /\ neigh'[q] = neigh[q] /\ addr'[q] = addr[q] /\ hv'[q] = hv[q]
      BY <1>1, <1>2, <2>1 DEF IInv, Types
    <3>. QED
      BY <1>1, <3>1, Untouched DEF IInv
  <2>2. CASE q = p
    <3>1. ~hv'[p]
      BY <1>1 DEF IInv, Types
    <3>2. CASE pc[p] = "exited"
      <4>1. ~Wired(p)' /\ subnet'[p] = {} /\ addr'[p] = {}
        BY <1>1, <1>2, <3>1, <3>2 DEF Wired, IInv, Types
      <4>. QED
        BY <1>1, <2>2, <3>1, <3>2, <4>1 DEF IInv, Stage, LockLabels
    <3>3. CASE pc[p] # "exited"
      <4>1. Wired(p)' = Wired(p)
        BY <1>1, <3>3 DEF Wired
      <4>2. VMIP(p)' = VMIP(p) /\ HostIP(p)' = HostIP(p)
        BY <1>1, <1>2, <3>3 DEF VMIP, HostIP, GatewayIP
      <4>. QED
        BY <1>1, <1>2, <2>2, <3>1, <3>3, <4>1, <4>2 DEF IInv, Stage
    <3>. QED
      BY <3>2, <3>3
  <2>. QED
    BY <2>1, <2>2
<1>5. \A q \in Proc : subnet'[q] \subseteq subnet[q] /\ known'[q] \subseteq known[q]
  BY <1>2 DEF IInv, Types
<1>6. SubnetsDisjoint'
  BY <1>1, <1>5, StillDisjoint DEF IInv
<1>. QED
  BY <1>3, <1>4, <1>6 DEF IInv

LEMMA ForeignAddKeeps == ASSUME IInv, NEW a \in Foreign, ForeignAdd(a) PROVE IInv'
<1>1. /\ foreign' = foreign \cup {a}
      /\ UNCHANGED <<glock, mode, pc, subnet, neigh, addr, hv, reading, known>>
  BY DEF ForeignAdd
<1>2. Types'
  BY <1>1 DEF IInv, Types
<1>3. ASSUME NEW q \in Proc PROVE Stage(q)'
  BY <1>1, Untouched DEF IInv
<1>4. SubnetsDisjoint'
  BY <1>1, StillDisjoint DEF IInv
<1>. QED
  BY <1>2, <1>3, <1>4 DEF IInv

---------------------------------------------------------------------------
(* The theorems.                                                           *)

\* What each run has locked, found and configured at each moment of its life, and
\* that subnets are disjoint, is an invariant.
THEOREM Invariance == Spec => []IInv
<1>1. Init => IInv
  <2>. SUFFICES ASSUME Init PROVE IInv
    OBVIOUS
  <2>1. Types
    BY DEF Init, Types
  <2>2. ASSUME NEW p \in Proc PROVE Stage(p)
    BY NoneIsNobody DEF Init, Stage, Wired, LockLabels
  <2>3. SubnetsDisjoint
    BY DEF Init, SubnetsDisjoint
  <2>. QED
    BY <2>1, <2>2, <2>3 DEF IInv
<1>2. IInv /\ [Next]_vars => IInv'
  <2>. SUFFICES ASSUME IInv, [Next]_vars PROVE IInv'
    OBVIOUS
  <2>1. ASSUME NEW p \in Proc, NewStep(p) PROVE IInv'
    BY <2>1, LockKeeps, NewTAPKeeps, NewBridgedKeeps, FindKeeps, NeighKeeps, AddrKeeps,
       ServicesKeeps, StartHvKeeps DEF NewStep
  <2>2. ASSUME NEW p \in Proc, Fail(p) \/ Close(p) \/ Kill(p) PROVE IInv'
    <3>1. Exit(p) /\ UNCHANGED <<mode, hv, foreign, reading>> /\ pc[p] # "exited"
      BY <2>2 DEF Fail, Close, Kill
    <3>2. hv[p] => pc[p] = "running"
      BY <3>1 DEF IInv, Stage
    <3>. QED
      BY <3>1, <3>2, ExitKeeps
  <2>3. ASSUME NEW p \in Proc, HvEnds(p) PROVE IInv'
    BY <2>3, HvEndsKeeps
  <2>4. ASSUME NEW a \in Foreign, ForeignAdd(a) PROVE IInv'
    BY <2>4, ForeignAddKeeps
  <2>5. CASE UNCHANGED vars
    <3>1. UNCHANGED <<glock, mode, pc, subnet, neigh, addr, hv, foreign, reading, known>>
      BY <2>5 DEF vars
    <3>2. Types'
      BY <3>1 DEF IInv, Types
    <3>3. ASSUME NEW q \in Proc PROVE Stage(q)'
      BY <3>1, Untouched DEF IInv
    <3>4. SubnetsDisjoint'
      BY <3>1, StillDisjoint DEF IInv
    <3>. QED
      BY <3>2, <3>3, <3>4 DEF IInv
  <2>. QED
    BY <2>1, <2>2, <2>3, <2>4, <2>5 DEF Next, Ended
<1>. QED
  BY <1>1, <1>2, PTL DEF Spec

\* Whatever the interfaces use, FindAvailableSubnet returns the lowest private
\* subnet that is free, and none only if there is none.
THEOREM FinderIsRightAlways == Spec => []FinderIsRight
<1>1. IInv => FinderIsRight
  BY InUseIsBlocks, FindsFirstFree DEF IInv, FinderIsRight
<1>. QED
  BY <1>1, Invariance, PTL

\* Two VMs never share a subnet, nor has one an address that the host had on an
\* interface when FindAvailableSubnet looked, or any of its network, unless ipaddr
\* takes an address in a network larger than the subnet for that address alone.
THEOREM SubnetsDisjointAlways == Spec => []SubnetsDisjoint
<1>1. IInv => SubnetsDisjoint
  BY DEF IInv
<1>. QED
  BY <1>1, Invariance, PTL

\* The interfaces that p knows of, other than its own, have no address in its
\* subnet, and a network with an address of its subnet only if it is larger.
LEMMA OthersAreElsewhere ==
  ASSUME IInv, NEW p \in Proc, NEW b \in Block, b.size = Want, subnet[p] = {b},
         NEW a \in Interfaces(p) \ addr[p], NEW ip \in Addresses(b)
  PROVE  a.ip \notin Addresses(b) /\ (ip \in Addresses(NetworkOf(a)) => ~(a.size <= Want))
<1>1. Want \in Sizes /\ Want \in Nat
  BY SpaceType
<1>2. CASE a \in known[p]
  <2>1. a \in [ip : 0 .. Space - 1, size : Sizes]
    BY <1>2, NetworkAssumption DEF IInv, Types
  <2>2. a.ip \notin Addresses(b) /\ (Disjoint(b, NetworkOf(a)) \/ Overlooked(a))
    BY <1>2 DEF IInv, SubnetsDisjoint
  <2>3. NetworkOf(a) \in Block
    BY <2>1, BlockOfIsBlock DEF NetworkOf
  <2>4. ASSUME ip \in Addresses(NetworkOf(a)) PROVE ~(a.size <= Want)
    <3>1. ~Disjoint(b, NetworkOf(a))
      BY <2>3, <2>4, Separate
    <3>2. a.size > Want /\ a.size \in Nat
      BY <2>1, <2>2, <3>1, SpaceType DEF Overlooked
    <3>. QED
      BY <1>1, <3>2
  <2>. QED
    BY <2>2, <2>4
<1>3. ASSUME NEW q \in Proc, a \in addr[q] PROVE a.ip \notin Addresses(b) /\ ip \notin Addresses(NetworkOf(a))
  <2>1. q # p /\ Stage(q) /\ Wired(q)
    BY <1>3 DEF IInv, Stage
  <2>2. PICK c \in Block, i \in 0 .. Space - 1 :
          /\ subnet[q] = {c} /\ c.size = Want /\ i \in Addresses(c)
          /\ i = IF mode[q] = "host" THEN c.base + 1 ELSE c.base + 3
          /\ addr[q] = {[ip |-> i, size |-> Want]}
    BY <2>1, HostAddress
  <2>3. Disjoint(c, b) /\ a.ip = i /\ a.size = Want
    BY <1>3, <2>1, <2>2 DEF IInv, SubnetsDisjoint
  <2>4. NetworkOf(a) = c
    BY <2>2, <2>3, SubnetOf DEF NetworkOf
  <2>. QED
    BY <2>2, <2>3, <2>4, Separate
<1>. QED
  BY <1>2, <1>3 DEF Interfaces

\* "vetu ip" prints the address that the VM has leased; of all interfaces that the
\* host had when the subnet was found, or has for VMs, none has that address and
\* only the VM's own is the route to it; and the VM's router is who it should be.
THEOREM IpReachesVMAlways == Spec => []IpReachesVM
<1>1. IInv => IpReachesVM
  <2>. SUFFICES ASSUME IInv, NEW p \in Proc, hv[p], mode[p] # "bridged"
                PROVE  /\ ArpTableLookup(p) # {} /\ ArpTableLookup(p) = Lease(p).ip
                       /\ HostAnswers(p, ArpTableLookup(p)) = {}
                       /\ \A ip \in ArpTableLookup(p) : RoutesOf(p, ip) = addr[p]
                       /\ HostAnswers(p, Lease(p).router) = IF mode[p] = "host" THEN addr[p] ELSE {}
    BY DEF IpReachesVM
  <2>1. Stage(p) /\ Wired(p)
    BY DEF IInv, Stage, Wired
  <2>2. PICK b \in Block, h \in 0 .. Space - 1 :
          /\ subnet[p] = {b} /\ b.size = Want /\ h \in Addresses(b)
          /\ h = IF mode[p] = "host" THEN b.base + 1 ELSE b.base + 3
          /\ addr[p] = {[ip |-> h, size |-> Want]}
    BY <2>1, HostAddress
  <2>3. /\ GatewayIP(p) = {b.base + 1} /\ VMIP(p) = {b.base + 2} /\ b.base \in Nat
        /\ \A i \in {b.base + 1, b.base + 2, b.base + 3} : i \in Addresses(b) /\ BlockOf(i, Want) = b
    BY <2>2, SubnetOf, BlockType
  <2>4. ArpTableLookup(p) = {b.base + 2} /\ Lease(p).ip = {b.base + 2} /\ Lease(p).router = {b.base + 1}
    BY <2>1, <2>3 DEF Stage, ArpTableLookup, Lease
  <2>5. ASSUME NEW a \in Interfaces(p) \ addr[p]
        PROVE  /\ a.ip \notin Addresses(b)
               /\ b.base + 2 \in Addresses(NetworkOf(a)) => ~(a.size <= Want)
    BY <2>2, <2>3, OthersAreElsewhere
  <2>6. \A a \in addr[p] : a.ip = h /\ a.size = Want
    BY <2>2
  <2>7. HostAnswers(p, {b.base + 2}) = {}
    <3>1. h # b.base + 2
      BY <2>2, <2>3
    <3>. QED
      BY <2>3, <2>5, <2>6, <3>1 DEF HostAnswers
  <2>8. HostAnswers(p, {b.base + 1}) = IF mode[p] = "host" THEN addr[p] ELSE {}
    <3>1. h = b.base + 1 <=> mode[p] = "host"
      BY <2>2, <2>3
    <3>2. addr[p] \subseteq Interfaces(p)
      BY DEF Interfaces
    <3>. QED
      BY <2>3, <2>5, <2>6, <3>1, <3>2 DEF HostAnswers
  <2>9. RoutesOf(p, b.base + 2) = addr[p]
    <3>1. addr[p] \subseteq Interfaces(p)
      BY DEF Interfaces
    <3>2. ASSUME NEW a \in addr[p] PROVE b.base + 2 \in Addresses(NetworkOf(a)) /\ a.size = Want
      <4>1. NetworkOf(a) = b
        BY <2>2, <2>3, <2>6 DEF NetworkOf
      <4>. QED
        BY <2>3, <2>6, <4>1
    <3>3. Want <= Want
      BY SpaceType
    <3>4. ASSUME NEW c \in Interfaces(p), b.base + 2 \in Addresses(NetworkOf(c)) PROVE Want <= c.size
      <4>1. CASE c \in addr[p]
        BY <3>2, <3>3, <4>1
      <4>2. CASE c \notin addr[p]
        <5>1. ~(c.size <= Want)
          BY <2>5, <3>4, <4>2
        <5>2. c.size \in Int /\ Want \in Int
          <6>1. c.size \in Int
            BY <3>4, InterfaceType DEF IInv
          <6>. QED
            BY <6>1, SpaceType
        <5>. QED
          BY <5>1, <5>2
      <4>. QED
        BY <4>1, <4>2
    <3>5. \E a \in addr[p] : TRUE
      BY <2>2
    <3>. QED
      BY <2>5, <3>1, <3>2, <3>4, <3>5 DEF RoutesOf
  <2>. QED
    BY <2>4, <2>7, <2>8, <2>9
<1>. QED
  BY <1>1, Invariance, PTL

---------------------------------------------------------------------------
(* The software network's forwarders, module Forwarder, for any number of  *)
(* requests, flows and packets and any timeout: whose the slots are, and   *)
(* when a flow's connections close.  Forwarder shares no state with the    *)
(* modules above.  The inductive invariant of the forwarders:              *)

\* Every variable of the flows has its type.
FlowTypes ==
  /\ flow \in [Flow -> {"none", "dial", "up", "leaked"}]
  /\ open \in [Flow -> [Conn -> BOOLEAN]]
  /\ left \in [Flow -> [Conn -> 0 .. NoDeadline]]
  /\ at \in [Flow -> [Conn -> {"none", "arm", "read", "write", "done"}]]
  /\ idle \in [Flow -> 0 .. Timeout]
  /\ failed \in [Flow -> BOOLEAN]

\* A request has a slot exactly while it is being set up, so that slots are
\* neither lost nor given back twice.
SlotsAreHeld ==
  /\ tcp \in [Request -> {"new", "create", "dial", "proxied", "reset"}]
  /\ inFlight = {q \in Request : tcp[q] \in {"create", "dial"}}

\* A transfer at work belongs to a flow that is up, and its source is open; so is
\* the guest's endpoint while the remote side is being dialled.
Working(f, c) ==
  /\ at[f][c] # "none" => flow[f] = "up"
  /\ at[f][c] \in {"arm", "read", "write"} => open[f][c]
  /\ flow[f] = "dial" /\ c = "guest" => open[f][c]

\* A read waits at least until the flow has been idle for Timeout, but for the
\* moment between a read of the other transfer and its extension of the deadline.
Waits(f, c) ==
  at[f][c] = "read" => left[f][c] + idle[f] >= Timeout \/ at[f][Peer(c)] = "write"

ForwarderInv == FlowTypes /\ SlotsAreHeld /\ \A f \in Flow, c \in Conn : Working(f, c) /\ Waits(f, c)

---------------------------------------------------------------------------
(* Facts that every step of the forwarders needs.                          *)

LEMMA TimeoutType == Timeout \in Nat /\ Timeout > 0 /\ NoDeadline \in Nat /\ NoDeadline = Timeout + 1
<1>1. Timeout \in Nat \ {0}
  BY ConstantsAssumption
<1>. QED
  BY <1>1 DEF NoDeadline

LEMMA PeerType == \A c \in Conn : Peer(c) \in Conn /\ Peer(c) # c /\ Peer(Peer(c)) = c
<1>1. Peer("guest") = "remote" /\ Peer("remote") = "guest"
  <2>1. \A d \in Conn : d # "guest" <=> d = "remote"
    BY DEF Conn
  <2>2. \A d \in Conn : d # "remote" <=> d = "guest"
    BY DEF Conn
  <2>. QED
    BY <2>1, <2>2 DEF Peer, Conn
<1>. QED
  BY <1>1 DEF Conn

\* What a flow's connection is stays what it was, unless the step is the flow's own.
LEMMA OthersKeep ==
  ASSUME ForwarderInv, FlowTypes', NEW f \in Flow, NEW c \in Conn,
         flow'[f] = flow[f], open'[f] = open[f], left'[f] = left[f], at'[f] = at[f], idle'[f] = idle[f]
  PROVE  Working(f, c)' /\ Waits(f, c)'
BY PeerType DEF ForwarderInv, Working, Waits

\* Steps that leave the flows alone.
LEMMA FlowsKeep ==
  ASSUME ForwarderInv, UNCHANGED <<flow, open, left, at, idle, failed>>, SlotsAreHeld'
  PROVE  ForwarderInv'
<1>1. FlowTypes'
  BY DEF ForwarderInv, FlowTypes
<1>. QED
  BY <1>1, OthersKeep DEF ForwarderInv

---------------------------------------------------------------------------
(* One lemma per step of the forwarders.                                   *)

LEMMA TcpStepKeeps ==
  ASSUME ForwarderInv, NEW q \in Request, TcpStep(q)
  PROVE  ForwarderInv'
<1>1. UNCHANGED <<flow, open, left, at, idle, failed>>
  BY DEF TcpStep, Syn, CreateEndpoint, DialTCP, udpVars
<1>2. SlotsAreHeld'
  <2>. USE DEF ForwarderInv, SlotsAreHeld
  <2>1. CASE Syn(q)
    BY <2>1 DEF Syn
  <2>2. CASE CreateEndpoint(q)
    BY <2>2 DEF CreateEndpoint, Complete
  <2>3. CASE DialTCP(q)
    BY <2>3 DEF DialTCP, Complete
  <2>. QED
    BY <2>1, <2>2, <2>3 DEF TcpStep
<1>. QED
  BY <1>1, <1>2, FlowsKeep

LEMMA SlotsKeep ==
  ASSUME ForwarderInv, UNCHANGED tcpVars
  PROVE  SlotsAreHeld'
BY DEF ForwarderInv, SlotsAreHeld, tcpVars

LEMMA NewFlowKeeps ==
  ASSUME ForwarderInv, NEW f \in Flow, NewFlow(f)
  PROVE  ForwarderInv'
<1>1. SlotsAreHeld'
  BY SlotsKeep DEF NewFlow
<1>2. /\ flow[f] = "none" /\ flow' = [flow EXCEPT ![f] = "dial"]
      /\ open' = [open EXCEPT ![f]["guest"] = TRUE]
      /\ left' = left /\ at' = at /\ idle' = idle /\ failed' = failed
  BY DEF NewFlow
<1>3. FlowTypes'
  BY <1>2 DEF ForwarderInv, FlowTypes, Conn
<1>4. ASSUME NEW c \in Conn PROVE Working(f, c)' /\ Waits(f, c)'
  <2>1. at[f][c] = "none"
    BY <1>2 DEF ForwarderInv, Working
  <2>2. c = "guest" => open'[f][c]
    BY <1>2 DEF ForwarderInv, FlowTypes
  <2>3. flow'[f] = "dial" /\ at'[f][c] = "none"
    BY <1>2, <2>1 DEF ForwarderInv, FlowTypes
  <2>. QED
    BY <2>2, <2>3 DEF Working, Waits
<1>5. ASSUME NEW g \in Flow, g # f, NEW c \in Conn PROVE Working(g, c)' /\ Waits(g, c)'
  BY <1>2, <1>3, <1>5, OthersKeep DEF ForwarderInv, FlowTypes
<1>. QED
  BY <1>1, <1>3, <1>4, <1>5 DEF ForwarderInv

LEMMA DialUDPKeeps ==
  ASSUME ForwarderInv, NEW f \in Flow, DialUDP(f)
  PROVE  ForwarderInv'
<1>1. SlotsAreHeld'
  BY SlotsKeep DEF DialUDP
<1>2. /\ flow[f] = "dial"
      /\ left' = left /\ idle' = idle /\ failed' = failed
  BY DEF DialUDP
<1>3. CASE /\ flow' = [flow EXCEPT ![f] = "up"]
           /\ open' = [open EXCEPT ![f]["remote"] = TRUE]
           /\ at' = [at EXCEPT ![f] = [c \in Conn |-> "arm"]]
  <2>1. FlowTypes'
    BY <1>2, <1>3 DEF ForwarderInv, FlowTypes, Conn
  <2>2. ASSUME NEW c \in Conn PROVE Working(f, c)' /\ Waits(f, c)'
    <3>1. at'[f][c] = "arm" /\ flow'[f] = "up"
      BY <1>3 DEF ForwarderInv, FlowTypes
    <3>2. open'[f][c]
      <4>1. open[f]["guest"]
        BY <1>2 DEF ForwarderInv, Working, Conn
      <4>2. open' \in [Flow -> [Conn -> BOOLEAN]] /\ open'[f]["remote"] /\ open'[f]["guest"]
        BY <1>3, <4>1 DEF ForwarderInv, FlowTypes, Conn
      <4>. QED
        BY <4>2 DEF Conn
    <3>. QED
      BY <3>1, <3>2 DEF Working, Waits
  <2>3. ASSUME NEW g \in Flow, g # f, NEW c \in Conn PROVE Working(g, c)' /\ Waits(g, c)'
    BY <1>2, <1>3, <2>1, <2>3, OthersKeep DEF ForwarderInv, FlowTypes
  <2>. QED
    BY <1>1, <2>1, <2>2, <2>3 DEF ForwarderInv
<1>4. CASE flow' = [flow EXCEPT ![f] = "leaked"] /\ UNCHANGED <<open, at>>
  <2>1. FlowTypes'
    BY <1>2, <1>4 DEF ForwarderInv, FlowTypes
  <2>2. ASSUME NEW c \in Conn PROVE Working(f, c)' /\ Waits(f, c)'
    <3>1. at[f][c] = "none"
      BY <1>2 DEF ForwarderInv, Working
    <3>. QED
      BY <1>4, <3>1 DEF Working, Waits, ForwarderInv, FlowTypes
  <2>3. ASSUME NEW g \in Flow, g # f, NEW c \in Conn PROVE Working(g, c)' /\ Waits(g, c)'
    BY <1>2, <1>4, <2>1, <2>3, OthersKeep DEF ForwarderInv, FlowTypes
  <2>. QED
    BY <1>1, <2>1, <2>2, <2>3 DEF ForwarderInv
<1>. QED
  BY <1>3, <1>4 DEF DialUDP

LEMMA ArriveKeeps ==
  ASSUME ForwarderInv, NEW f \in Flow, NEW c \in Conn, Arrive(f, c)
  PROVE  ForwarderInv'
BY SlotsKeep, FlowsKeep DEF Arrive

LEMMA ArmKeeps ==
  ASSUME ForwarderInv, NEW f \in Flow, NEW c \in Conn, Arm(f, c)
  PROVE  ForwarderInv'
<1>1. SlotsAreHeld'
  BY SlotsKeep DEF Arm
<1>2. /\ at[f][c] = "arm"
      /\ left' = [left EXCEPT ![f][c] = Timeout]
      /\ at' = [at EXCEPT ![f][c] = "read"]
      /\ flow' = flow /\ open' = open /\ idle' = idle /\ failed' = failed
  BY DEF Arm
<1>3. FlowTypes'
  BY <1>2, TimeoutType DEF ForwarderInv, FlowTypes
<1>4. Working(f, c)' /\ Waits(f, c)'
  <2>1. at'[f][c] = "read" /\ left'[f][c] = Timeout /\ idle'[f] \in Nat
    BY <1>2, <1>3 DEF ForwarderInv, FlowTypes
  <2>2. left'[f][c] + idle'[f] >= Timeout
    BY <2>1, TimeoutType
  <2>. QED
    BY <1>2, <2>1, <2>2 DEF ForwarderInv, Working, Waits
<1>5. Working(f, Peer(c))' /\ Waits(f, Peer(c))'
  <2>1. at'[f][Peer(c)] = at[f][Peer(c)] /\ left'[f][Peer(c)] = left[f][Peer(c)]
    BY <1>2, PeerType DEF ForwarderInv, FlowTypes
  <2>2. Working(f, Peer(c)) /\ Waits(f, Peer(c)) /\ at[f][c] # "write" /\ at'[f][c] # "write"
    BY <1>2, PeerType DEF ForwarderInv, FlowTypes
  <2>. QED
    BY <1>2, <2>1, <2>2, PeerType DEF Working, Waits
<1>6. ASSUME NEW g \in Flow, g # f, NEW d \in Conn PROVE Working(g, d)' /\ Waits(g, d)'
  BY <1>2, <1>3, <1>6, OthersKeep DEF ForwarderInv, FlowTypes
<1>7. \A d \in Conn : d = c \/ d = Peer(c)
  BY PeerType DEF Conn
<1>. QED
  BY <1>1, <1>3, <1>4, <1>5, <1>6, <1>7 DEF ForwarderInv

LEMMA ReadKeeps ==
  ASSUME ForwarderInv, NEW f \in Flow, NEW c \in Conn, Read(f, c)
  PROVE  ForwarderInv'
<1>1. SlotsAreHeld'
  BY SlotsKeep DEF Read
<1>2. /\ at[f][c] = "read" /\ open[f][c]
      /\ at' = [at EXCEPT ![f][c] = "write"]
      /\ idle' = [idle EXCEPT ![f] = 0]
      /\ flow' = flow /\ open' = open /\ left' = left /\ failed' = failed
  BY DEF Read
<1>3. FlowTypes'
  BY <1>2, TimeoutType DEF ForwarderInv, FlowTypes
<1>4. at'[f][c] = "write" /\ flow'[f] = "up" /\ open'[f][c]
  BY <1>2 DEF ForwarderInv, FlowTypes, Working
<1>5. Working(f, Peer(c))' /\ Waits(f, Peer(c))'
  <2>1. at'[f][Peer(c)] = at[f][Peer(c)]
    BY <1>2, PeerType DEF ForwarderInv, FlowTypes
  <2>. QED
    BY <1>2, <1>4, <2>1, PeerType DEF ForwarderInv, Working, Waits
<1>6. ASSUME NEW g \in Flow, g # f, NEW d \in Conn PROVE Working(g, d)' /\ Waits(g, d)'
  BY <1>2, <1>3, <1>6, OthersKeep DEF ForwarderInv, FlowTypes
<1>7. \A d \in Conn : d = c \/ d = Peer(c)
  BY PeerType DEF Conn
<1>8. Working(f, c)' /\ Waits(f, c)'
  BY <1>4 DEF Working, Waits
<1>. QED
  BY <1>1, <1>3, <1>5, <1>6, <1>7, <1>8 DEF ForwarderInv

LEMMA WriteKeeps ==
  ASSUME ForwarderInv, NEW f \in Flow, NEW c \in Conn, Write(f, c)
  PROVE  ForwarderInv'
<1>1. SlotsAreHeld'
  BY SlotsKeep DEF Write
<1>2. /\ at[f][c] = "write"
      /\ left' = IF open[f][Peer(c)] THEN [left EXCEPT ![f][Peer(c)] = Timeout] ELSE left
      /\ at' = [at EXCEPT ![f][c] = "arm"]
      /\ flow' = flow /\ open' = open /\ idle' = idle /\ failed' = failed
  BY DEF Write
<1>3. FlowTypes'
  <2>1. left' \in [Flow -> [Conn -> 0 .. NoDeadline]]
    BY <1>2, PeerType, TimeoutType DEF ForwarderInv, FlowTypes
  <2>2. at' \in [Flow -> [Conn -> {"none", "arm", "read", "write", "done"}]]
    BY <1>2 DEF ForwarderInv, FlowTypes
  <2>. QED
    BY <1>2, <2>1, <2>2 DEF ForwarderInv, FlowTypes
<1>4. at'[f][c] = "arm" /\ flow'[f] = "up" /\ open'[f][c]
  BY <1>2 DEF ForwarderInv, FlowTypes, Working
<1>5. Working(f, Peer(c))' /\ Waits(f, Peer(c))'
  <2>1. at'[f][Peer(c)] = at[f][Peer(c)]
    BY <1>2, PeerType DEF ForwarderInv, FlowTypes
  <2>2. Working(f, Peer(c))
    BY PeerType DEF ForwarderInv
  <2>3. CASE at[f][Peer(c)] = "read"
    <3>1. open[f][Peer(c)]
      BY <2>2, <2>3 DEF Working
    <3>2. left'[f][Peer(c)] = Timeout /\ idle'[f] \in Nat
      BY <1>2, <1>3, <3>1, PeerType DEF ForwarderInv, FlowTypes
    <3>3. left'[f][Peer(c)] + idle'[f] >= Timeout
      BY <3>2, TimeoutType
    <3>. QED
      BY <1>2, <2>1, <2>2, <3>3 DEF Working, Waits
  <2>4. CASE at[f][Peer(c)] # "read"
    BY <1>2, <2>1, <2>2, <2>4 DEF Working, Waits
  <2>. QED
    BY <2>3, <2>4
<1>6. ASSUME NEW g \in Flow, g # f, NEW d \in Conn PROVE Working(g, d)' /\ Waits(g, d)'
  BY <1>2, <1>3, <1>6, OthersKeep DEF ForwarderInv, FlowTypes
<1>7. \A d \in Conn : d = c \/ d = Peer(c)
  BY PeerType DEF Conn
<1>8. Working(f, c)' /\ Waits(f, c)'
  BY <1>4 DEF Working, Waits
<1>. QED
  BY <1>1, <1>3, <1>5, <1>6, <1>7, <1>8 DEF ForwarderInv

LEMMA CloseSourceKeeps ==
  ASSUME ForwarderInv, NEW f \in Flow, NEW c \in Conn, at[f][c] = "read", CloseSource(f, c),
         UNCHANGED <<tcpVars, flow, idle>>, failed' \in [Flow -> BOOLEAN]
  PROVE  ForwarderInv'
<1>1. SlotsAreHeld'
  BY SlotsKeep
<1>2. /\ open' = [open EXCEPT ![f][c] = FALSE]
      /\ left' = [left EXCEPT ![f][c] = NoDeadline]
      /\ at' = [at EXCEPT ![f][c] = "done"]
      /\ flow' = flow /\ idle' = idle
  BY DEF CloseSource
<1>3. FlowTypes'
  BY <1>2, TimeoutType DEF ForwarderInv, FlowTypes
<1>4. at'[f][c] = "done" /\ flow'[f] = "up"
  BY <1>2 DEF ForwarderInv, FlowTypes, Working
<1>5. Working(f, Peer(c))' /\ Waits(f, Peer(c))'
  <2>1. /\ at'[f][Peer(c)] = at[f][Peer(c)] /\ left'[f][Peer(c)] = left[f][Peer(c)]
        /\ open'[f][Peer(c)] = open[f][Peer(c)]
    BY <1>2, PeerType DEF ForwarderInv, FlowTypes
  <2>2. Working(f, Peer(c)) /\ Waits(f, Peer(c)) /\ at[f][c] # "write" /\ at'[f][c] # "write"
    BY <1>4, PeerType DEF ForwarderInv, FlowTypes
  <2>. QED
    BY <1>2, <2>1, <2>2, PeerType DEF Working, Waits
<1>6. ASSUME NEW g \in Flow, g # f, NEW d \in Conn PROVE Working(g, d)' /\ Waits(g, d)'
  BY <1>2, <1>3, <1>6, OthersKeep DEF ForwarderInv, FlowTypes
<1>7. \A d \in Conn : d = c \/ d = Peer(c)
  BY PeerType DEF Conn
<1>8. Working(f, c)' /\ Waits(f, c)'
  BY <1>4 DEF Working, Waits
<1>. QED
  BY <1>1, <1>3, <1>5, <1>6, <1>7, <1>8 DEF ForwarderInv

\* Time passes for all flows alike: no read's deadline is over, none is about to be
\* extended, and a deadline comes nearer by no more than the flow has been idle.
LEMMA TickKeeps ==
  ASSUME ForwarderInv, Tick
  PROVE  ForwarderInv'
<1>1. SlotsAreHeld'
  BY SlotsKeep DEF Tick
<1>2. /\ left' = [f \in Flow |-> [c \in Conn |->
                    IF left[f][c] \in 1 .. Timeout THEN left[f][c] - 1 ELSE left[f][c]]]
      /\ idle' = [f \in Flow |->
                    IF flow[f] = "up" /\ idle[f] < Timeout THEN idle[f] + 1 ELSE idle[f]]
      /\ flow' = flow /\ open' = open /\ at' = at /\ failed' = failed
  BY DEF Tick
<1>3. FlowTypes'
  <2>1. ASSUME NEW f \in Flow, NEW c \in Conn PROVE left'[f][c] \in 0 .. NoDeadline
    <3>1. left[f][c] \in 0 .. NoDeadline
      BY DEF ForwarderInv, FlowTypes
    <3>. QED
      BY <1>2, <3>1, TimeoutType
  <2>2. ASSUME NEW f \in Flow PROVE idle'[f] \in 0 .. Timeout
    <3>1. idle[f] \in 0 .. Timeout
      BY DEF ForwarderInv, FlowTypes
    <3>. QED
      BY <1>2, <3>1, TimeoutType
  <2>3. left' \in [Flow -> [Conn -> 0 .. NoDeadline]]
    BY <1>2, <2>1
  <2>4. idle' \in [Flow -> 0 .. Timeout]
    BY <1>2, <2>2
  <2>. QED
    BY <1>2, <2>3, <2>4 DEF ForwarderInv, FlowTypes
<1>4. ASSUME NEW f \in Flow, NEW c \in Conn PROVE Working(f, c)' /\ Waits(f, c)'
  <2>1. Working(f, c)'
    BY <1>2 DEF ForwarderInv, Working
  <2>2. CASE at[f][c] = "read"
    <3>1. flow[f] = "up"
      BY <2>2 DEF ForwarderInv, Working
    <3>2. left[f][c] \in 1 .. NoDeadline /\ idle[f] \in 0 .. Timeout
      <4>1. left[f][c] \in 0 .. NoDeadline /\ idle[f] \in 0 .. Timeout
        BY DEF ForwarderInv, FlowTypes
      <4>2. left[f][c] # 0
        BY <2>2 DEF Tick, Busy
      <4>. QED
        BY <4>1, <4>2, TimeoutType
    <3>3. left[f][c] + idle[f] >= Timeout
      <4>1. at[f][Peer(c)] # "write"
        BY PeerType DEF Tick, Busy
      <4>. QED
        BY <2>2, <4>1 DEF ForwarderInv, Waits
    <3>4. /\ left'[f][c] = IF left[f][c] \in 1 .. Timeout THEN left[f][c] - 1 ELSE left[f][c]
          /\ idle'[f] = IF idle[f] < Timeout THEN idle[f] + 1 ELSE idle[f]
      BY <1>2, <3>1
    <3>5. left'[f][c] + idle'[f] >= Timeout
      BY <3>2, <3>3, <3>4, TimeoutType
    <3>. QED
      BY <2>1, <3>5 DEF Waits
  <2>3. CASE at[f][c] # "read"
    BY <1>2, <2>1, <2>3 DEF Waits
  <2>. QED
    BY <2>2, <2>3
<1>. QED
  BY <1>1, <1>3, <1>4 DEF ForwarderInv

---------------------------------------------------------------------------
(* The theorems about the forwarders.                                      *)

LEMMA InitForwarderInv == ForwardInit => ForwarderInv
<1>. SUFFICES ASSUME ForwardInit PROVE ForwarderInv
  OBVIOUS
<1>1. SlotsAreHeld
  BY DEF ForwardInit, SlotsAreHeld
<1>2. FlowTypes
  BY TimeoutType DEF ForwardInit, FlowTypes, Both
<1>3. \A f \in Flow, c \in Conn : at[f][c] = "none" /\ flow[f] = "none"
  BY DEF ForwardInit, Both
<1>. QED
  BY <1>1, <1>2, <1>3 DEF ForwarderInv, Working, Waits

LEMMA NextForwarderInv == ForwarderInv /\ [ForwardNext]_forwardVars => ForwarderInv'
<1>. SUFFICES ASSUME ForwarderInv, [ForwardNext]_forwardVars PROVE ForwarderInv'
  OBVIOUS
<1>1. CASE UNCHANGED forwardVars
  BY <1>1, SlotsKeep, FlowsKeep DEF forwardVars, tcpVars, udpVars
<1>2. ASSUME NEW f \in Flow, NEW c \in Conn, TimeOut(f, c) PROVE ForwarderInv'
  BY <1>2, CloseSourceKeeps DEF TimeOut, ForwarderInv, FlowTypes
<1>3. ASSUME NEW f \in Flow, NEW c \in Conn, ReadFail(f, c) PROVE ForwarderInv'
  <2>1. failed' \in [Flow -> BOOLEAN]
    BY <1>3 DEF ReadFail, ForwarderInv, FlowTypes
  <2>. QED
    BY <1>3, <2>1, CloseSourceKeeps DEF ReadFail
<1>4. CASE CloseStack
  BY <1>4, SlotsKeep, FlowsKeep DEF CloseStack, tcpVars, udpVars
<1>. QED
  BY <1>1, <1>2, <1>3, <1>4, TcpStepKeeps, NewFlowKeeps, DialUDPKeeps, ArriveKeeps, ArmKeeps,
     ReadKeeps, WriteKeeps, TickKeeps DEF ForwardNext, Transfer, Quiet

\* Requests and slots belong together, and a read's deadline is never nearer than
\* the end of the flow's idle time: this is an invariant.
THEOREM ForwarderInvariance == ForwardSpec => []ForwarderInv
BY InitForwarderInv, NextForwarderInv, PTL DEF ForwardSpec

\* forwardTCP completes each request that CreateEndpoint or net.Dial has decided:
\* the slots in use are just those of the requests that are being set up.
THEOREM SlotsAreHeldAlways == ForwardSpec => []SlotsAreHeld
<1>1. ForwarderInv => SlotsAreHeld
  BY DEF ForwarderInv
<1>. QED
  BY <1>1, ForwarderInvariance, PTL

\* Only a step of the connection's own transfer closes it.
LEMMA ClosingStep ==
  ASSUME ForwarderInv, [ForwardNext]_forwardVars, NEW f \in Flow, NEW c \in Conn, open[f][c], ~open'[f][c]
  PROVE  TimeOut(f, c) \/ ReadFail(f, c)
<1>1. open' # open
  OBVIOUS
<1>2. open \in [Flow -> [Conn -> BOOLEAN]]
  BY DEF ForwarderInv, FlowTypes
<1>3. ASSUME NEW g \in Flow, NewFlow(g) PROVE FALSE
  <2>1. open' = [open EXCEPT ![g]["guest"] = TRUE]
    BY <1>3 DEF NewFlow
  <2>. QED
    BY <1>2, <2>1 DEF Conn
<1>4. ASSUME NEW g \in Flow, DialUDP(g) PROVE FALSE
  <2>1. open' = [open EXCEPT ![g]["remote"] = TRUE]
    BY <1>1, <1>4 DEF DialUDP
  <2>. QED
    BY <1>2, <2>1 DEF Conn
<1>5. ASSUME NEW g \in Flow, NEW d \in Conn, CloseSource(g, d) PROVE g = f /\ d = c
  <2>1. open' = [open EXCEPT ![g][d] = FALSE]
    BY <1>5 DEF CloseSource
  <2>. QED
    BY <1>2, <2>1
<1>6. PICK g \in Flow, d \in Conn : TimeOut(g, d) \/ ReadFail(g, d)
  BY <1>1, <1>3, <1>4 DEF ForwardNext, TcpStep, Syn, CreateEndpoint, DialTCP, Transfer,
     Arrive, Arm, Read, Write, CloseStack, Tick, Quiet, forwardVars, udpVars
<1>7. g = f /\ d = c
  BY <1>5, <1>6 DEF TimeOut, ReadFail
<1>. QED
  BY <1>6, <1>7

\* transferWithTimeout closes a connection only after Timeout without a packet in
\* either direction or a failed read, for any number of flows and packets and any
\* timeout, but for the packet that the other transfer is about to write.
THEOREM ClosedWhenIdleAlways == ForwardSpec => ClosedWhenIdle
<1>1. ASSUME ForwarderInv, [ForwardNext]_forwardVars
      PROVE  [\A f \in Flow, c \in Conn : open[f][c] /\ ~open'[f][c] =>
                idle[f] = Timeout \/ failed'[f] \/ at[f][Peer(c)] = "write"]_forwardVars
  <2>. SUFFICES ASSUME NEW f \in Flow, NEW c \in Conn, open[f][c], ~open'[f][c]
                PROVE  idle[f] = Timeout \/ failed'[f] \/ at[f][Peer(c)] = "write"
    OBVIOUS
  <2>1. CASE TimeOut(f, c)
    <3>1. at[f][c] = "read" /\ left[f][c] = 0
      BY <2>1 DEF TimeOut
    <3>2. idle[f] \in 0 .. Timeout
      BY <1>1 DEF ForwarderInv, FlowTypes
    <3>3. 0 + idle[f] >= Timeout \/ at[f][Peer(c)] = "write"
      BY <1>1, <3>1 DEF ForwarderInv, Waits
    <3>. QED
      BY <3>2, <3>3, TimeoutType
  <2>2. CASE ReadFail(f, c)
    BY <1>1, <2>2 DEF ReadFail, ForwarderInv, FlowTypes
  <2>. QED
    BY <1>1, <2>1, <2>2, ClosingStep
<1>. QED
  BY <1>1, ForwarderInvariance, PTL DEF ForwardSpec, ClosedWhenIdle
============================================================================
