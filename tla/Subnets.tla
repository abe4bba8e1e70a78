------------------------------ MODULE Subnets ------------------------------
(* subnetfinder.FindAvailableSubnet: the private address space, less what    *)
(* the interfaces of the host use, as a set of prefix blocks from which the  *)
(* first subnet of the wanted size is cut.  Addresses are small numbers.     *)
EXTENDS Integers, FiniteSetsExt

CONSTANTS
  Sizes,    \* the sizes that prefix blocks have: powers of two
  Space,    \* the number of addresses there are
  Private,  \* the private address space, a set of blocks
  Want      \* the size of the subnets that vetu uses, that of a /29

\* A prefix block: size addresses from base, which is a multiple of size.
Block == {b \in [base : 0 .. Space - 1, size : Sizes] :
            b.base % b.size = 0 /\ b.base + b.size <= Space}

Addresses(b) == b.base .. b.base + b.size - 1
Within(a, b) == b.base <= a.base /\ a.base + a.size <= b.base + b.size
Disjoint(a, b) == a.base + a.size <= b.base \/ b.base + b.size <= a.base

\* A block is as long as one of /32 to /0, so that a shorter one fits in a longer
\* one a whole number of times, and no private blocks together make up another one
\* (10/8, 172.16/12 and 192.168/16 are far apart).
ASSUME SubnetsAssumption ==
  /\ Space \in Nat /\ Sizes \subseteq 1 .. Space /\ {1, Want, Space} \subseteq Sizes
  /\ \A m, n \in Sizes : m < n => n % m = 0 /\ 2 * m \in Sizes
  /\ Private \subseteq Block
  /\ \A b \in Block : Addresses(b) \subseteq UNION {Addresses(e) : e \in Private} =>
       \E e \in Private : Within(b, e)

\* The block of size n that an address is in.
BlockOf(ip, n) == [base |-> ip - (ip % n), size |-> n]

---------------------------------------------------------------------------
(* The trie of package ipaddr, as the code uses it                         *)

\* What an interface's "address/length" stands for: the network when the host
\* bits are zero; else, by ipaddr's rules, the address alone.  That is the rule of
\* a library that is not part of this code, so the other reading, the network, is
\* admitted too.
Parsed(addr, reading) ==
  IF reading = "network" \/ addr.ip % addr.size = 0 THEN BlockOf(addr.ip, addr.size)
                                                    ELSE BlockOf(addr.ip, 1)

RemoveElementsContainedBy(trie, b) == {e \in trie : ~Within(e, b)}
LongestPrefixMatch(trie, b) == {e \in trie : Within(b, e)}

\* Subtract, then MergeToPrefixBlocks: the blocks that make up the rest, each as
\* large as it can be, so that the block twice its size is not part of the rest.
Subtract(e, b) ==
  LET Rest(x) == Within(x, e) /\ Disjoint(x, b)
  IN {x \in Block : Rest(x) /\ ~Rest(BlockOf(x.base, 2 * x.size))}

---------------------------------------------------------------------------
\* Fault: a network that holds whole elements is not taken out.
SubtractInterfaceInner(b, trie) ==
  LET match == LongestPrefixMatch(trie, b)
  IN (trie \ match) \cup UNION {Subtract(e, b) : e \in match}

\* One turn of the loop over the interfaces' addresses.
SubtractInterface(b, trie) ==
  LET rest == RemoveElementsContainedBy(trie, b)
      match == LongestPrefixMatch(rest, b)
  IN (rest \ match) \cup UNION {Subtract(e, b) : e \in match}

Available(used) == FoldSet(SubtractInterface, Private, used)

\* "We won't be able to carve out a /29 out of /30".
LargeEnough(trie) == {e \in trie : e.size >= Want}

\* The first element in the order of addresses and the first subnet in it, or
\* the empty set.
FindAvailableSubnet(used) ==
  LET fit == LargeEnough(Available(used))
  IN {[base |-> e.base, size |-> Want] : e \in {x \in fit : \A y \in fit : x.base <= y.base}}

---------------------------------------------------------------------------
\* The reference: the lowest subnet all of whose addresses are private and free.
Free(used) == (UNION {Addresses(b) : b \in Private}) \ UNION {Addresses(b) : b \in used}
FirstFree(used) ==
  LET fit == {b \in Block : b.size = Want /\ Addresses(b) \subseteq Free(used)}
  IN {b \in fit : \A c \in fit : b.base <= c.base}
============================================================================
