------------------------------ MODULE Network ------------------------------
(* The networks of running VMs.  Each vetu run creates a TAP interface under *)
(* the global lock: for the software and the host network it then finds a    *)
(* free subnet, makes the VM its permanent neighbour and gives the interface *)
(* an address; a bridged one is attached to its bridge.  The interface is    *)
(* there as long as a process has it open: vetu, or the hypervisor that      *)
(* inherits it.  "vetu ip" looks the VM up in the table of neighbours.       *)
EXTENDS Subnets

CONSTANTS
  Proc,      \* vetu run processes, each of another VM
  Foreign,   \* addresses that other programs may give to interfaces
  MaxKills,  \* how many vetu processes are killed
  None

\* A /29 has room for the three addresses that FindAvailableSubnet returns.
ASSUME NetworkAssumption ==
  /\ None \notin Proc /\ Want >= 4
  /\ Foreign \subseteq [ip : 0 .. Space - 1, size : Sizes] /\ MaxKills \in Nat

VARIABLES
  glock,    \* who has the global lock, or None
  mode,     \* which network each process uses
  pc,       \* where it is in New()
  tap,      \* its TAP interface exists
  subnet,   \* the subnet it has found: a set of at most one
  neigh,    \* the permanent neighbour on its interface: a set of at most one address
  addr,     \* the address of its interface: a set of at most one
  hv,       \* its hypervisor is up
  foreign,  \* the addresses of other interfaces
  reading,  \* how ipaddr understands an address with host bits
  kills,    \* processes that were killed
  known     \* history: the addresses of other interfaces when a process searched

vars == <<glock, mode, pc, tap, subnet, neigh, addr, hv, foreign, reading, kills, known>>

Init ==
  /\ glock = None
  /\ mode = [p \in Proc |-> "none"]
  /\ pc = [p \in Proc |-> "new"]
  /\ tap = [p \in Proc |-> FALSE]
  /\ subnet = [p \in Proc |-> {}] /\ neigh = [p \in Proc |-> {}] /\ addr = [p \in Proc |-> {}]
  /\ hv = [p \in Proc |-> FALSE]
  /\ foreign \in SUBSET Foreign
  /\ reading \in {"network", "address"}
  /\ kills = 0 /\ known = [p \in Proc |-> {}]

\* net.InterfaceAddrs, as the finder parses them.
InUse == {Parsed(a, reading) : a \in foreign \cup UNION {addr[p] : p \in Proc}}

Step(p, from, to) == pc[p] = from /\ pc' = [pc EXCEPT ![p] = to]

\* Fault: the global lock is not taken.
LockUnlocked(p) ==
  /\ Step(p, "new", "tap")
  /\ \E m \in {"software", "host", "bridged"} : mode' = [mode EXCEPT ![p] = m]
  /\ UNCHANGED <<glock, tap, subnet, neigh, addr, hv, foreign, reading, kills, known>>

\* run.go: the network is initialised in a callback of globallock.With.
Lock(p) ==
  /\ Step(p, "new", "tap")
  /\ glock = None /\ glock' = p
  /\ \E m \in {"software", "host", "bridged"} : mode' = [mode EXCEPT ![p] = m]
  /\ UNCHANGED <<tap, subnet, neigh, addr, hv, foreign, reading, kills, known>>

\* The kernel has a new interface as soon as TUNSETIFF returns.
CreateTAP(p) == tap' = [tap EXCEPT ![p] = TRUE]

\* software.New and host.New: CreateTAP, LinkByName, LinkSetMTU and LinkSetUp.
NewTAP(p) ==
  /\ mode[p] # "bridged" /\ Step(p, "tap", "find")
  /\ CreateTAP(p)
  /\ UNCHANGED <<glock, mode, subnet, neigh, addr, hv, foreign, reading, kills, known>>

\* bridged.New: the interface is attached to its bridge, and that is all; With
\* unlocks.
NewBridged(p) ==
  /\ mode[p] = "bridged" /\ Step(p, "tap", "up")
  /\ CreateTAP(p)
  /\ glock' = None
  /\ UNCHANGED <<mode, subnet, neigh, addr, hv, foreign, reading, kills, known>>

\* FindAvailableSubnet(29); without one New fails.
Find(p) ==
  /\ Step(p, "find", "neigh")
  /\ subnet' = [subnet EXCEPT ![p] = FindAvailableSubnet(InUse)]
  /\ subnet'[p] # {}
  /\ known' = [known EXCEPT ![p] = foreign]
  /\ UNCHANGED <<glock, mode, tap, neigh, addr, hv, foreign, reading, kills>>

\* The addresses that FindAvailableSubnet returns next to the subnet, counted
\* from its base: the first three after the network's own.
GatewayIP(p) == {b.base + 1 : b \in subnet[p]}
VMIP(p) == {b.base + 2 : b \in subnet[p]}

\* Fault: the interface gets the address of the gateway that gVisor is.
HostIPOfGateway(p) == GatewayIP(p)

\* In a host network the host is the gateway itself; in a software network gVisor
\* is, and the host has the third address.
HostIP(p) == IF mode[p] = "host" THEN GatewayIP(p) ELSE {b.base + 3 : b \in subnet[p]}

\* NeighAdd, "so that vetu ip would work", a second after the subnet was found.
Neigh(p) ==
  /\ Step(p, "neigh", "addr")
  /\ neigh' = [neigh EXCEPT ![p] = VMIP(p)]
  /\ UNCHANGED <<glock, mode, tap, subnet, addr, hv, foreign, reading, kills, known>>

\* AddrAdd: the host's address in the subnet, with its mask.
Addr(p) ==
  /\ Step(p, "addr", "services")
  /\ addr' = [addr EXCEPT ![p] = {[ip |-> i, size |-> Want] : i \in HostIP(p)}]
  /\ UNCHANGED <<glock, mode, tap, subnet, neigh, hv, foreign, reading, kills, known>>

\* The raw socket, gVisor and DHCP; New returns, With unlocks.
Services(p) ==
  /\ Step(p, "services", "up")
  /\ glock' = None
  /\ UNCHANGED <<mode, tap, subnet, neigh, addr, hv, foreign, reading, kills, known>>

\* What the DHCP server of the VM's network answers to Discover and Request.
Lease(p) == [ip |-> VMIP(p), router |-> GatewayIP(p)]

StartHv(p) ==
  /\ Step(p, "up", "running")
  /\ hv' = [hv EXCEPT ![p] = TRUE]
  /\ UNCHANGED <<glock, mode, tap, subnet, neigh, addr, foreign, reading, kills, known>>

\* The kernel removes the interface, its neighbours and its addresses.
RemoveTAP(p) ==
  /\ tap' = [tap EXCEPT ![p] = FALSE]
  /\ subnet' = [subnet EXCEPT ![p] = {}] /\ neigh' = [neigh EXCEPT ![p] = {}]
  /\ addr' = [addr EXCEPT ![p] = {}] /\ known' = [known EXCEPT ![p] = {}]

\* The end of a process: the interface stays while the hypervisor has it open.
Exit(p) ==
  /\ pc' = [pc EXCEPT ![p] = "exited"]
  /\ IF hv[p] THEN UNCHANGED <<tap, subnet, neigh, addr, known>> ELSE RemoveTAP(p)
  /\ glock' = IF glock = p THEN None ELSE glock

\* A step of New, or the start of the hypervisor, fails and run returns.
Fail(p) ==
  /\ pc[p] \in {"tap", "find", "neigh", "addr", "services", "up"}
  /\ Exit(p)
  /\ UNCHANGED <<mode, hv, foreign, reading, kills>>

\* The hypervisor has ended: network.Close() ends the services, and run returns.
Close(p) ==
  /\ pc[p] = "running" /\ ~hv[p]
  /\ Exit(p)
  /\ UNCHANGED <<mode, hv, foreign, reading, kills>>

\* The hypervisor ends; an orphan was the last to have the interface open.
HvEnds(p) ==
  /\ hv[p]
  /\ hv' = [hv EXCEPT ![p] = FALSE]
  /\ IF pc[p] = "exited" THEN RemoveTAP(p) ELSE UNCHANGED <<tap, subnet, neigh, addr, known>>
  /\ UNCHANGED <<glock, mode, pc, foreign, reading, kills>>

\* SIGKILL.
Kill(p) ==
  /\ pc[p] \notin {"new", "exited"} /\ kills < MaxKills
  /\ kills' = kills + 1
  /\ Exit(p)
  /\ UNCHANGED <<mode, hv, foreign, reading>>

\* Another program, which knows nothing of the global lock, adds an address.
ForeignAdd(a) ==
  /\ a \notin foreign
  /\ foreign' = foreign \cup {a}
  /\ UNCHANGED <<glock, mode, pc, tap, subnet, neigh, addr, hv, reading, kills, known>>

NewStep(p) ==
  \/ Lock(p) \/ NewTAP(p) \/ NewBridged(p) \/ Find(p) \/ Neigh(p) \/ Addr(p) \/ Services(p)
  \/ StartHv(p)

Ended == (\A p \in Proc : pc[p] = "exited") /\ UNCHANGED vars

Next ==
  \/ \E p \in Proc : NewStep(p) \/ Fail(p) \/ Close(p) \/ HvEnds(p) \/ Kill(p)
  \/ \E a \in Foreign : ForeignAdd(a)
  \/ Ended

Spec == Init /\ [][Next]_vars

---------------------------------------------------------------------------
\* The subnet cut out of the trie is the lowest one that is free: whatever the
\* interfaces use, no free one is skipped, none overlaps, and there is none only
\* if every private subnet is in use.
FinderIsRight == FindAvailableSubnet(InUse) = FirstFree(InUse)

\* The network that an interface is in by its address and mask.
NetworkOf(a) == BlockOf(a.ip, a.size)

\* The finder sees the address a and not the network around it: ipaddr reads an
\* address with host bits as that address alone, and the network is larger than
\* the subnet that then does without it.  The comments of subnetfinder.go and
\* README.md of vetu speak of networks only: here the code does less.
Overlooked(a) == reading = "address" /\ a.ip % a.size # 0 /\ a.size > Want

\* Two VMs never share a subnet, from the moment it is found until the interface
\* is gone, be their processes alive, failed or killed; and of the interfaces that
\* the host had when FindAvailableSubnet asked for them, a VM's subnet has neither
\* the addresses nor the networks, but for the networks it overlooks.
SubnetsDisjoint ==
  \A p \in Proc : \A b \in subnet[p] :
    /\ \A q \in Proc \ {p} : \A c \in subnet[q] : Disjoint(b, c)
    /\ \A a \in known[p] : /\ a.ip \notin Addresses(b)
                           /\ Disjoint(b, NetworkOf(a)) \/ Overlooked(a)

\* arpTableLookup: the neighbour with the hardware address of p's VM.  create and
\* clone choose it at random, and it is taken to be no other VM's.
ArpTableLookup(p) == neigh[p]

\* The addresses of the host's interfaces: those of VMs, and of the others those
\* that p could know of when it chose its subnet.
Interfaces(p) == known[p] \cup UNION {addr[q] : q \in Proc}

\* The interfaces on which the host answers to one of the addresses, and those to
\* which it routes an address, the most specific network that has it.
HostAnswers(p, ips) == {a \in Interfaces(p) : a.ip \in ips}
RoutesOf(p, ip) ==
  LET match == {a \in Interfaces(p) : ip \in Addresses(NetworkOf(a))}
  IN {a \in match : \A c \in match : a.size <= c.size}

\* While a hypervisor is up behind a software or host network, even when its vetu
\* run is gone, "vetu ip" prints the address that DHCP leases to the VM, the host
\* has that address on none of its interfaces and routes it to the VM's alone, and
\* the router that DHCP names is answered by the host in a host network only, on
\* the VM's interface: in a software network gVisor is alone with it.  All this
\* unless another program has added an address since the subnet was found.
IpReachesVM ==
  \A p \in Proc : hv[p] /\ mode[p] # "bridged" =>
    /\ ArpTableLookup(p) # {} /\ ArpTableLookup(p) = Lease(p).ip
    /\ HostAnswers(p, ArpTableLookup(p)) = {}
    /\ \A ip \in ArpTableLookup(p) : RoutesOf(p, ip) = addr[p]
    /\ HostAnswers(p, Lease(p).router) = IF mode[p] = "host" THEN addr[p] ELSE {}
============================================================================
