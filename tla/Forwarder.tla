----------------------------- MODULE Forwarder -----------------------------
(* gvisor.go: the software network's forwarders.  A TCP connection that the  *)
(* guest opens takes one of a limited number of slots until the request is   *)
(* completed.  A UDP flow is a pair of transfers, one per direction, each of *)
(* which reads from one connection and writes to the other; every packet     *)
(* extends the read deadlines of both connections, and a transfer whose read *)
(* fails or times out closes the connection it reads from and ends.          *)
EXTENDS Integers, FiniteSets

CONSTANTS
  Request,      \* TCP connections that the guest opens
  MaxInFlight,  \* the third argument of tcp.NewForwarder
  Flow,         \* UDP flows of one guest port to one remote address
  Timeout,      \* udpTimeout, in ticks
  MaxPackets,   \* how many UDP packets each side sends in all
  Dst           \* kinds of destination addresses

ASSUME ConstantsAssumption ==
  /\ MaxInFlight \in Nat \ {0} /\ Timeout \in Nat \ {0} /\ MaxPackets \in Nat
  /\ Dst \subseteq {"ipv6", "own network", "not unicast", "outside"}

Conn == {"guest", "remote"}
Peer(c) == CHOOSE d \in Conn : d # c
NoDeadline == Timeout + 1

VARIABLES
  tcp,       \* each request's progress
  inFlight,  \* requests that have a slot
  flow,      \* "none", "dial", "up" or "leaked"
  open,      \* open[f][c]: the connection is open
  queue,     \* packets that wait to be read from it
  left,      \* ticks until its read deadline
  at,        \* at[f][c]: where the transfer that reads from it is
  sent,      \* packets that each side has sent so far
  stack,     \* gVisor's stack is running
  \* Histories, which no guard reads:
  idle,      \* ticks since a packet was last read in either direction
  failed     \* a read of the flow failed other than by its deadline

tcpVars == <<tcp, inFlight>>
udpVars == <<flow, open, queue, left, at, sent, idle, failed>>
forwardVars == <<tcpVars, udpVars, stack>>

Both(v) == [f \in Flow |-> [c \in Conn |-> v]]

ForwardInit ==
  /\ tcp = [q \in Request |-> "new"] /\ inFlight = {}
  /\ flow = [f \in Flow |-> "none"]
  /\ open = Both(FALSE) /\ queue = Both(0) /\ left = Both(NoDeadline) /\ at = Both("none")
  /\ sent = [c \in Conn |-> 0]
  /\ stack = TRUE
  /\ idle = [f \in Flow |-> 0] /\ failed = [f \in Flow |-> FALSE]

\* withForwardingFilter: other protocols are left to the stack, and traffic of
\* the VM's own network and what is not unicast is swallowed.
Handle(dst) ==
  CASE dst = "ipv6" -> "unhandled"
    [] dst \in {"own network", "not unicast"} -> "skipped"
    [] OTHER -> "forwarded"

---------------------------------------------------------------------------
(* forwardTCP                                                              *)

\* A SYN arrives; gVisor ignores it while all slots are taken, and the guest
\* sends it again.
Syn(q) ==
  /\ stack /\ tcp[q] = "new"
  /\ \E dst \in Dst : Handle(dst) = "forwarded"
  /\ Cardinality(inFlight) < MaxInFlight
  /\ inFlight' = inFlight \cup {q}
  /\ tcp' = [tcp EXCEPT ![q] = "create"]
  /\ UNCHANGED <<udpVars, stack>>

Complete(q, result) ==
  /\ inFlight' = inFlight \ {q}
  /\ tcp' = [tcp EXCEPT ![q] = result]

\* CreateEndpoint finishes the handshake with the guest, or fails.
CreateEndpoint(q) ==
  /\ tcp[q] = "create"
  /\ \/ tcp' = [tcp EXCEPT ![q] = "dial"] /\ UNCHANGED inFlight
     \/ Complete(q, "reset")
  /\ UNCHANGED <<udpVars, stack>>

\* Fault: a request whose remote side cannot be reached is not completed.
DialTCPIncomplete(q) ==
  /\ tcp[q] = "dial"
  /\ \/ Complete(q, "proxied")
     \/ tcp' = [tcp EXCEPT ![q] = "reset"] /\ UNCHANGED inFlight
  /\ UNCHANGED <<udpVars, stack>>

\* net.Dial returns, and the request is completed either way.  The endpoint of a
\* request that is reset stays with gVisor: it is not closed, and not modelled.
DialTCP(q) ==
  /\ tcp[q] = "dial"
  /\ Complete(q, "proxied") \/ Complete(q, "reset")
  /\ UNCHANGED <<udpVars, stack>>

---------------------------------------------------------------------------
(* forwardUDP                                                              *)

\* The flows whose endpoint gets the guest's packets.
Registered == {f \in Flow : open[f]["guest"]}

\* The first packet of a flow: CreateEndpoint registers an endpoint, which the
\* packet waits in.
NewFlow(f) ==
  /\ stack /\ sent["guest"] < MaxPackets
  /\ \E dst \in Dst : Handle(dst) = "forwarded"
  /\ flow[f] = "none" /\ Registered = {}
  /\ flow' = [flow EXCEPT ![f] = "dial"]
  /\ open' = [open EXCEPT ![f]["guest"] = TRUE]
  /\ queue' = [queue EXCEPT ![f]["guest"] = 1]
  /\ sent' = [sent EXCEPT !["guest"] = @ + 1]
  /\ UNCHANGED <<tcpVars, left, at, idle, failed, stack>>

\* net.Dial succeeds and both transfers start, or it fails and the endpoint stays.
DialUDP(f) ==
  /\ flow[f] = "dial"
  /\ \/ /\ flow' = [flow EXCEPT ![f] = "up"]
        /\ open' = [open EXCEPT ![f]["remote"] = TRUE]
        /\ at' = [at EXCEPT ![f] = [c \in Conn |-> "arm"]]
     \/ flow' = [flow EXCEPT ![f] = "leaked"] /\ UNCHANGED <<open, at>>
  /\ UNCHANGED <<tcpVars, queue, left, sent, idle, failed, stack>>

\* A packet arrives at an open connection of a flow.
Arrive(f, c) ==
  /\ stack /\ open[f][c] /\ sent[c] < MaxPackets
  /\ queue' = [queue EXCEPT ![f][c] = @ + 1]
  /\ sent' = [sent EXCEPT ![c] = @ + 1]
  /\ UNCHANGED <<tcpVars, flow, open, left, at, idle, failed, stack>>

---------------------------------------------------------------------------
(* transferWithTimeout(Peer(c), c, udpTimeout)                             *)

\* Fault: the connection that is read from has no deadline at first.
ArmLater(f, c) ==
  /\ at[f][c] = "arm"
  /\ at' = [at EXCEPT ![f][c] = "read"]
  /\ UNCHANGED <<tcpVars, flow, open, queue, left, sent, idle, failed, stack>>

\* src.SetReadDeadline
Arm(f, c) ==
  /\ at[f][c] = "arm"
  /\ left' = [left EXCEPT ![f][c] = Timeout]
  /\ at' = [at EXCEPT ![f][c] = "read"]
  /\ UNCHANGED <<tcpVars, flow, open, queue, sent, idle, failed, stack>>

\* src.Read gets a packet.
Read(f, c) ==
  /\ at[f][c] = "read" /\ open[f][c] /\ queue[f][c] > 0
  /\ queue' = [queue EXCEPT ![f][c] = @ - 1]
  /\ at' = [at EXCEPT ![f][c] = "write"]
  /\ idle' = [idle EXCEPT ![f] = 0]
  /\ UNCHANGED <<tcpVars, flow, open, left, sent, failed, stack>>

\* Fault: the other connection's deadline is not extended.
WriteOnly(f, c) ==
  /\ at[f][c] = "write"
  /\ at' = [at EXCEPT ![f][c] = "arm"]
  /\ UNCHANGED <<tcpVars, flow, open, queue, left, sent, idle, failed, stack>>

\* dst.Write and dst.SetReadDeadline, both of which fail unnoticed if dst is
\* closed; they reach a read that is waiting.
Write(f, c) ==
  /\ at[f][c] = "write"
  /\ left' = IF open[f][Peer(c)] THEN [left EXCEPT ![f][Peer(c)] = Timeout] ELSE left
  /\ at' = [at EXCEPT ![f][c] = "arm"]
  /\ UNCHANGED <<tcpVars, flow, open, queue, sent, idle, failed, stack>>

\* defer src.Close()
CloseSource(f, c) ==
  /\ open' = [open EXCEPT ![f][c] = FALSE]
  /\ queue' = [queue EXCEPT ![f][c] = 0]
  /\ left' = [left EXCEPT ![f][c] = NoDeadline]
  /\ at' = [at EXCEPT ![f][c] = "done"]

\* The deadline is over.
TimeOut(f, c) ==
  /\ at[f][c] = "read" /\ left[f][c] = 0
  /\ CloseSource(f, c)
  /\ UNCHANGED <<tcpVars, flow, sent, idle, failed, stack>>

\* Read fails: the remote side refuses packets, or the stack is closed.
ReadFail(f, c) ==
  /\ at[f][c] = "read"
  /\ c = "remote" \/ ~stack
  /\ CloseSource(f, c)
  /\ failed' = [failed EXCEPT ![f] = TRUE]
  /\ UNCHANGED <<tcpVars, flow, sent, idle, stack>>

\* network.Close() cancels the context of GVisor.Run, which closes the stack.
CloseStack ==
  /\ stack /\ stack' = FALSE
  /\ UNCHANGED <<tcpVars, udpVars>>

---------------------------------------------------------------------------
\* What a transfer does at once, next to the seconds that the deadlines count.
Busy == \E f \in Flow, c \in Conn :
  \/ at[f][c] \in {"arm", "write"}
  \/ at[f][c] = "read" /\ (left[f][c] = 0 \/ queue[f][c] > 0)

\* A tick of the clock, on which no deadline waits that is already over.
Tick ==
  /\ ~Busy
  /\ \E f \in Flow, c \in Conn : at[f][c] = "read"
  /\ left' = [f \in Flow |-> [c \in Conn |->
                IF left[f][c] \in 1 .. Timeout THEN left[f][c] - 1 ELSE left[f][c]]]
  /\ idle' = [f \in Flow |->
                IF flow[f] = "up" /\ idle[f] < Timeout THEN idle[f] + 1 ELSE idle[f]]
  /\ UNCHANGED <<tcpVars, flow, open, queue, at, sent, failed, stack>>

TcpStep(q) == Syn(q) \/ CreateEndpoint(q) \/ DialTCP(q)
Transfer(f, c) == Arm(f, c) \/ Read(f, c) \/ Write(f, c) \/ TimeOut(f, c)

\* Nothing is left to do.
Quiet ==
  /\ \A f \in Flow, c \in Conn : at[f][c] \in {"none", "done"}
  /\ UNCHANGED forwardVars

ForwardNext ==
  \/ \E q \in Request : TcpStep(q)
  \/ \E f \in Flow : NewFlow(f) \/ DialUDP(f)
  \/ \E f \in Flow, c \in Conn : Arrive(f, c) \/ Transfer(f, c) \/ ReadFail(f, c)
  \/ CloseStack \/ Tick \/ Quiet

ForwardSpec == ForwardInit /\ [][ForwardNext]_forwardVars

\* Goroutines are scheduled, net.Dial returns, time passes, and a guest sends a
\* SYN again until there is an answer.
ForwardFairSpec ==
  /\ ForwardSpec
  /\ \A q \in Request : WF_forwardVars(TcpStep(q))
  /\ \A f \in Flow : WF_forwardVars(DialUDP(f)) /\ \A c \in Conn : WF_forwardVars(Transfer(f, c))
  /\ WF_forwardVars(Tick)

---------------------------------------------------------------------------
\* A connection of a flow is closed only after Timeout without a packet in either
\* direction, however one-sided the traffic is, or after a read has failed.  The
\* exception is a packet at the last moment, read by the other transfer and not
\* yet followed by its extension of the deadline: that transfer goes on by itself.
ClosedWhenIdle ==
  [][\A f \in Flow, c \in Conn : open[f][c] /\ ~open'[f][c] =>
       idle[f] = Timeout \/ failed'[f] \/ at[f][Peer(c)] = "write"]_forwardVars

\* A flow whose traffic has ended gives both of its connections up, although each
\* transfer closes only one; not covered: the endpoint that stays when net.Dial
\* fails.
FlowsEnd == <>[](\A f \in Flow : flow[f] # "leaked" => \A c \in Conn : ~open[f][c])

\* Every connection that the guest keeps trying to open gets an answer, however
\* many there are and whatever happens to the others: no slot is lost.
Answered == \A q \in Request : <>(tcp[q] \in {"proxied", "reset"} \/ ~stack)

============================================================================
