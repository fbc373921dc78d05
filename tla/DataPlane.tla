----------------------------- MODULE DataPlane ------------------------------
(***************************************************************************)
(* The data plane: the flows that the session control creates and destroys *)
(* (NwSaeGwDpe.c, NwSdp.c), the end points where packets enter them (GTP-U *)
(* stack and IPv4 stack), and what a packet makes the stacks send.         *)
(*                                                                         *)
(* Flows are created and destroyed by worker threads.  A pool of free end  *)
(* points is a linked list: the GTP-U one is popped under a mutex and      *)
(* pushed without it, the IPv4 one has no mutex, so what a thread reads    *)
(* and writes without one is a step of its own.  The pool of flow contexts *)
(* and the maps of end points are always used under a mutex.               *)
(*                                                                         *)
(* A packet is handled in one step.  NwSaeGwDpe.c has the lines that would *)
(* register the sockets with the event loop commented out, so the program  *)
(* as it is built uses the flows and never calls the packet handlers; they *)
(* are what the flows are for.                                             *)
(***************************************************************************)
EXTENDS Naturals, Sequences, FiniteSets, Functions

CONSTANTS
  Workers,
  Contexts,    \* memory for flow contexts
  Blocks,      \* memory for end points; bound: as many as there are contexts
  Teids,       \* TEIDs of this node, given to flows by the session control
  Addrs,       \* addresses of UEs
  Peers,       \* TEIDs of another node (an eNodeB, an SGW)
  Packets,     \* BOOLEAN: whether packets arrive
  Null,
  Garbage      \* content of a block that was never used

Stacks == {"gtpu", "ip"}

VARIABLES
  contexts,  \* the pool of flow contexts, used last first
  context,   \* content of every flow context
  head,      \* head of each pool of end points
  next,      \* the block after each block of a pool
  unused,    \* blocks that no pool has ever had
  end,       \* content of every end point
  map,       \* ipv4AddrMap and teidMap: end points that packets can find
  flows,     \* ULP: flows it holds
  worker,
  messages,  \* the pool of GTP-U messages: the TEID left over in each block
  sent,      \* history: the last packet and what was sent for it, or None
  aborted    \* an NW_ASSERT has failed, or a null pointer was used

pools == <<contexts, head, next, unused>>
vars  == <<pools, context, end, map, flows, worker, messages, sent, aborted>>

\* NwSdpFlowEndPointT, with the handle of the stack for an ingress.
Gtpu(teid) == [stack |-> "gtpu", key |-> teid]
Ip(addr)   == [stack |-> "ip", key |-> addr]

\* Flows that NwSaeGwDpe.c creates: GTP-U to IPv4, IPv4 to GTP-U, and a relay.
UplinkFlows   == {[in |-> Gtpu(t), out |-> Ip(Null)] : t \in Teids}
DownlinkFlows == {[in |-> Ip(a), out |-> Gtpu(p)] : a \in Addrs, p \in Peers}
RelayFlows    == {[in |-> Gtpu(t), out |-> Gtpu(p)] : t \in Teids, p \in Peers}

Requests == UplinkFlows \cup DownlinkFlows \cup RelayFlows

\* NwSdpFlowContextT
FlowContext ==
  {[in |-> f.in, out |-> f.out, handle |-> h] : f \in Requests, h \in Blocks \cup {Null}}

ASSUME DataPlaneAssumption ==
  /\ Packets \in BOOLEAN
  /\ IsFiniteSet(Blocks)
  /\ Null \notin Blocks \cup Contexts \cup FlowContext

Idle == [at |-> "idle", flow |-> Null, block |-> Null]

Quiet == [packet |-> Null, out |-> {}]

\* Put on the wire by the sockets of the GTP-U and of the IPv4 interface.
GtpuOut(teid, header, payload) ==
  [via |-> "gtpu", teid |-> teid, header |-> header, payload |-> payload]

IpOut(payload) == [via |-> "ip", teid |-> Null, header |-> Null, payload |-> payload]

Announcement(addr) ==
  [packet |-> Null,
   out |-> {[via |-> "ip", teid |-> Null, header |-> "arp", payload |-> addr]}]

TypeOK ==
  /\ contexts \in Seq(Contexts)
  /\ context \in [Contexts -> {Null} \cup FlowContext]
  /\ head \in [Stacks -> Blocks \cup {Null}]
  /\ next \in [Stacks -> [Blocks -> Blocks \cup {Null}]]
  /\ unused \in [Stacks -> SUBSET Blocks]
  /\ end \in [Stacks -> [Blocks -> [key : Teids \cup Addrs \cup {Garbage},
                                    flow : Contexts \cup {Garbage}]]]
  /\ map \in [Stacks -> SUBSET Blocks]
  /\ flows \subseteq Contexts
  /\ worker \in [Workers -> [at : {"idle", "new", "pop", "insert", "remove", "push",
                                   "pushed", "delete"},
                             flow : Contexts \cup {Null}, block : Blocks \cup {Null}]]
  /\ messages \in Seq(Teids \cup Peers \cup {Garbage})
  /\ aborted \in BOOLEAN

Init ==
  /\ contexts = <<>>
  /\ context = [c \in Contexts |-> Null]
  /\ head = [k \in Stacks |-> Null]
  /\ next = [k \in Stacks |-> [b \in Blocks |-> Null]]
  /\ unused = [k \in Stacks |-> Blocks]
  /\ end = [k \in Stacks |-> [b \in Blocks |-> [key |-> Garbage, flow |-> Garbage]]]
  /\ map = [k \in Stacks |-> {}]
  /\ flows = {}
  /\ worker = [w \in Workers |-> Idle]
  /\ messages = <<>>
  /\ sent = Quiet
  /\ aborted = FALSE

\* A step of a worker; only a new IPv4 end point sends something.
Work(w, at) == ~ aborted /\ worker[w].at = at /\ UNCHANGED messages

Goto(w, at) == worker' = [worker EXCEPT ![w].at = at]

\* The end point that worker w works on belongs to this stack.
StackOf(w) == context[worker[w].flow].in.stack

\* Contexts that the ULP or a worker has.
Held == (flows \cup {worker[w].flow : w \in Workers}) \ {Null}

Keys(k) == {context[c].in.key : c \in {d \in Held : context[d].in.stack = k}}

-----------------------------------------------------------------------------
(* nwSdpCreateFlow.  A definition named Faulty... is a plausible mistake in   *)
(* the definition it precedes; no specification uses one.                     *)

\* The context that nwSdpFlowContextNew returns: the one given back last.
NewContext ==
  IF contexts # <<>> THEN {Head(contexts)}
  ELSE LET fresh == {c \in Contexts : context[c] = Null}
       IN IF fresh = {} THEN {} ELSE {CHOOSE c \in fresh : TRUE}

\* The session control never asks for a TEID that one of its flows has: it is
\* the address of a field of a UE.  nwSdpFlowContextNew is under a mutex.
StartCreate(w) ==
  /\ Work(w, "idle") /\ sent' = Quiet
  /\ \E f \in Requests, c \in NewContext :
       /\ f.in.stack = "gtpu" => f.in.key \notin Keys("gtpu")
       /\ context' = [context EXCEPT ![c] = [in |-> f.in, out |-> f.out, handle |-> Null]]
       /\ contexts' = IF contexts # <<>> THEN Tail(contexts) ELSE contexts
       /\ worker' = [worker EXCEPT ![w] = [at |-> "new", flow |-> c, block |-> Null]]
  /\ UNCHANGED <<head, next, unused, end, map, flows, aborted>>

\* Only the GTP-U stack locks its pool, and only to take from it.
Locked(w) ==
  /\ StackOf(w) = "gtpu"
  /\ \E v \in Workers \ {w} : worker[v].at = "pop" /\ StackOf(v) = "gtpu"

\* The end point that the flow of worker w shall have.
Take(w, at, b) ==
  worker' = [worker EXCEPT ![w] = [at |-> at, flow |-> worker[w].flow, block |-> b]]

\* Memory for an end point when the pool is empty.
NewBlock(k) == IF unused[k] = {} THEN {} ELSE {CHOOSE b \in unused[k] : TRUE}

\* The head of the pool is read ...
ReadHead(w) ==
  /\ Work(w, "new") /\ sent' = Quiet
  /\ ~ Locked(w)
  /\ LET k == StackOf(w) IN
       IF head[k] # Null
       THEN /\ Take(w, "pop", head[k])
            /\ UNCHANGED unused
       ELSE \E b \in NewBlock(k) :
              /\ Take(w, "insert", b)
              /\ unused' = [unused EXCEPT ![k] = @ \ {b}]
  /\ UNCHANGED <<contexts, context, head, next, end, map, flows, aborted>>

\* ... and read again to advance it.
AdvanceHead(w) ==
  /\ Work(w, "pop") /\ sent' = Quiet
  /\ LET k == StackOf(w) IN
       IF head[k] = Null
       THEN aborted' = TRUE /\ UNCHANGED head
       ELSE head' = [head EXCEPT ![k] = next[k][head[k]]] /\ UNCHANGED aborted
  /\ Goto(w, "insert")
  /\ UNCHANGED <<contexts, context, next, unused, end, map, flows>>

\* The block keeps the flow of the end point it was before.
FaultyEndPoint(c, old) == [key |-> context[c].in.key, flow |-> old.flow]

EndPoint(c, old) == [key |-> context[c].in.key, flow |-> c]

\* Another end point with the key, or the block itself, is in the map already:
\* nwGtpv1uCompareTeid, nwIpv4CompareIpv4TunnelEndPoint.
TeidExists(teid) == \E b \in map["gtpu"] : end'["gtpu"][b].key = teid

AddrExists(addr) == \E b \in map["ip"] : end'["ip"][b].key = addr

\* The worker fills in its end point.
Fill(w) ==
  LET k == StackOf(w)
      b == worker[w].block
  IN end' = [end EXCEPT ![k][b] = EndPoint(worker[w].flow, end[k][b])]

\* The end point is in the map: the flow is complete, and goes to the ULP.
Created(w) ==
  /\ map' = [map EXCEPT ![StackOf(w)] = @ \cup {worker[w].block}]
  /\ context' = [context EXCEPT ![worker[w].flow].handle = worker[w].block]
  /\ flows' = flows \cup {worker[w].flow}
  /\ worker' = [worker EXCEPT ![w] = Idle]
  /\ UNCHANGED aborted

\* The new end point of a flow that could not have one is forgotten.
FaultyCollided(w) == worker' = [worker EXCEPT ![w] = Idle] /\ flows' = flows \cup {worker[w].flow}

Collided(w) == Goto(w, "push") /\ UNCHANGED flows

\* A collision is an assertion (NwGtpv1u.c:328) ...
InsertGtpu(w) ==
  /\ Work(w, "insert") /\ StackOf(w) = "gtpu"
  /\ Fill(w)
  /\ \/ /\ TeidExists(context[worker[w].flow].in.key)
        /\ aborted' = TRUE
        /\ Collided(w)
        /\ UNCHANGED <<map, context>>
     \/ /\ ~ TeidExists(context[worker[w].flow].in.key)
        /\ Created(w)
  /\ sent' = Quiet
  /\ UNCHANGED pools

\* ... or an error that the SDP does not look at.  A new address is announced
\* with an ARP request; the thread that sends it has a pointer to the stack of
\* its caller (NwIpv4.c:227-234).
InsertIp(w) ==
  /\ Work(w, "insert") /\ StackOf(w) = "ip"
  /\ Fill(w)
  /\ LET addr == context[worker[w].flow].in.key IN
       \/ /\ AddrExists(addr)
          /\ Collided(w)
          /\ sent' = Quiet
          /\ UNCHANGED <<map, context, aborted>>
       \/ /\ ~ AddrExists(addr)
          /\ Created(w)
          /\ \E a \in {addr, Garbage} : sent' = Announcement(a)
  /\ UNCHANGED pools

-----------------------------------------------------------------------------
(* nwSdpDestroyFlow *)

\* A flow whose end point could not be created has none to destroy.
StartDestroy(w) ==
  /\ Work(w, "idle") /\ sent' = Quiet
  /\ \E c \in flows :
       /\ flows' = flows \ {c}
       /\ worker' = [worker EXCEPT ![w] =
                       [at |-> IF context[c].handle # Null THEN "remove" ELSE "delete",
                        flow |-> c, block |-> context[c].handle]]
  /\ UNCHANGED <<pools, context, end, map, aborted>>

Removed(k, b) == [map EXCEPT ![k] = @ \ {b}]

RemoveGtpu(w) ==
  /\ Work(w, "remove") /\ StackOf(w) = "gtpu"
  /\ map' = Removed("gtpu", worker[w].block)
  /\ Goto(w, "push")
  /\ sent' = Quiet
  /\ UNCHANGED <<pools, context, end, flows, aborted>>

RemoveIp(w) ==
  /\ Work(w, "remove") /\ StackOf(w) = "ip"
  /\ map' = Removed("ip", worker[w].block)
  /\ Goto(w, "push")
  /\ sent' = Quiet
  /\ UNCHANGED <<pools, context, end, flows, aborted>>

\* nwGtpTunnelEndPointDestroy, nwIpv4TunnelEndPointDestroy: no mutex.
LinkBlock(w) ==
  /\ Work(w, "push") /\ sent' = Quiet
  /\ next' = [next EXCEPT ![StackOf(w)][worker[w].block] = head[StackOf(w)]]
  /\ Goto(w, "pushed")
  /\ UNCHANGED <<contexts, context, head, unused, end, map, flows, aborted>>

\* The end point of a flow that is being created was a collision.
WriteHead(w) ==
  /\ Work(w, "pushed") /\ sent' = Quiet
  /\ head' = [head EXCEPT ![StackOf(w)] = worker[w].block]
  /\ IF context[worker[w].flow].handle = Null
     THEN /\ flows' = flows \cup {worker[w].flow}
          /\ worker' = [worker EXCEPT ![w] = Idle]
     ELSE Goto(w, "delete") /\ UNCHANGED flows
  /\ UNCHANGED <<contexts, context, next, unused, end, map, aborted>>

FreeContext(w) == <<worker[w].flow>> \o contexts

DeleteContext(w) ==
  /\ Work(w, "delete") /\ sent' = Quiet
  /\ contexts' = FreeContext(w)
  /\ worker' = [worker EXCEPT ![w] = Idle]
  /\ UNCHANGED <<context, head, next, unused, end, map, flows, aborted>>

Worker(w) ==
  \/ StartCreate(w) \/ ReadHead(w) \/ AdvanceHead(w) \/ InsertGtpu(w) \/ InsertIp(w)
  \/ StartDestroy(w) \/ RemoveGtpu(w) \/ RemoveIp(w)
  \/ LinkBlock(w) \/ WriteHead(w) \/ DeleteContext(w)

-----------------------------------------------------------------------------
(* Packets.  A T-PDU is what a user sends.  The header of a G-PDU is plain,   *)
(* or has a sequence number, or an extension header of some type in front of  *)
(* the T-PDU.  A message is a block from a pool, given back when the packet   *)
(* has been handled; a block keeps the TEID it held.                          *)

GPdus  == [type : {"gpdu"}, teid : Teids, header : {"plain", "seq", "ext"}]
Frames == [type : {"frame"}, addr : Addrs]
Arps   == [type : {"arp"}, addr : Addrs]

\* The flow of the end point with a TEID, with an address: none, or one.
FlowOfTeid(teid) == {end["gtpu"][b].flow : b \in {c \in map["gtpu"] : end["gtpu"][c].key = teid}}

\* In downlink mode the key is the destination.
FlowOfAddr(addr) == {end["ip"][b].flow : b \in {c \in map["ip"] : end["ip"][c].key = addr}}

\* n messages are taken from the pool, and given back last in, first out; the
\* TEID of the one taken first is first.
Use(teids) ==
  messages' = teids \o SubSeq(messages, Len(teids) + 1, Len(messages))

\* The TEID that the message on top of the pool holds: nwGtpv1uMsgNew leaves it.
LeftOver == IF messages = <<>> THEN Garbage ELSE Head(messages)

\* nwGtpv1uMsgGetTpduHandle takes 8 or 12 octets for the header, whatever the
\* extension headers.
Tpdu(g) == IF g.header = "ext" THEN "ext+tpdu" ELSE "tpdu"

\* nwGtpv1uCreateAndSendMsg writes the type of the first extension header and
\* the N-PDU number with htons into one octet: both become zero.  The length field,
\* which it sets to the length of the whole message, is left out: no receiver in
\* the model reads it.
HeaderSent(header) == IF header = "ext" THEN "untyped" ELSE header

Decapsulate(g) == {IpOut(Tpdu(g))}

FaultySendto(c, g) == {GtpuOut(context[c].in.key, HeaderSent(g.header), Tpdu(g))}  \* the ingress

\* A copy of the message is sent with the TEID of the egress.
Sendto(c, g) == {GtpuOut(context[c].out.key, HeaderSent(g.header), Tpdu(g))}

\* nwSdpProcessGtpuDataIndication; the message is given back when it is done.
FromGtpu(c, g) ==
  /\ sent' = [packet |-> g,
              out |-> IF context[c].out.stack = "ip" THEN Decapsulate(g) ELSE Sendto(c, g)]
  /\ Use(IF context[c].out.stack = "ip" THEN <<g.teid>> ELSE <<g.teid, context[c].out.key>>)

ProcessGpdu ==
  \E g \in GPdus :
    \/ \E c \in FlowOfTeid(g.teid) : FromGtpu(c, g)
    \/ /\ FlowOfTeid(g.teid) = {}
       /\ sent' = [packet |-> g, out |-> {}]
       /\ UNCHANGED messages

\* nwGtpv1uGpduMsgNew: the T-PDU in a message without sequence number.
Encapsulate(c) == {GtpuOut(context[c].out.key, "plain", "tpdu")}

\* nwSdpProcessIpv4DataIndication
FromIpv4(c, f) ==
  IF context[c].out.stack = "gtpu"
  THEN sent' = [packet |-> f, out |-> Encapsulate(c)] /\ Use(<<context[c].out.key>>)
  ELSE sent' = [packet |-> f, out |-> {}] /\ UNCHANGED messages

ProcessFrame ==
  \E f \in Frames :
    \/ \E c \in FlowOfAddr(f.addr) : FromIpv4(c, f)
    \/ /\ FlowOfAddr(f.addr) = {}
       /\ sent' = [packet |-> f, out |-> {}]
       /\ UNCHANGED messages

\* No ARP request is answered: the stack looks for an end point with a pointer
\* to the address (NwIpv4.c:404).
ProcessArp ==
  /\ \E a \in Arps : sent' = [packet |-> a, out |-> {}]
  /\ UNCHANGED messages

\* An echo response has the TEID that the message was left with.
HandleEchoReq ==
  /\ sent' = [packet |-> [type |-> "echo"], out |-> {GtpuOut(LeftOver, "seq", "recovery")}]
  /\ Use(<<LeftOver>>)

\* An error indication is parsed, and dropped by the SDP.
ProcessErrorInd ==
  /\ sent' = [packet |-> [type |-> "error"], out |-> {}]
  /\ Use(<<Garbage>>)

\* nwGtpv1uProcessUdpReq; an echo response is dropped.
UdpReq == ProcessGpdu \/ HandleEchoReq \/ ProcessErrorInd

\* nwIpv4ProcessLlpDataInd
LlpDataInd == ProcessFrame \/ ProcessArp

Packet ==
  /\ Packets /\ ~ aborted
  /\ UdpReq \/ LlpDataInd
  /\ UNCHANGED <<pools, context, end, map, flows, worker, aborted>>

Next == Packet \/ \E w \in Workers : Worker(w)

Spec == Init /\ [][Next]_vars

-----------------------------------------------------------------------------
(* Properties *)

\* The blocks of a pool of end points.
Chain(k) ==
  LET nth[n \in 0 .. Cardinality(Blocks)] ==
        IF n = 0 THEN head[k]
        ELSE IF nth[n - 1] = Null THEN Null ELSE next[k][nth[n - 1]]
  IN {nth[n] : n \in DOMAIN nth} \ {Null}

InHand(k) ==
  {worker[w].block : w \in {v \in Workers : /\ worker[v].at \in {"insert", "push", "pushed"}
                                            /\ StackOf(v) = k}}

\* An end point that packets can find leads to a flow that the session control
\* has or is just destroying, and that flow knows its end point: an end point
\* reused or left behind would send the packets of one user along the flow of
\* another (NwGtpv1u.c:483-498, NwIpv4.c:362-371).
EndPointsLeadToFlows ==
  \A k \in Stacks : \A b \in map[k] :
    LET c == end[k][b].flow IN
      /\ c \in Held
      /\ context[c].in = [stack |-> k, key |-> end[k][b].key]
      /\ context[c].handle = b

\* A block is never in two places, and never in none: it is in its pool, in a
\* map, in the hands of a worker, or still to be used; the same holds for the
\* contexts of flows (NwGtpv1uTunnelEndPoint.c:64-106, NwSdpFlowContext.c:63-105).
NothingLeaks ==
  /\ \A k \in Stacks :
       /\ Chain(k) \cup map[k] \cup InHand(k) \cup unused[k] = Blocks
       /\ Cardinality(Chain(k)) + Cardinality(map[k]) + Cardinality(InHand(k))
            + Cardinality(unused[k]) = Cardinality(Blocks)
  /\ {c \in Contexts : context[c] # Null} = Held \cup Range(contexts)
  /\ Held \cap Range(contexts) = {}
  /\ Cardinality(Range(contexts)) = Len(contexts)

\* What is sent for a packet is its T-PDU, once, out of a flow that the session
\* control has set up for its ingress; a packet of a complete flow is always
\* sent, and nothing is sent for others.  Headers with extensions are mangled
\* (NwGtpv1u.c:192-196, NwGtpv1uMsg.c:326-341) and are left out.
PacketsFollowFlows ==
  LET p == sent.packet IN
  p # Null /\ p.type \in {"gpdu", "frame"} /\ ~ (p.type = "gpdu" /\ p.header = "ext") =>
    LET in     == IF p.type = "gpdu" THEN Gtpu(p.teid) ELSE Ip(p.addr)
        header == IF p.type = "gpdu" THEN p.header ELSE "plain"
        Out(c) == IF context[c].out.stack = "ip" THEN IpOut("tpdu")
                  ELSE GtpuOut(context[c].out.key, header, "tpdu")
        owners == {c \in Held : context[c].in = in}
    IN /\ sent.out \subseteq {Out(c) : c \in owners}
       /\ Cardinality(sent.out) <= 1
       /\ (\E c \in owners \cap flows : context[c].handle # Null) => sent.out # {}

=============================================================================
