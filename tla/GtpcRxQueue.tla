---------------------------- MODULE GtpcRxQueue -----------------------------
(***************************************************************************)
(* The GTP-C receive queues: the event-loop thread reads datagrams from    *)
(* the UDP socket into ring buffers (nwGtpv2cIfDataIndicationCallback) and *)
(* one worker thread per ring hands them to the GTPv2-C stack              *)
(* (pgw_thread_udp_hander).                                                *)
(*                                                                         *)
(* The producer looks at the ring three times: under the mutex to see      *)
(* whether it is full, without the mutex to compute the slot it will fill  *)
(* (first queue_length, then queue_tail), and under the mutex to publish.  *)
(* Each look is a step of its own.  A worker's locked block is one step:   *)
(* the only unlocked reader is the producer, the block writes queue_length *)
(* last, and the two unlocked reads are separate steps here, so every pair *)
(* of values the producer can see is reached.                              *)
(*                                                                         *)
(* Datagrams are numbered in the order in which they leave the socket.     *)
(***************************************************************************)
EXTENDS Naturals, Sequences

CONSTANTS
  NumQueues,      \* NUM_QUEUE_GTPV2_NUMBER, one worker thread each
  NodeMax,        \* NUM_QUEUE_GTPV2_NODE_MAX, slots of a ring
  MaxDatagrams,   \* bound: datagrams that arrive in a behaviour
  Empty           \* a zeroed slot, and the buffer of an idle worker

Queues    == 0 .. NumQueues - 1
Slots     == 0 .. NodeMax - 1
Datagrams == 1 .. MaxDatagrams

ASSUME QueueAssumption ==
  /\ NumQueues \in Nat \ {0}
  /\ NodeMax \in Nat \ {0}
  /\ MaxDatagrams \in Nat
  /\ Empty \notin Nat

VARIABLES
  queue_length, queue_head, queue_tail,  \* per queue
  queue_node,          \* queue_node[q][s]: the datagram in slot s, or Empty
  g_queue_gtpv2_curr,  \* the queue the producer fills
  pc,                  \* where the event-loop thread is in the callback
  seen_length,         \* queue_length as the producer read it, unlocked
  q_tail_tmp,          \* the slot the producer computed
  received,            \* how many datagrams have left the socket
  node_tmp,            \* worker q's copy of the datagram it processes
  processed            \* history: the datagrams nwGtpv2cProcessUdpReq has handled

rings == <<queue_length, queue_head, queue_tail, queue_node>>
vars  == <<rings, g_queue_gtpv2_curr, pc, seen_length, q_tail_tmp, received,
           node_tmp, processed>>

PC == {"loop", "choose", "length", "tail", "recv", "publish"}

TypeOK ==
  /\ queue_length \in [Queues -> 0 .. NodeMax]
  /\ queue_head \in [Queues -> Slots]
  /\ queue_tail \in [Queues -> Slots]
  /\ queue_node \in [Queues -> [Slots -> Datagrams \cup {Empty}]]
  /\ g_queue_gtpv2_curr \in Queues
  /\ pc \in PC
  /\ seen_length \in 0 .. NodeMax
  /\ q_tail_tmp \in Slots
  /\ received \in 0 .. MaxDatagrams
  /\ node_tmp \in [Queues -> Datagrams \cup {Empty}]
  /\ processed \in SUBSET Datagrams

Init ==
  /\ queue_length = [q \in Queues |-> 0]
  /\ queue_head = [q \in Queues |-> 0]
  /\ queue_tail = [q \in Queues |-> 0]
  /\ queue_node = [q \in Queues |-> [s \in Slots |-> Empty]]
  /\ g_queue_gtpv2_curr = 0
  /\ pc = "loop"
  /\ seen_length = 0
  /\ q_tail_tmp = 0
  /\ received = 0
  /\ node_tmp = [q \in Queues |-> Empty]
  /\ processed = {}

-----------------------------------------------------------------------------
(* The ring arithmetic.  A definition named Faulty... is a plausible mistake   *)
(* in the definition it precedes; no specification uses one.  They show that  *)
(* the properties below depend on the code being as it is.                    *)

FaultyFull(q) == queue_length[q] > NodeMax   \* off by one

Full(q) == queue_length[q] = NodeMax

\* The slot the next datagram goes to, given a length and the tail: the tail
\* of an empty ring is the free slot itself, else it is the newest datagram.
NextTail(q, length) ==
  IF length # 0 THEN (queue_tail[q] + 1) % NodeMax ELSE queue_tail[q]

HeadDatagram(q) == queue_node[q][queue_head[q]]

HasDatagram(q) == queue_length[q] # 0

LengthAfterTake(q) == queue_length[q] - 1

FaultyLengthAfterPublish(q) == queue_length[q]   \* missing increment

LengthAfterPublish(q) == queue_length[q] + 1

-----------------------------------------------------------------------------
(* The event-loop thread. *)

\* The socket is readable: the event loop calls the callback.
Readable ==
  /\ pc = "loop"
  /\ received < MaxDatagrams
  /\ pc' = "choose"
  /\ UNCHANGED <<rings, g_queue_gtpv2_curr, seen_length, q_tail_tmp, received,
                 node_tmp, processed>>

\* Under the mutex of the current queue: take it unless it is full, else try
\* the next one.
ChooseQueue ==
  /\ pc = "choose"
  /\ \/ /\ Full(g_queue_gtpv2_curr)
        /\ g_queue_gtpv2_curr' = (g_queue_gtpv2_curr + 1) % NumQueues
        /\ UNCHANGED pc
     \/ /\ ~ Full(g_queue_gtpv2_curr)
        /\ pc' = "length"
        /\ UNCHANGED g_queue_gtpv2_curr
  /\ UNCHANGED <<rings, seen_length, q_tail_tmp, received, node_tmp, processed>>

\* Without the mutex.
ReadLength ==
  /\ pc = "length"
  /\ seen_length' = queue_length[g_queue_gtpv2_curr]
  /\ pc' = "tail"
  /\ UNCHANGED <<rings, g_queue_gtpv2_curr, q_tail_tmp, received, node_tmp,
                 processed>>

\* Without the mutex.
ReadTail ==
  /\ pc = "tail"
  /\ q_tail_tmp' = NextTail(g_queue_gtpv2_curr, seen_length)
  /\ pc' = "recv"
  /\ UNCHANGED <<rings, g_queue_gtpv2_curr, seen_length, received, node_tmp,
                 processed>>

\* recvfrom writes into the slot itself, without the mutex.
Recv ==
  /\ pc = "recv"
  /\ received' = received + 1
  /\ queue_node' = [queue_node EXCEPT
                      ![g_queue_gtpv2_curr][q_tail_tmp] = received + 1]
  /\ pc' = "publish"
  /\ UNCHANGED <<queue_length, queue_head, queue_tail, g_queue_gtpv2_curr,
                 seen_length, q_tail_tmp, node_tmp, processed>>

\* Under the mutex.  The queue stays the current one.
Publish ==
  /\ pc = "publish"
  /\ LET q == g_queue_gtpv2_curr IN
       /\ queue_tail' = [queue_tail EXCEPT ![q] = NextTail(q, queue_length[q])]
       /\ queue_length' = [queue_length EXCEPT ![q] = LengthAfterPublish(q)]
  /\ pc' = "loop"
  /\ UNCHANGED <<queue_head, queue_node, g_queue_gtpv2_curr, seen_length,
                 q_tail_tmp, received, node_tmp, processed>>

Callback == ChooseQueue \/ ReadLength \/ ReadTail \/ Recv \/ Publish

-----------------------------------------------------------------------------
(* The worker thread of queue q. *)

\* Under the mutex: copy the head slot, zero it, advance the head.
Dequeue(q) ==
  /\ node_tmp[q] = Empty
  /\ HasDatagram(q)
  /\ node_tmp' = [node_tmp EXCEPT ![q] = HeadDatagram(q)]
  /\ queue_node' = [queue_node EXCEPT ![q][queue_head[q]] = Empty]
  /\ queue_head' = [queue_head EXCEPT ![q] = (@ + 1) % NodeMax]
  /\ queue_tail' = [queue_tail EXCEPT
                      ![q] = IF queue_length[q] = 1
                             THEN (queue_head[q] + 1) % NodeMax ELSE @]
  /\ queue_length' = [queue_length EXCEPT ![q] = LengthAfterTake(q)]
  /\ UNCHANGED <<g_queue_gtpv2_curr, pc, seen_length, q_tail_tmp, received,
                 processed>>

BufferAfter(q) == [node_tmp EXCEPT ![q] = Empty]

\* nwGtpv2cProcessUdpReq returns and the copy is zeroed.
Process(q) ==
  /\ node_tmp[q] # Empty
  /\ processed' = processed \cup {node_tmp[q]}
  /\ node_tmp' = BufferAfter(q)
  /\ UNCHANGED <<rings, g_queue_gtpv2_curr, pc, seen_length, q_tail_tmp,
                 received>>

Worker(q) == Dequeue(q) \/ Process(q)

Next == Readable \/ Callback \/ \E q \in Queues : Worker(q)

Spec == Init /\ [][Next]_vars

\* The event loop and the workers are operating-system threads that never
\* block for good: the callback spins when the queues are full, a worker
\* sleeps a microsecond when its queue is empty.  Nothing is assumed of the
\* peers that send datagrams.
FairSpec == Spec /\ WF_vars(Callback) /\ \A q \in Queues : WF_vars(Worker(q))

-----------------------------------------------------------------------------
(* Properties *)

\* The slots of queue q that hold published datagrams, oldest first.
Published(q) ==
  [i \in 1 .. queue_length[q] |->
     queue_node[q][(queue_head[q] + i - 1) % NodeMax]]

PublishedIn(q) == {Published(q)[i] : i \in 1 .. queue_length[q]}

InFlight == IF pc = "publish" THEN {received} ELSE {}

\* recvfrom never writes into a slot whose datagram is still to be taken: the
\* slot computed without the mutex (NwGtpv2cIf.c:136-143) is not one of the
\* published ones at the moment it is filled.
NoOverwrite ==
  pc = "recv" =>
    \A i \in 0 .. queue_length[g_queue_gtpv2_curr] - 1 :
      q_tail_tmp # (queue_head[g_queue_gtpv2_curr] + i) % NodeMax

\* A worker is never handed a zeroed slot: it would call the stack with a null
\* stack handle (linker_pthread.c:278).
TakesRealDatagram ==
  [][\A q \in Queues : queue_length'[q] < queue_length[q] => node_tmp'[q] # Empty]_vars

\* The rings implement bounded FIFO channels.
Fifo == INSTANCE DatagramFifo WITH
          Channels <- Queues,
          Capacity <- NodeMax,
          None     <- Empty,
          accepted <- IF pc = "publish" THEN received - 1 ELSE received,
          chan     <- [q \in Queues |-> Published(q)],
          serving  <- node_tmp

FifoSpec == Fifo!Spec

\* Every datagram that leaves the socket is processed, whatever queue it lands
\* in (NwGtpv2cIf.c:119-190, linker_pthread.c:231-290).
AllProcessed == \A d \in Datagrams : received >= d ~> d \in processed

=============================================================================
