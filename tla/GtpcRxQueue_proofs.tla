------------------------- MODULE GtpcRxQueue_proofs -------------------------
(***************************************************************************)
(* Proofs about the receive queues, for every number of queues and every   *)
(* number of datagrams.                                                    *)
(***************************************************************************)
EXTENDS GtpcRxQueue, SequenceTheorems, TLAPS

\* The remainder of a division by the size of a ring is one of its slots.
LEMMA SlotArithmetic ==
  ASSUME NEW x \in Nat
  PROVE  x % NodeMax \in Slots
BY QueueAssumption DEF Slots

\* The round robin of the producer stays among the queues.
LEMMA NextQueueIsQueue ==
  ASSUME NEW x \in Nat
  PROVE  x % NumQueues \in Queues
BY QueueAssumption DEF Queues

-----------------------------------------------------------------------------
\* From the moment the callback has chosen a queue until it has published the
\* datagram, that queue has room: only the callback makes a queue longer.
RoomToPublish ==
  pc \in {"length", "tail", "recv", "publish"} =>
    queue_length[g_queue_gtpv2_curr] < NodeMax

\* The callback runs only when there is a datagram to receive.
SomethingToRead ==
  pc \in {"choose", "length", "tail", "recv"} => received < MaxDatagrams

TypeInv == TypeOK /\ RoomToPublish /\ SomethingToRead

\* Whatever length the producer has seen, the slot it computes is in the ring.
LEMMA NextTailIsSlot ==
  ASSUME TypeOK, NEW q \in Queues, NEW length
  PROVE  NextTail(q, length) \in Slots
<1>1. queue_tail[q] \in Slots
  BY DEF TypeOK
<1>2. queue_tail[q] + 1 \in Nat
  BY <1>1, QueueAssumption DEF Slots
<1>3. (queue_tail[q] + 1) % NodeMax \in Slots
  BY <1>2, SlotArithmetic
<1> QED BY <1>1, <1>3 DEF NextTail

\* Empty rings of idle threads satisfy the inductive invariant TypeInv.
LEMMA InitTypeInv == Init => TypeInv
BY QueueAssumption DEF Init, TypeInv, TypeOK, RoomToPublish, SomethingToRead,
   Queues, Slots, Datagrams, PC

\* Every step of the callback and of the workers preserves TypeInv.  The worker
\* only shortens a ring, so the room that the producer has found under the mutex
\* is still there when it publishes (NwGtpv2cIf.c:119-190).
LEMMA StepTypeInv == TypeInv /\ [Next]_vars => TypeInv'
<1> SUFFICES ASSUME TypeInv, [Next]_vars PROVE TypeInv'
  OBVIOUS
<1> USE DEF TypeInv, RoomToPublish, SomethingToRead, PC
<1>1. CASE Readable
  BY <1>1 DEF Readable, TypeOK, rings
<1>2. CASE ChooseQueue
  <2>1. (g_queue_gtpv2_curr + 1) % NumQueues \in Queues
    <3>1. g_queue_gtpv2_curr + 1 \in Nat
      BY QueueAssumption DEF TypeOK, Queues
    <3> QED BY <3>1, NextQueueIsQueue
  <2>2. TypeOK'
    BY <1>2, <2>1 DEF ChooseQueue, TypeOK, rings
  <2>3. queue_length[g_queue_gtpv2_curr] \in 0 .. NodeMax
    BY DEF TypeOK
  <2>4. RoomToPublish' /\ SomethingToRead'
    BY <1>2, <2>3, QueueAssumption DEF ChooseQueue, Full, rings
  <2> QED BY <2>2, <2>4
<1>3. CASE ReadLength
  BY <1>3 DEF ReadLength, TypeOK, rings
<1>4. CASE ReadTail
  <2>1. NextTail(g_queue_gtpv2_curr, seen_length) \in Slots
    BY NextTailIsSlot DEF TypeOK
  <2> QED
    BY <1>4, <2>1 DEF ReadTail, TypeOK, rings
<1>5. CASE Recv
  <2>1. received + 1 \in 0 .. MaxDatagrams /\ received + 1 \in Datagrams
    BY <1>5, QueueAssumption DEF Recv, TypeOK, Datagrams
  <2> QED
    BY <1>5, <2>1 DEF Recv, TypeOK
<1>6. CASE Publish
  <2> DEFINE q == g_queue_gtpv2_curr
  <2>1. NextTail(q, queue_length[q]) \in Slots
    BY NextTailIsSlot DEF TypeOK
  <2>2. LengthAfterPublish(q) \in 0 .. NodeMax
    BY <1>6, QueueAssumption DEF Publish, LengthAfterPublish, TypeOK
  <2> QED
    BY <1>6, <2>1, <2>2 DEF Publish, TypeOK
<1>7. ASSUME NEW q \in Queues, Dequeue(q) PROVE TypeInv'
  <2>1. HeadDatagram(q) \in Datagrams \cup {Empty}
    BY DEF HeadDatagram, TypeOK
  <2>2. (queue_head[q] + 1) % NodeMax \in Slots
    <3>1. queue_head[q] \in Slots
      BY DEF TypeOK
    <3>2. queue_head[q] + 1 \in Nat
      BY <3>1, QueueAssumption DEF Slots
    <3> QED BY <3>2, SlotArithmetic
  <2>3. /\ LengthAfterTake(q) \in 0 .. NodeMax
        /\ LengthAfterTake(q) < queue_length[q]
    <3>1. queue_length[q] \in 0 .. NodeMax /\ queue_length[q] # 0
      BY <1>7 DEF Dequeue, HasDatagram, TypeOK
    <3> QED BY <3>1, QueueAssumption DEF LengthAfterTake
  <2>4. TypeOK'
    BY <1>7, <2>1, <2>2, <2>3 DEF Dequeue, TypeOK
  <2>5. SomethingToRead'
    BY <1>7 DEF Dequeue
  <2>6. RoomToPublish'
    BY <1>7, <2>3, QueueAssumption DEF Dequeue, TypeOK
  <2> QED BY <2>4, <2>5, <2>6
<1>8. ASSUME NEW q \in Queues, Process(q) PROVE TypeInv'
  BY <1>8 DEF Process, TypeOK, rings, BufferAfter
<1>9. CASE UNCHANGED vars
  BY <1>9 DEF TypeOK, vars, rings
<1> QED
  BY <1>1, <1>2, <1>3, <1>4, <1>5, <1>6, <1>7, <1>8, <1>9
  DEF Next, Callback, Worker

\* The shapes of the rings, and every index into them, stay in range.
THEOREM TypeCorrect == Spec => []TypeOK
<1>1. TypeInv => TypeOK
  BY DEF TypeInv
<1> QED
  BY InitTypeInv, StepTypeInv, <1>1, PTL DEF Spec
-----------------------------------------------------------------------------
(* Rings of one slot, which is what linker_queue.h:10 gives for two workers.   *)
(* There a ring with room is empty, so what the producer reads without the    *)
(* mutex cannot have changed when it uses it.                                 *)

\* The only slot of a ring holds a datagram exactly from the time the producer
\* fills it until the worker takes it.
SlotInv ==
  /\ \A q \in Queues : queue_length[q] # 0 => queue_node[q][0] # Empty
  /\ pc = "publish" => queue_node[g_queue_gtpv2_curr][0] = received

RingInv == TypeInv /\ SlotInv

\* A ring of one slot has the slot 0.
LEMMA OneSlot == NodeMax = 1 => Slots = {0}
BY DEF Slots

\* Empty rings satisfy RingInv.
LEMMA InitRingInv == Init => RingInv
BY InitTypeInv DEF RingInv, SlotInv, Init

\* In rings of one slot every step preserves RingInv: the worker zeroes a slot
\* only together with its length, and the producer publishes what it has filled.
LEMMA StepRingInv ==
  ASSUME NodeMax = 1, RingInv, [Next]_vars
  PROVE  RingInv'
<1>1. TypeInv /\ TypeInv'
  BY StepTypeInv DEF RingInv
<1>2. SlotInv'
  <2> USE <1>1, OneSlot, QueueAssumption
  <2>1. CASE Readable
    BY <2>1 DEF Readable, RingInv, SlotInv, rings
  <2>2. CASE ChooseQueue
    BY <2>2 DEF ChooseQueue, RingInv, SlotInv, rings
  <2>3. CASE ReadLength
    BY <2>3 DEF ReadLength, RingInv, SlotInv, rings
  <2>4. CASE ReadTail
    BY <2>4 DEF ReadTail, RingInv, SlotInv, rings
  <2>5. CASE Recv
    <3>1. q_tail_tmp = 0 /\ received + 1 # Empty
      BY DEF TypeInv, TypeOK
    <3> QED
      BY <2>5, <3>1 DEF Recv, RingInv, SlotInv, TypeInv, TypeOK
  <2>6. CASE Publish
    <3>1. received # Empty
      BY DEF TypeInv, TypeOK
    <3> QED
      BY <2>6, <3>1 DEF Publish, RingInv, SlotInv, TypeInv, TypeOK
  <2>7. ASSUME NEW q \in Queues, Dequeue(q) PROVE SlotInv'
    <3>1. queue_length[q] = 1
      BY <2>7 DEF Dequeue, HasDatagram, TypeInv, TypeOK
    <3>2. queue_length'[q] = 0
      BY <2>7, <3>1 DEF Dequeue, LengthAfterTake, TypeInv, TypeOK
    <3>3. pc = "publish" => q # g_queue_gtpv2_curr
      BY <3>1 DEF TypeInv, RoomToPublish
    <3> QED
      BY <2>7, <3>2, <3>3 DEF Dequeue, RingInv, SlotInv, TypeInv, TypeOK
  <2>8. ASSUME NEW q \in Queues, Process(q) PROVE SlotInv'
    BY <2>8 DEF Process, RingInv, SlotInv, rings
  <2>9. CASE UNCHANGED vars
    BY <2>9 DEF vars, rings, RingInv, SlotInv
  <2> QED
    BY <2>1, <2>2, <2>3, <2>4, <2>5, <2>6, <2>7, <2>8, <2>9
    DEF Next, Callback, Worker
<1> QED
  BY <1>1, <1>2 DEF RingInv

\* In rings of one slot RingInv always holds.
LEMMA RingInvariant ==
  ASSUME NodeMax = 1
  PROVE  Spec => []RingInv
<1>1. RingInv /\ [Next]_vars => RingInv'
  BY StepRingInv
<1> QED
  BY InitRingInv, <1>1, PTL DEF Spec

\* In rings of one slot recvfrom never writes over a datagram that a worker
\* has not taken yet.
THEOREM NeverOverwritten ==
  ASSUME NodeMax = 1
  PROVE  Spec => []NoOverwrite
<1>1. RingInv => NoOverwrite
  <2> SUFFICES ASSUME TypeInv, pc = "recv"
               PROVE  queue_length[g_queue_gtpv2_curr] = 0
    BY DEF RingInv, NoOverwrite
  <2> QED
    BY DEF TypeInv, TypeOK, RoomToPublish
<1> QED
  BY RingInvariant, <1>1, PTL

\* In rings of one slot a worker is never handed a zeroed slot.
THEOREM AlwaysTakesRealDatagram ==
  ASSUME NodeMax = 1
  PROVE  Spec => TakesRealDatagram
<1> DEFINE P == \A q \in Queues :
                  queue_length'[q] < queue_length[q] => node_tmp'[q] # Empty
<1>1. RingInv /\ [Next]_vars => [P]_vars
  <2> SUFFICES ASSUME RingInv, Next,
                      NEW q \in Queues, queue_length'[q] < queue_length[q]
               PROVE  node_tmp'[q] # Empty
    OBVIOUS
  <2> USE QueueAssumption, OneSlot
  <2>1. queue_length[q] \in 0 .. 1 /\ queue_head[q] = 0 /\ queue_length[q] # 0
    <3>1. TypeOK /\ TypeOK'
      BY StepTypeInv DEF RingInv, TypeInv
    <3>2. queue_length[q] \in 0 .. 1 /\ queue_length'[q] \in 0 .. 1
      BY <3>1 DEF TypeOK
    <3>3. queue_head[q] = 0
      BY <3>1 DEF TypeOK
    <3> QED BY <3>2, <3>3
  <2>2. CASE Dequeue(q)
    BY <2>1, <2>2 DEF Dequeue, HeadDatagram, RingInv, SlotInv, TypeInv, TypeOK
  <2>3. ASSUME NEW r \in Queues, r # q, Dequeue(r) PROVE FALSE
    BY <2>3, <2>1 DEF Dequeue, RingInv, TypeInv, TypeOK
  <2>4. CASE Publish
    BY <2>4, <2>1 DEF Publish, LengthAfterPublish, RingInv, TypeInv, TypeOK
  <2>5. CASE UNCHANGED queue_length
    BY <2>5, <2>1
  <2> QED
    BY <2>2, <2>3, <2>4, <2>5
    DEF Next, Callback, Worker, Process, Readable, ChooseQueue, ReadLength,
        ReadTail, Recv, rings
<1> QED
  BY RingInvariant, <1>1, PTL DEF Spec, TakesRealDatagram

-----------------------------------------------------------------------------
(* The rings implement bounded FIFO channels.                                  *)

\* What a ring of one slot holds, as a sequence.
LEMMA OneSlotSequence ==
  ASSUME NodeMax = 1, NEW node, NEW len \in 0 .. 1
  PROVE  [i \in 1 .. len |-> node[(0 + i - 1) % NodeMax]]
           = IF len = 0 THEN <<>> ELSE <<node[0]>>
<1>1. CASE len = 0
  BY <1>1
<1>2. CASE len = 1
  BY <1>2
<1> QED BY <1>1, <1>2

\* What a ring of one slot publishes, from its length and its slot.
LEMMA PublishedOneSlot ==
  ASSUME NodeMax = 1, TypeOK, NEW q \in Queues
  PROVE  Published(q) = IF queue_length[q] = 0 THEN <<>>
                        ELSE <<queue_node[q][0]>>
<1>1. queue_length[q] \in 0 .. 1 /\ queue_head[q] = 0
  BY OneSlot DEF TypeOK
<1> QED
  BY <1>1, OneSlotSequence DEF Published

\* The same of the state after a step.
LEMMA PublishedOneSlotNext ==
  ASSUME NodeMax = 1, TypeOK', NEW q \in Queues
  PROVE  Published(q)' = IF queue_length'[q] = 0 THEN <<>>
                         ELSE <<queue_node'[q][0]>>
<1>1. queue_length'[q] \in 0 .. 1 /\ queue_head'[q] = 0
  BY OneSlot DEF TypeOK
<1> QED
  BY <1>1, OneSlotSequence DEF Published

\* The state of the channels that a state of the rings stands for.
Accepted == IF pc = "publish" THEN received - 1 ELSE received
Chan     == [q \in Queues |-> Published(q)]

\* A step that leaves alone what is published and in the workers' hands is a
\* stutter of the channels.
LEMMA Stutter ==
  ASSUME NodeMax = 1, TypeOK, TypeOK', queue_length' = queue_length,
         \A q \in Queues :
           queue_length[q] # 0 => queue_node'[q][0] = queue_node[q][0]
  PROVE  Chan' = Chan
<1>1. ASSUME NEW q \in Queues PROVE Published(q)' = Published(q)
  BY <1>1, PublishedOneSlot, PublishedOneSlotNext
<1> QED BY <1>1 DEF Chan

\* Taking the only datagram leaves the empty channel.
LEMMA TailOfOne ==
  ASSUME NEW x
  PROVE  Tail(<<x>>) = <<>>
<1>1. <<x>> \in Seq({x}) /\ <<x>> # <<>>
  OBVIOUS
<1>2. Tail(<<x>>) \in Seq({x}) /\ Len(Tail(<<x>>)) = 0
  BY <1>1, HeadTailProperties
<1> QED BY <1>2, EmptySeq

\* Each step is a step of the channels or leaves them alone: Publish accepts a
\* datagram, Dequeue takes one, Process finishes one.
LEMMA StepRefines ==
  ASSUME NodeMax = 1, RingInv, RingInv', [Next]_vars
  PROVE  [Fifo!Next]_(Fifo!vars)
<1> USE QueueAssumption
<1>1. TypeOK /\ TypeOK'
  BY DEF RingInv, TypeInv
<1>2. ASSUME UNCHANGED <<queue_length, queue_node, node_tmp>>, Accepted' = Accepted
      PROVE  UNCHANGED Fifo!vars
  <2>1. Chan' = Chan
    BY <1>1, <1>2, Stutter
  <2> QED BY <1>2, <2>1 DEF Fifo!vars, Chan, Accepted
<1>3. CASE Readable
  BY <1>2, <1>3 DEF Readable, rings, Accepted
<1>4. CASE ChooseQueue
  BY <1>2, <1>4 DEF ChooseQueue, rings, Accepted
<1>5. CASE ReadLength
  BY <1>2, <1>5 DEF ReadLength, rings, Accepted
<1>6. CASE ReadTail
  BY <1>2, <1>6 DEF ReadTail, rings, Accepted
<1>7. CASE Recv
  <2>1. Accepted' = Accepted
    BY <1>1, <1>7 DEF Recv, Accepted, TypeOK
  <2>2. ASSUME NEW q \in Queues, queue_length[q] # 0
        PROVE  queue_node'[q][0] = queue_node[q][0]
    <3>1. q # g_queue_gtpv2_curr
      BY <1>7, <2>2 DEF Recv, RingInv, TypeInv, TypeOK, RoomToPublish
    <3> QED BY <1>1, <1>7, <3>1 DEF Recv, TypeOK
  <2>3. Chan' = Chan
    BY <1>1, <1>7, <2>2, Stutter DEF Recv
  <2> QED BY <1>7, <2>1, <2>3 DEF Fifo!vars, Chan, Accepted, Recv
<1>8. CASE Publish
  <2> PICK q \in Queues : q = g_queue_gtpv2_curr
    BY <1>1 DEF TypeOK
  <2>1. queue_length[q] = 0
    BY <1>1, <1>8 DEF Publish, RingInv, TypeInv, TypeOK, RoomToPublish
  <2>2. Published(q) = <<>>
    BY <1>1, <2>1, PublishedOneSlot
  <2>3. queue_length'[q] = 1 /\ queue_node'[q][0] = received
    BY <1>1, <1>8, <2>1 DEF Publish, LengthAfterPublish, RingInv, SlotInv, TypeOK
  <2>4. Published(q)' = <<received>>
    BY <1>1, <2>1, <2>3, PublishedOneSlotNext
  <2>5. ASSUME NEW r \in Queues, r # q PROVE Published(r)' = Published(r)
    <3>1. queue_length'[r] = queue_length[r] /\ queue_node'[r] = queue_node[r]
      BY <1>1, <1>8, <2>5 DEF Publish, TypeOK
    <3> QED BY <1>1, <3>1, PublishedOneSlot, PublishedOneSlotNext
  <2>6. Accepted' = Accepted + 1 /\ Accepted + 1 = received
    BY <1>1, <1>8 DEF Publish, Accepted, TypeOK
  <2>7. Chan' = [Chan EXCEPT ![q] = Append(@, Accepted + 1)]
    <3>1. Append(Chan[q], Accepted + 1) = <<received>>
      BY <2>1, <2>2, <2>6 DEF Chan
    <3> QED BY <2>1, <2>4, <2>5, <3>1 DEF Chan
  <2>8. Len(Chan[q]) < NodeMax
    BY <2>1, <2>2 DEF Chan
  <2>9. Fifo!Accept(q)
    BY <1>8, <2>6, <2>7, <2>8 DEF Fifo!Accept, Publish, Chan, Accepted
  <2> QED BY <2>1, <2>9 DEF Fifo!Next
<1>9. ASSUME NEW q \in Queues, Dequeue(q) PROVE Fifo!Next
  <2>1. queue_length[q] = 1 /\ queue_head[q] = 0
    BY <1>1, <1>9, OneSlot DEF Dequeue, HasDatagram, TypeOK
  <2>2. Published(q) = <<queue_node[q][0]>>
    BY <1>1, <2>1, PublishedOneSlot
  <2>3. queue_length'[q] = 0 /\ node_tmp'[q] = queue_node[q][0]
    BY <1>1, <1>9, <2>1 DEF Dequeue, LengthAfterTake, HeadDatagram, TypeOK
  <2>4. Published(q)' = <<>>
    BY <1>1, <2>3, PublishedOneSlotNext
  <2>5. ASSUME NEW r \in Queues, r # q PROVE Published(r)' = Published(r)
    <3>1. queue_length'[r] = queue_length[r] /\ queue_node'[r] = queue_node[r]
      BY <1>1, <1>9, <2>5 DEF Dequeue, TypeOK
    <3> QED BY <1>1, <3>1, PublishedOneSlot, PublishedOneSlotNext
  <2>6. Chan' = [Chan EXCEPT ![q] = Tail(@)]
    <3>1. Tail(Chan[q]) = <<>>
      BY <2>2, TailOfOne DEF Chan
    <3> QED BY <2>4, <2>5, <3>1 DEF Chan
  <2>7. node_tmp' = [node_tmp EXCEPT ![q] = Head(Chan[q])]
    <3>1. Head(Chan[q]) = queue_node[q][0]
      BY <2>2 DEF Chan
    <3> QED BY <1>9, <2>1, <3>1 DEF Dequeue, HeadDatagram
  <2>8. Chan[q] # <<>> /\ node_tmp[q] = Empty
    BY <1>9, <2>2 DEF Chan, Dequeue
  <2>9. Fifo!Take(q)
    BY <1>9, <2>6, <2>7, <2>8 DEF Fifo!Take, Dequeue, Chan, Accepted
  <2> QED BY <2>9 DEF Fifo!Next
<1>10. ASSUME NEW q \in Queues, Process(q) PROVE Fifo!Next
  <2>1. Chan' = Chan
    BY <1>1, <1>10, Stutter DEF Process, rings
  <2>2. Fifo!Finish(q)
    BY <1>10, <2>1 DEF Process, BufferAfter, Fifo!Finish, Chan, Accepted, rings
  <2> QED BY <2>2 DEF Fifo!Next
<1>11. CASE UNCHANGED vars
  BY <1>2, <1>11 DEF vars, rings, Accepted
<1> QED
  BY <1>3, <1>4, <1>5, <1>6, <1>7, <1>8, <1>9, <1>10, <1>11
  DEF Next, Callback, Worker

\* With rings of one slot the receive path is a set of bounded FIFO channels:
\* what the event loop and the workers do to the rings, unlocked reads
\* included, nobody can tell from DatagramFifo.
THEOREM ImplementsFifo ==
  ASSUME NodeMax = 1
  PROVE  Spec => FifoSpec
<1>1. Init => Fifo!Init
  <2> SUFFICES ASSUME Init PROVE Fifo!Init
    OBVIOUS
  <2>1. TypeOK
    BY InitTypeInv DEF TypeInv
  <2>2. ASSUME NEW q \in Queues PROVE Published(q) = <<>>
    BY <2>1, <2>2, PublishedOneSlot DEF Init
  <2> QED BY <2>2 DEF Fifo!Init, Init
<1>2. RingInv /\ RingInv' /\ [Next]_vars => [Fifo!Next]_(Fifo!vars)
  BY StepRefines
<1> QED
  BY RingInvariant, <1>1, <1>2, PTL DEF Spec, FifoSpec, Fifo!Spec
=============================================================================
