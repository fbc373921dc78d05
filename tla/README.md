# nwEPC packet gateway: a TLA+ model

This directory holds the formal model of the EPC gateway in `src/`: TLA+ modules
translated from its C code, configurations with which TLC checks them on small
instances, and proofs that TLAPS checks for every value of the constants. Paths
below are relative to `src/`; `PROJECT.json` names the source lines behind every
definition.

    tlc -workers 2 -config PgwSession.cfg MCPgwSession   # one run
    tlapm Gtpv2cTrxn_proofs.tla                          # one proof module

## 1. The system

The program is a GTPv2-C/GTP-U packet gateway. `nw-sae-gw/NwSaeGwMain.c` creates
one PGW upper layer, the receive queues and their mutexes, the UDP worker threads,
and then runs the event loop. The code for an SGW is linked, and never instantiated:
`nwSaeGwUlpInitialize` asserts that the role is PGW. The events of the data plane
sockets are commented out (`NwSaeGwMain.c:341-342`), so the program signals sessions
and programs flows, and receives no user packet.

Threads: the *event loop* reads the GTP-C socket and runs timers; `NUM_QUEUE_GTPV2_NUMBER` (2)
*workers* each serve one receive queue and run stack, session control and data
plane set-up to completion; each answer is sent by a *thread of its own*
(`NwGtpv2cIf.c:292-343`).

| Component (source) | State it keeps | Operations | Interacts with |
|---|---|---|---|
| GTP-C receive queues (`linker_queue.*`, `linker_pthread.c`, `utils/nw-gtpv2c-if`) | rings with length, head, tail, slots; the current ring | read callback, worker loop, send | event loop and workers share the rings, partly without the mutex; workers call the stack |
| GTPv2-C transactions (`nw-gtpv2c/src/NwGtpv2cTrxn.c`, `NwGtpv2c.c`) | outstanding requests, received requests with their answers, sequence number | initial request, answer, retransmission, duplicate detection, hold timeout | peers over UDP; indications to session control; timers |
| GTPv2-C tunnels (`NwGtpv2cTunnel.c`, `NwGtpv2c.c:485-558`) | map TEID to session, pool of chunks | create, delete, look up | session control creates and deletes them through the stack |
| GTPv2-C timers (`NwGtpv2c.c:108-225`, `1494-1825`; `utils/nw-tmr`) | heap of pending timers, active timer, pool | start, stop, timeout | workers start them, the event loop runs them |
| Messages and IEs (`NwGtpv2cMsg*.c`) | tables of IEs, message blocks | build, parse, read | stack and session control |
| PGW session control (`NwSaeGwUlp.c`, `NwSaeGwUe*.c`) | UE blocks, registry by IMSI, state machine | create, delete, unexpected event, register, bearer installation | stack, address pool, data plane |
| SGW session control (the same files) | two registries, S11 and S5 tunnels, flows, waiting requests | create, modify, delete, answers and silence of PGWs, collocated PGW | MME, PGWs |
| Address pool (`utils/nw-ippool`) | free list | allocate, free | session control |
| Memory manager (`common/NwMem.c`) | lists of freed blocks by size | allocate, free | everybody |
| Data plane (`nw-sdp`, `nw-gtpv1u`, `nw-ipv4`, `NwSaeGwDpe.c`) | flow contexts, GTP-U end points by TEID, IPv4 end points by address, ARP table | create and remove flows; packets, echo, error indication, ARP | session control; sockets |
| GRE (`nw-gre`) | end points by key, requests | end points, packets, requests | the data plane on demand; a test program |
| Event engine (`nw-event`) | timer heap, descriptors, active queue | add, start, stop, restart, destroy; loop | stack (through `utils/nw-tmr`), sockets |
| Start-up (`NwSaeGwMain.c`, constructors), test programs | which field of which object has been set | options, construction, registration | all |

### What is hard

* The rings are filled in place by `recvfrom` at a slot computed from fields read
  without the mutex (`NwGtpv2cIf.c:136-146`).
* Several workers run session control at the same time. Registry, address pool,
  tunnel map and data plane maps have mutexes of their own; a session is a
  sequence of steps under different ones, and the pools of tunnels and of end points
  have none (`NwGtpv2cTunnel.c:55`, `NwGtpv1uTunnelEndPoint.c:103`).
* A session that cannot be created has to undo what was done; a UE block that is
  freed is the next one that is handed out, and its address is its TEID.
* UDP loses, duplicates, delays and reorders. Requests are repeated, copies arrive
  at different workers, and answers must be found again until the hold timer ends.
* Timers are taken from the middle of a heap by the place they remember; the event
  engine times only the first of them; callbacks start timers.
* Blocks of every kind are used again with what they held before: pointers to IEs,
  retries of a request, octets of a message, fields of a stack.

### What makes each component correct

* Receive queues: no datagram is overwritten, lost or processed twice; order is
  kept within a queue; everything received is processed.
* Sessions: registry, address pool, tunnels and flows agree with each other
  whenever nobody is at work on a session; the peers' view is true; no assertion
  fails; rejections have a reason and errors are answered as errors.
* Tunnels, end points and flow contexts: a block has one owner, none is lost, and
  each TEID and address leads to its own session or flow.
* Transactions: a request ends once; an answer answers this very request; nothing
  is executed again while its answer is remembered.
* Timers and events: the earliest comes first; stopping a timer stops that one; none
  comes early, too late or for an owner that is gone.
* Messages: what one half writes the other half understands; a parsed message
  contains what was in the octets and nothing of an earlier one.
* Programs: nothing is used before it was set.

## 2. Modules

| Module | Models | Correspondence |
|---|---|---|
| `DatagramFifo` | the promise of the receive path | abstract: bounded FIFO channels |
| `GtpcRxQueue` | rings, callback, workers | one action for each locked block and each unlocked read; `Callback` is `nwGtpv2cIfDataIndicationCallback`, `Dequeue`/`Process` the loop of `pgw_thread_udp_hander` |
| `PgwSession` | PGW session control with registry, address pool, UE blocks, tunnels and flows | one action for each locked block or unlocked look at shared state, in the order of the code; `pc` is the place in the call chain that begins at `nwSaeGwUlpPgwS5GtpcStackIndication` |
| `SgwSession` | SGW session control, with an MME and PGWs around it | a handler is an operator from a state of the program to the next (nothing runs it concurrently) and one step: `MmeRequest` (S11), `PgwAnswer` (S5, also silence), `PgwRequest`; `env` says how the environment behaves |
| `Gtpv2cTunnel` | the pool and map of tunnels, read by read | `ReadHead` ... `Fill` are `nwGtpv2cTunnelNew`, `LinkChunk`/`GiveBack` are `nwGtpv2cTunnelDelete`, `Insert`/`Remove` are the stack's locked use of the map |
| `RemoteCall` | the promise of transactions to the sender | abstract: called, executed, answered or failed |
| `Gtpv2cTrxn` | peers, network, received transactions, hold timer | an action is a handler, cut where a mutex is released |
| `TimerQueue` | the promise of a timer heap | abstract: a set of pending timers, a look yields an earliest one |
| `TimerHeap` | the binary heap of `NwGtpv2c.c` and of `NwEvent.c` | an action is one iteration of a loop, so that the states in between are seen |
| `Gtpv2cTimer` | starting, stopping and running out timers of transactions, with the active timer, the pool of blocks, the event and the loop | one action for each use of heap, pool, active timer or event engine |
| `Gtpv2cMsg` | message blocks, building IE by IE, the parser with its tables, reading of parsed IEs | a buffer is the sequence of IE headers with their octets; readers walk it by the lengths that they find |
| `SessionMsgs` | what each state of a gateway writes into its messages and reads from them | one operator for each sending and receiving function; uses `Gtpv2cMsg` |
| `DataPlane` | flows, end points, their pools and maps, packets, echo, ARP | workers step by step where there is no mutex; a packet is one step |
| `PathTrxn` | requests of GTP-U on a path (GRE has the same code) | request, timeout, pools |
| `Gre` | GRE end points and packets, with `PathTrxn` | one action for each call of the user, packet or timeout |
| `EventEngine` | `NwEvent.c` under a running program | the phases of the loop, and what callbacks may call |
| `Startup` | constructors and options of all programs | a function is the sequence of its steps: the fields it reads and sets |
| `GtpcPrograms` | `nw-egtping` and the GTP-C hello program on the stack | one step for each event of their loop |
| `Process` | a program from `main` to its loop | composes the last three |
| `MC...` | symmetry for TLC | |
| `..._proofs` | theorems and proofs | |

Composition: `GtpcRxQueue` delivers what the network of `Gtpv2cTrxn` takes to a
worker; `Gtpv2cTrxn` indicates what `PgwSession.Receive` begins with; `PgwSession`
uses `tunnelMap`, `teidMap` and `ipv4AddrMap` as sets, `Gtpv2cTunnel` and `DataPlane`
show what is below them; the t3 and hold counters of `Gtpv2cTrxn` stand for timers of
`Gtpv2cTimer`, whose two heaps are sets because `TimerHeap` implements a queue.
`SessionMsgs` extends `Gtpv2cMsg`, `Gre` extends `PathTrxn`, and `Process` extends
`Startup`, `EventEngine` and `GtpcPrograms` and runs them one in the other. Refinements
are stated by `INSTANCE ... WITH` in the detailed module: `GtpcRxQueue` implements
`DatagramFifo` (`FifoSpec`), `Gtpv2cTrxn` implements `RemoteCall` (`CallSpec`),
`TimerHeap` implements `TimerQueue` (`QueueSpec`).

A definition `FaultyX` before a definition `X` is a plausible mistake in `X`. No
specification uses one. Put in the place of `X` it makes TLC find a violation;
`PROJECT.json` lists which property each of them breaks ("mutants"). The `TypeOK` of a
module documents its variables; eight of them are proved, no run lists them.

### Abstractions to know about

* A step of a worker ends where it releases a mutex or looks at unlocked shared
  state. What happens in between concerns its own UE and request only.
* A failed `NW_ASSERT` (plain `assert`), a null dereference and a use of freed
  memory that corrupts a list set `aborted`, after which nothing happens.
* `PgwSession` takes the pools of tunnels and end points to be atomic; the races inside
  them are the subject of `Gtpv2cTunnel` and `DataPlane`. A use of a freed UE block reads
  the content it had, which is what the memory manager leaves; when no worker is on the
  block its content is dropped from the state, because nothing can read it.
* `PgwSession` and `SgwSession` separate the outcomes of parsing and not the bytes;
  `Gtpv2cMsg` has type, instance, length and the words of a value that somebody reads.
* `Gtpv2cTrxn` counts time in units of T3 (2 s). A timer that is due is handled
  before the next tick, in any order with everything else. Each peer runs the same
  stack in one thread and has one session. `SeqNums` bounds the requests of a peer; the
  wrap of the sequence number is part of `GtpcPrograms` and `PathTrxn`.
* `PathTrxn` keeps the tree of outstanding requests (`NwGtpv1u.c:413`, `NwGre.c:331`) as a
  set. The code never takes a transaction out of it, links one that is used again a second
  time, and never looks one up. With two transactions it stays a tree all the same. With
  three and numbers that have wrapped it can become circular, which a set does not show.
* The length field of a GTP-U header, the number of the message with its header octets
  (`NwGtpv1u.c:180`), is not modelled; nothing in the model reads it.
* A PGW of `SgwSession` that misbehaves may name any of the bearers 4, 5 and 6 in its
  answer, not one beyond the array of bearers.
* In `TimerHeap` the array begins with null entries; in the code it is not cleared,
  but no place is read before it is written. The event engine's copy has no check
  for a full heap: `HasRoom` is then an assumption on its size.
* `Startup` looks at which fields are read and set, not at their values, and follows
  a program through its first event.

## 3. Runs

| Run | Instance | Checks | Shows |
|---|---|---|---|
| `GtpcRxQueue` (942 states) | 2 rings of 1 slot, 5 datagrams | `NoOverwrite FifoSpec AllProcessed` | the unlocked reads are harmless and the receive path is a set of FIFO channels in which everything is processed |
| `PgwSession` (601 918 up to symmetry) | 2 workers, 2 IMSIs, 2 peers, 4 blocks, bearers 4, 5, 6, at most 2 usable addresses, every kind of request | `SessionsComplete AddressesConserved FlowsBelongToSessions PeersViewIsTrue NoAssertionFails RejectedForAReason` | interleaved sessions of well-behaved peers stay apart; registry, pool and tunnels survive what peers should not send |
| `SgwSession` (372 309 up to symmetry) | 2 UEs, 5 tunnels, 2 requests at a time, 2 eNodeBs, one fault | `RegistryAgrees OneSessionPerImsi MmeViewIsTrue NoRequestForgotten` | the registries are right in every case; for an MME that behaves its sessions, tunnels and flows are what it was told |
| `Gtpv2cTunnel` (5 236) | 1 worker, 3 chunks, 3 TEIDs | `OneOwner NothingLeaks TunnelsLeadHome` | pool and map work as they were written to |
| `TimerHeap` (13 329 up to symmetry) | 7 timers, room for 6, times 0 and 1 | `HeapOrder IndexesAgree QueueSpec` | the heap is a priority queue and stays within its array |
| `Gtpv2cTimer` (13 607) | 2 transactions, 3 blocks, 2 events, T3 2, hold 4, fairness | `TimersBelong NeverEarly LateByOneTimer EveryTimerExpires` | one event serves all timers; a callback that overtakes a timer delays it by its own at most |
| `Gtpv2cTrxn` (420 832) | 2 peers with the same sequence number, 1 worker, any network, fairness | `CallSpec NotAgainWhileHeld OnlyDuplicatesRepeated EveryCallEnds` | requests are remote calls; no peer is taken for the other; every call ends |
| `SessionMsgs` (185 323) | 1 block, every message, whole, cut off or odd | `ParseIsReference MessagesUnderstood FieldsArrive` | the parser finds what a declarative reading of the message finds; what the gateway sends the gateway understands |
| `DataPlane` (1 340 479 up to symmetry) | 1 worker, 2 contexts, 2 end points per stack, 2 addresses, 2 peers, packets | `EndPointsLeadToFlows NothingLeaks PacketsFollowFlows` | flows are created, refused and destroyed whole; packets follow their own flow |
| `Gre` (487 542) | 2 sessions, 2 keys, 2 requests, numbers wrap at 2, fairness | `PayloadsArrive FailsAfterFourTries EveryRequestFails` | payloads arrive whatever the header contains; requests end, with the same octets in each try |
| `Process` (256 809) | all programs, 2 timers, 2 descriptors, pings 0, 1, 2 and endless, numbers wrap at 3, fairness | `NothingElseUnset EventsHaveOwners PingGoesOn EveryEventServed` | only the listed fields are read unset; the engine serves everything and nothing that is gone; pinging goes on to its end |

One run finds a violation, a disagreement between what the code says of itself and
what it does (section 5): `PgwSessionUnparsable`.

### Bounds, and why they are enough

* `NodeMax = 1`: this is what `linker_queue.h` computes (3/2 with integers). Two
  rings make the producer go round; five datagrams fill both rings and both
  workers' hands with one left. The properties do depend on it: with two slots TLC finds
  a behaviour in which the producer reads the length, a worker empties the ring, and the
  producer fills the slot after the one that it then publishes; a worker is handed a
  zeroed slot. Anyone who enlarges the rings has to read length and tail under the mutex.
* `StartIp = 254, EndIp = 257`: of the addresses .254, .255, .0 and .1 two are dropped
  by the allocator and two are usable, one for each IMSI. Where requests come one at a
  time the pool may also end earlier, with one usable address, so that it runs dry. Two
  workers never race for the *last* address: both would see it on the list without the
  mutex (`NwIpv4PoolMgr.c:96`), and one dereferences null.
* Blocks: more than the sessions that can be open, so that reuse of a freed
  block and a fresh one both happen.
* Bearer identities 4, 5 and 6 lie on both sides of the check `> 4` and of the
  constant 5 in the handler that deletes.
* `orderly`, chosen at the start: peers address sessions that they have seen opened,
  have one request per session and per IMSI under way, and number bearers up to 5.
  Otherwise requests of any kind come, in any order, while the PGW is idle. Without this
  two concurrent Delete Session Requests for one session work on one UE block, which
  ends in an assertion; the documents of the repository promise nothing there.
* `env` of `SgwSession`: an orderly MME and PGWs that accept; or are silent; or anything,
  `MaxFaults` times in a behaviour. Two UEs, requests and eNodeBs suffice for a second
  session of one IMSI, a hand-over and a late answer; one address makes the collocated
  PGW run out. Each UE has at most a tunnel on S11 and one on S5; the fifth tunnel is
  there so that a new one never fails for want of memory, as in the code
  (`SgwAssumption` asks it for any number of UEs).
* Seven timers in a heap for six: with six the last place lies under one child of the
  top and the first place of the last row under the other, which is the smallest
  heap in which a removal makes a timer rise. Two times give equal and different
  ones.
* `Gtpv2cTimer`: two transactions and one block more than they need; T3 and hold time
  differ, so that a later timer can overtake an earlier one. `Workers = {}`: the module
  has the steps of worker threads, but nothing keeps active timer, block and event
  together when two threads are in the middle of a call. With one worker and three events
  TLC finds `NeverEarly` violated (section 5). The theorems say what is left for workers:
  everything, as long as one thread at a time is inside a call. Time stops while a timer is late by more than T3,
  which bounds the state and is not reached.
* `Gtpv2cTunnel`, `DataPlane`: one worker, because two race for the pools (section 5).
* Two peers with sequence number 0 are what the key of the transaction tree has to
  tell apart. Late copies of one request that meet a later request of the same peer,
  and several workers, are covered by the theorems, which hold for any set of sequence
  numbers and workers. `executions` counts to 2 and `sinceAnswer` to `Hold`; the
  properties ask for no more.
* `Prompt` (a worker that has found a duplicate looks into the transaction before the
  event loop deletes it) is an assumption. `Prompt = FALSE` lets the worker send whatever
  freed memory may hold; the theorems but `ImplementsRemoteCall` do without it.
* `SessionMsgs`: one block, so that each message is parsed over what the last one left;
  one datagram, cut off once: the parser keeps nothing else. Two TEIDs and two
  bearers show an exchange of fields.
* `DataPlane`: as many end points as contexts, so that a pool is empty exactly when
  the contexts are; two addresses and one TEID make collisions at both stacks.
* `PathTrxn`, `Gre`: memory for all requests and one message more, and numbers that wrap
  at once; one packet on the wire, because the receiver keeps nothing of a packet.
* `Process`: a timer pool of two reuses blocks while the other timer is pending or
  queued; sequence numbers wrap at 3, which is behind the last retransmission of a
  ping; counts 0, 1 and 2 and the endless default.

`CHECK_DEADLOCK FALSE` stands where the bounds make the system stop: no datagrams, cuts
or sequence numbers left; all blocks in use or an assertion failed (`PgwSession`,
`SgwSession`, under requests that no peer should send).

### Fairness

* `GtpcRxQueue`: weak fairness of the callback once it has been called, and of each
  worker. They are threads of the operating system; the callback spins, the worker
  polls and sleeps 1 microsecond, and neither waits for the other while holding a
  mutex. Nothing is assumed of arriving datagrams.
* `Gtpv2cTrxn`: weak fairness of time, of the sender's timers that are due (the event loop
  serves them between sockets) and of workers, strong fairness of the hold timer, which
  `Prompt` holds back while a worker looks at the transaction. The network owes nothing:
  it may lose every message.
* `Gtpv2cTimer`: the event loop goes on; strong fairness of time and of the engine's two
  steps, because other threads and the owners of transactions switch them off and on for
  one step at a time, and a running `select` is not undone by that. Threads in the
  middle of a call finish it. Nobody need start or stop a timer.
* `Gre`: weak fairness of each running timer, which is what the two modules before show.
* `Process`: the program's own steps. Nothing is assumed of datagrams, callbacks or
  time.

## 4. Proofs

Every theorem holds for all values of the constants that satisfy the named `ASSUME`s
of its module (`QueueAssumption`, `HeapAssumption`, `TrxnAssumption`,
`TunnelAssumption`, `SessionAssumption`, `SgwAssumption`, `NoneAssumption`,
`TimerAssumption`, `DataPlaneAssumption`: types of the constants, finite memory, and that
`None`, `Null` or `Garbage` is nothing else). Where a theorem needs more, it says so itself.

**`GtpcRxQueue_proofs`.** `TypeCorrect` (any size of ring): `TypeInv` strengthens
`TypeOK` by *room to publish*: from the choice of a queue to the publication that
queue is not full, because only the callback makes a queue longer. `NeverOverwritten`,
`AlwaysTakesRealDatagram` and `ImplementsFifo` assume `NodeMax = 1`, the value in the
program: with one slot, room means that the ring is empty (`RingInv` adds that the slot
holds a datagram exactly from its filling to its taking). The refinement maps
`Publish`, `Dequeue`, `Process` to `Accept`, `Take`, `Finish` and the rest to stutters.

**`TimerHeap_proofs`.** `HeapExceptAtHole` is the inductive invariant: while an operation
is under way the array is a heap everywhere but at the hole (`OrderedElsewhere`), the
timers above and below the hole are in order as if it were not there
(`OrderedAcross`), once the hole has stopped sinking no timer below it is earlier than
the one in hand (`OrderedBelow`), and a hole that has sunk behind the last place need
not rise (`OrderedLast`). The delicate point is the place that a removal has just given
up: the loops still compare with it, and it still holds the timer in hand (`InHand`). `TypeCorrect`, `HeapOrdered` and `PlacesAgree` follow for any capacity
and any history. `ImplementsQueue` is the refinement of `TimerQueue`: between two
operations no timer at all is earlier than the one at the top (`TopEarliest`), because of
the places that an earlier timer has there would be a least one, and neither it is the top
nor its parent a lesser one; and the moves of a loop leave the pending timers as they are
(`PendingKept`).

**`Gtpv2cTrxn_proofs`.** `CallInv` is `TypeOK` with what everybody knows of everybody's
requests: messages under way and received transactions stem from requests that were
made, answers from requests that were executed, numbers to come are fresh, an
outstanding request is one whose end is not known. From it `TypeCorrect` (no timer
below zero, no retry counter wraps) and, if `Prompt`, `ImplementsRemoteCall`.
`HoldInv` adds that a request being executed is remembered, unanswered, and has one
executor (`OneExecutor`), and that the age of the answer and the rest of the hold timer
together make at least the hold time (`HeldForHold`); an executed request that is no
longer remembered therefore was answered the hold time ago: `NeverAgainWhileHeld`, for
any network, any number of workers, and without `Prompt`.

`OnlyExecutedRepeated` is an action property proved from `CallInv` alone, without
`Prompt`: `CallInv` contains that the request of every remembered transaction, which is
kept by peer and number, has been executed (`RxHonest`); a worker finds the transaction
by the peer and number of its own request. It holds for any number of workers, so that
the run does with one.

**`Gtpv2cTunnel_proofs`.** The free list has no mutex, so that nothing about it holds for
two workers inside it; `OneInPool` (at most one is between its read of the head and its
write) is the hypothesis that a mutex would make true. The number of workers is arbitrary,
and all else is interleaved freely. `TunnelInv` says where a chunk can be: a chunk is *in the pool* if
it has been used, no session has it and no worker holds it (`InPool`, `Out`); the head and
all successors of chunks in the pool are in the pool, each but the head has a
predecessor, no two have the same successor (`List`); chunks in hands differ from each
other and from those of sessions (`Hands`, `Sessions`); what a worker has read is still so
when it writes (`Progress`), which is where `OneInPool` is needed. `OneOwner`, `NothingLeaks`, `TunnelsLeadHome` and that the insertion
never fails follow.

**`PgwSession_proofs`.** For any number of workers, blocks, IMSIs, peers and addresses;
`SessionInv` does not even assume orderly peers. Its parts: `WorkerOK` gives, for each
place of the call chain, what the worker's UE looks like there (registered or not,
with an address or not); `BlockOK` says that the registry and the tunnel map hold
exactly the blocks that say so of themselves; `Exclusive` that no two workers have one UE, `MemOK`
that the freed blocks are free and listed once, `AddrOK` that each address is in the
free list or has one holder; `OrderlyOK` and `KnownOK` what orderly peers add. Each
step of a worker changes its own block alone (`OthersOK`, `OwnStep`), so that a
proof of a step deals with one block. From it `SessionsComplete`, `PeersViewIsTrue`,
`AddressesConserved` and the action property `RejectedForAReason`.

`FlowInv`, which rests on it, is about orderly peers: both maps of the data plane hold
exactly what the UE blocks and the places of their workers say (`HasUplink`, `HasDownlink`).
It gives `FlowsBelongToSessions`, and that each assertion along the way holds
(`NothingUnexpected`, `StillThere`, `FlowStepAll`). `NoAssertionFails` needs one thing more, that the pool is not
empty when a worker takes the address that it saw without the mutex (`PoolHolds`); that
is so for any number of workers if there is a usable address for each UE that can be in
memory (`LargePoolAssertionsHold`, by counting: the holders of the addresses are different UEs, and the worker's own has none).
With two workers and one address left it is not so (section 3).

**`Gtpv2cTimer_proofs`.** For any number of workers that start and stop timers while the
event loop runs them out, under the hypothesis that one thread at a time is inside a call
(`OneAtATime`): a thread that has begun to start, stop or run out timers finishes before
another begins; the event loop may still find its event due meanwhile. A mutex held over
the calls would make it true. The code's own guard the heap and the pool only, and
without the hypothesis TLC finds each of these properties violated with one worker
(section 5). `TimerInv` describes the agreement of heap, pool, handles and event in the middle of every call:
`Memory` says that a block that was used is in the heap, in the pool once, or in hand
(`Out`); `Owners` that the timers that live (in the heap, or taken from it and not yet
called back) are those of the transactions, one each, which have their handles and wait
for that time; `Engine` that the event engine has one event, armed or queued and not
free, for the block that is `Served` (the active one, but for the steps in which
the active timer changes); `Place` what the loop's own block is at each step, that a
timer comes out of the heap only when it is due, and that the active timer is in the heap;
`Punctual` that the timer that is watched (`Clock`) comes at most `T3` after any other,
those excepted that the loop is about to call back. The last is why a callback that
makes its own timer the active one does little harm: its time is `T3` (`Place`). `TimersBelong`,
`NeverEarly` and `LateByOneTimer` follow (what the thread inside does is `now`, whichever it is), and that no event is destroyed twice, for any
number of transactions, `T3` and `Hold`.

**`DataPlane_proofs`.** The pools of end points are as unguarded as that of the tunnels
(the GTP-U one takes its mutex to pop, not to push), so that `OneInPool` is the
hypothesis again: at most one worker is between its read of the head of a pool and its
write. `DataInv` says: the head and the links of a pool spell out a list
without repetition (`Links`) of exactly the blocks that are not in the map, not unused,
and not in the hands of a worker (`Pool`, `Taken`); `WorkerOK` what a worker's flow and end point look
like at each step, `Exclusive` that no two have the same of either; `ContextsOK` that contexts are held or
in their pool, once; `MapOK` and `FlowsOK` that flows and end points in a map point at each
other; `KeysOK` that a TEID leads to one flow, which is why the assertion of the GTP-U
stack holds (`DataPlaneNeverAborts`). Addresses need no such part: a second flow for an address is refused
its end point and goes without (`CollidedStep`). `EndPointsLeadToFlows` and `PacketsFollowFlows` follow
in a few lines; `NothingLeaks` counts blocks along the chain, for which `ChainIsList` shows
that what is reached from the head is the list, by the least place at which they would differ.

**`SgwSession_proofs`.** For any number of UEs, waiting requests, IMSIs, eNodeBs, addresses
and faults. The invariant has two layers. `Sound` needs nothing of the environment: the
list of freed blocks has no repetition (`MemoryOK`), the registries hold the live UEs that
say so of themselves (`RegistryOK`), a tunnel in a map and the UE that has it point at each
other, and free tunnels are in no map (`TunnelsOK`), and the state of a UE says which
session type, tunnels and address it has (`UeOK`). It holds between two handlers; inside
one the state of the UE at work may say what is not so yet (`SoundBut`, `Going`). Handlers are operators, so that each has a lemma
about the program that it returns, and the step of the specification is their combination.
`SessionsAreSound` is that layer, with `TypeOK`; `RegistriesAgree` follows.

`Orderly` is what holds besides while the MME behaves and the PGWs accept or are silent:
no assertion has failed; `SessionOK` gives for each state the registries, the tunnels, the
address and the endpoints of a UE, `FlowsOK` that the flows are those of such UEs, one for
each endpoint, `DistinctOK` that UEs share neither IMSI nor address; `ServesOK` says which
request of the MME a request to a PGW serves, `AnsweredOK` that each that waits is
served by one or is a deletion on which the PGW was silent, `KnownOK` that what the MME knows is so. None of these is inductive
alone: that a handler does not fail an assertion rests on the flows, those on the states,
and the states on what the MME may ask next. A handler changes one session; the rest
is kept by lemmas (`OthersKept`, `OrderlyStep`), so that the proof for a handler looks at
its own UE: what it is afterwards (`SaeReleased`, `SgwAccepted`, `Silenced`, ...), and that this
is orderly. `SessionsAreOrderly` is the result, and `SessionsAreDistinct`, `MmeIsTold`,
`RequestsAreServed` follow. What a faulty MME or PGW does to flows and requests is outside
of these three, as in the run; the first layer covers it.

Only model-checked: all liveness (`AllProcessed`, `EveryCallEnds`, `EveryTimerExpires`,
`EveryRequestFails`, `EveryEventServed`), which the prover does not do;
the parser (`Gtpv2cMsg`, `SessionMsgs`), whose recursion needs induction over data; and
`Gre`, which the gateway does not use, and `Process`, where the programs are fixed and
only timers, descriptors and counts are parameters.

## 5. Disagreements

`PgwSessionUnparsable`: a Create Session Request with a bad conditional IE is
answered with the cause Request Accepted (`NwSaeGwUeStateInit.c:959` passes the
indication's error and not the one just computed) under the comment "Send an error
response message."; the session is destroyed.

The models also show behaviour that no text of the repository contradicts, and that
a reader should know of. Each is excluded from a property or an instance, by name, and
listed as a hazard:

* The handler that deletes a session removes the flows of bearer 5
  (`NwSaeGwUeStatePgwSessionCreated.c:172`), whatever bearer was created. The end point
  left behind trips the collision assertion of GTP-U when the next UE gets the block.
* With two workers the unguarded pools give one block to both: the insertions fail that
  are asserted to succeed (`NwGtpv2c.c:515`, `NwGtpv1u.c:327`).
* The tunnel is looked up before the request is recognised as a duplicate
  (`NwGtpv2c.c:966-990`): when the answer to a Delete Session Request is lost, its
  copies are discarded and the sender ends with a timeout.
* The hold time equals the span of the sender's retransmissions (`NwGtpv2cTrxn.c:185`,
  both T3 times N3). A last copy that travels longer than the first one is executed
  again. `NotAgainWhileHeld` says exactly what is guaranteed.
* A timer block is given back before its callback is read from it (`NwGtpv2c.c:1513`):
  a worker that takes the block meanwhile gets its own callback at once.
* The SGW reports a session that the PGW rejected as accepted
  (`NwSaeGwUeStateAwaitPgwCreateSessionRsp.c:557`), does not answer the MME when the PGW
  does not answer a deletion (`NwSaeGwUeStateAwaitPgwDeleteSessionRsp.c:178`), and leaves
  a UE in memory that it has deregistered (`NwSaeGwUeStateSgwSessionEstablished.c:558`).
* A rejected session carries no bearer context and fails the receiver's table
  (`MessagesUnderstood` excepts it).
* GTP-U and GRE ignore echo responses (`NwGtpv1u.c:781`): each request fails after its
  tries. A flow whose IPv4 end point collides is created without it (`NwSdp.c:164`).
* `nw-egtping` sends one ping more than its count.
* Fields read before they are set (`Forgotten` in `Startup`): the mutex of the memory
  manager, the SGW addresses of the configuration, the TEID maps of GTP-U and GRE, memory
  managers in two test programs, and the stacks of the data plane when `--gtpu-ip` or
  `--sgi-if` is not given.

## 6. Not modelled

* The states of the SGW that wait for a Modify Bearer Response. The first is entered only
  for a Create Session Request with the flag OI (`NwSaeGwUeStateInit.c:1112-1123`, marked
  TODO), with which an MME moves a session to another SGW, the second by nothing.
* Triggered and command requests of the GTPv2-C stack, which nothing sends.
* `nwEventLoopOnce`, `nwEventPriorityInit` and events for writing: not called. Two
  threads inside the event engine: its heap has no mutex, a worker's timer does not
  wake `select`; what can be said there is that nothing holds.
* The `Finalize` functions, which the programs never reach.
* Superseded variants of the timer functions in `NwGtpv2c.c` (`nwGtpv2cProcessTimeoutOld`
  and its like), which are compiled and never called.
* Octets below the words of an IE; instance 4 of an IE, which the parser lets through;
  getters that nobody calls; the IE functions of GRE, which nobody calls either.
* ICMP and DHCP, which are logged and dropped; GRE services of a flow.
* `NwUdp.c`, which is not linked into the gateway; sockets are the networks of the models.
* The hello program of the data plane does not compile against `NwSdp.h`; those of
  GTP-U, GRE and IPv4 are followed up to their loop.
* Size classes of the memory manager and the status of a fresh chunk; CPU binding;
  worker threads for IPv4 and GTP-U, which are not created; logging;
  `nw-mme-emu`, which is empty.

## 7. What is left

1. `SessionDirectory`: an abstract module (which IMSI has which address) that
   `PgwSession` implements.
2. Runs with workers in `Gtpv2cTimer`, and with two in `DataPlane`, once the code has
   mutexes there; the steps are in the modules, and `OneAtATime` and `OneInPool` of the
   proofs are what the mutexes have to give.
3. That an answered request is forgotten in the end, with two peers: too large
   for TLC together with the rest of `Gtpv2cTrxn`.
