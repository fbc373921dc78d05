----------------------------- MODULE Gtpv2cTrxn -----------------------------
(***************************************************************************)
(* The transactions of the GTPv2-C stack: peers send requests to the PGW   *)
(* over a network that loses, duplicates, delays and reorders messages.    *)
(* The stack of the sender repeats a request until it is answered; the     *)
(* stack of the PGW remembers the requests it has received, so as not to   *)
(* execute a repeated one again but to answer it again.                    *)
(*                                                                         *)
(* The peers run the same stack, each in one thread.  The PGW handles      *)
(* messages in several worker threads, and hold timers in its event loop;  *)
(* a step is what a thread does under one mutex.                           *)
(*                                                                         *)
(* Time passes in ticks of one T3 (t3Timer, 2 s).  A timer that is due is  *)
(* handled before the next tick, in any order with everything else that    *)
(* happens in between.                                                     *)
(***************************************************************************)
EXTENDS Naturals

CONSTANTS
  Peers,
  SeqNums,      \* bound: the sequence numbers of the requests of one peer,
                \* 0 .. n: the counter, which wraps at 0x800000, does not here
  Ops,          \* what is requested: "create", "delete" or "other"
  Workers,      \* the PGW's worker threads
  Prompt,       \* TRUE: a worker that has found a transaction looks into it
                \* before the event loop deletes that transaction
  None

ASSUME TrxnAssumption ==
  /\ SeqNums \subseteq Nat
  /\ Ops \subseteq {"create", "delete", "other"}
  /\ Prompt \in BOOLEAN

\* A request: its sender and its sequence number.
Requests == Peers \X SeqNums

Peer(r) == r[1]

maxRetries == 2           \* of every new transaction
T3   == 1
Hold == T3 * maxRetries   \* the duplicate request wait timer

VARIABLES
  \* The peers
  seqNum,                  \* per peer: the next sequence number
  outstandingTxSeqNumMap,  \* per request: its transaction, or None
  status,                  \* per request: what the upper layer has been told
  \* The network
  net,                     \* messages under way
  \* The PGW
  outstandingRxSeqNumMap,  \* per key: the transaction, or None
  tunnelMap,               \* the peers that have a session
  pc, request,             \* per worker: where it is, the request it handles
  executions,              \* history: how often each request was executed, up to 2
  sinceAnswer              \* history: ticks since it was last answered, up to Hold;
                           \* None if it has not been since it was last executed

peers == <<seqNum, outstandingTxSeqNumMap, status>>
pgw   == <<outstandingRxSeqNumMap, tunnelMap, pc, request, executions>>
vars  == <<peers, net, pgw, sinceAnswer>>

TxTrxn == [op : Ops, retries : 0 .. maxRetries, t3 : 0 .. T3]

\* pMsg is None until the request is answered; then the hold timer runs.
RxTrxn == [pMsg : Requests \cup {None}, hold : 0 .. Hold]

\* What a worker is given: the request, and what it asks for.
Job == [of : Requests, op : Ops]

ASSUME NoneAssumption ==
  None \notin Requests \cup TxTrxn \cup RxTrxn \cup Job \cup 0 .. Hold

\* An answer is known by the request that it answers.
Req(r, op) == [type |-> "req", request |-> r, op |-> op]
Rsp(to, r) == [type |-> "rsp", to |-> to, request |-> r]

Message ==
  [type : {"req"}, request : Requests, op : Ops]
    \cup [type : {"rsp"}, to : Peers, request : Requests]

FaultyKey(r) == <<CHOOSE p \in Peers : TRUE, r[2]>>   \* the sequence number alone

\* What the tree of received requests compares: sequence number, address, port.
Key(r) == r

Init ==
  /\ seqNum = [p \in Peers |-> 0]
  /\ outstandingTxSeqNumMap = [r \in Requests |-> None]
  /\ status = [r \in Requests |-> "none"]
  /\ net = {}
  /\ outstandingRxSeqNumMap = [k \in Requests |-> None]
  /\ tunnelMap = {}
  /\ pc = [w \in Workers |-> "idle"]
  /\ request = [w \in Workers |-> None]
  /\ executions = [r \in Requests |-> 0]
  /\ sinceAnswer = [r \in Requests |-> None]

TypeOK ==
  /\ seqNum \in [Peers -> Nat]
  /\ outstandingTxSeqNumMap \in [Requests -> TxTrxn \cup {None}]
  /\ status \in [Requests -> {"none", "called", "answered", "failed"}]
  /\ net \subseteq Message
  /\ outstandingRxSeqNumMap \in [Requests -> RxTrxn \cup {None}]
  /\ tunnelMap \subseteq Peers
  /\ pc \in [Workers -> {"idle", "insert", "repeat", "send", "remember", "session"}]
  /\ request \in [Workers -> Job \cup {None}]
  /\ executions \in [Requests -> 0 .. 2]
  /\ sinceAnswer \in [Requests -> (0 .. Hold) \cup {None}]

-----------------------------------------------------------------------------
(* The network. *)

\* What is left of the messages under way when m is delivered.
Delivered(m) == {net, net \ {m}}

Lose(m) ==
  /\ m \in net
  /\ net' = net \ {m}
  /\ UNCHANGED <<peers, pgw, sinceAnswer>>

-----------------------------------------------------------------------------
(* A peer sends a request, and waits for the answer. *)

Outstanding(r) == outstandingTxSeqNumMap[r] # None

\* nwGtpv2cHandleUlpInitialReq
Call(p, op) ==
  LET r == <<p, seqNum[p]>> IN
  /\ r \in Requests
  /\ net' = net \cup {Req(r, op)}
  /\ outstandingTxSeqNumMap' =
       [outstandingTxSeqNumMap EXCEPT ![r] = [op |-> op, retries |-> maxRetries, t3 |-> T3]]
  /\ seqNum' = [seqNum EXCEPT ![p] = @ + 1]
  /\ status' = [status EXCEPT ![r] = "called"]
  /\ UNCHANGED <<pgw, sinceAnswer>>

Expired(r) == Outstanding(r) /\ outstandingTxSeqNumMap[r].t3 = 0

Rearmed == T3

FaultyRetriesLeft(n) == n   \* maxRetries is not decremented

RetriesLeft(n) == n - 1

\* nwGtpv2cTrxnPeerRspWaitTimeout, with retries left: the request is sent again.
Retransmit(r) ==
  /\ Expired(r) /\ outstandingTxSeqNumMap[r].retries > 0
  /\ net' = net \cup {Req(r, outstandingTxSeqNumMap[r].op)}
  /\ outstandingTxSeqNumMap' =
       [outstandingTxSeqNumMap EXCEPT
          ![r] = [op |-> @.op, retries |-> RetriesLeft(@.retries), t3 |-> Rearmed]]
  /\ UNCHANGED <<seqNum, status, pgw, sinceAnswer>>

\* ... and without: NW_GTPV2C_ULP_API_RSP_FAILURE_IND.
GiveUp(r) ==
  /\ Expired(r) /\ outstandingTxSeqNumMap[r].retries = 0
  /\ outstandingTxSeqNumMap' = [outstandingTxSeqNumMap EXCEPT ![r] = None]
  /\ status' = [status EXCEPT ![r] = "failed"]
  /\ UNCHANGED <<seqNum, net, pgw, sinceAnswer>>

FaultyAfterAnswer(r) == outstandingTxSeqNumMap[r]   \* stays in the tree, with its timer

AfterAnswer(r) == None

\* nwGtpv2cHandleTriggeredRsp: an answer to no outstanding request is discarded.
ReceiveRsp(m) ==
  LET r == <<m.to, m.request[2]>> IN
  /\ m \in net /\ m.type = "rsp"
  /\ net' \in Delivered(m)
  /\ IF Outstanding(r)
     THEN /\ outstandingTxSeqNumMap' =
               [outstandingTxSeqNumMap EXCEPT ![r] = AfterAnswer(r)]
          /\ status' = [status EXCEPT ![r] = "answered"]
     ELSE UNCHANGED <<outstandingTxSeqNumMap, status>>
  /\ UNCHANGED <<seqNum, pgw, sinceAnswer>>

-----------------------------------------------------------------------------
(* A worker of the PGW handles a request. *)

Goto(w, label) == pc' = [pc EXCEPT ![w] = label]

HasNoTunnel(m) == m.op # "create" /\ Peer(m.request) \notin tunnelMap

Takes(w, m) == pc[w] = "idle" /\ m \in net /\ m.type = "req" /\ net' \in Delivered(m)

\* nwGtpv2cHandleInitialReq looks for the tunnel first.  Without one, the request
\* is discarded, whether it has been received before or not.
Discard(w, m) ==
  /\ Takes(w, m)
  /\ HasNoTunnel(m)
  /\ UNCHANGED <<peers, pgw, sinceAnswer>>

ReceiveReq(w, m) ==
  /\ Takes(w, m)
  /\ ~ HasNoTunnel(m)
  /\ request' = [request EXCEPT ![w] = [of |-> m.request, op |-> m.op]]
  /\ Goto(w, "insert")
  /\ UNCHANGED <<peers, outstandingRxSeqNumMap, tunnelMap, executions, sinceAnswer>>

Rx(w) == outstandingRxSeqNumMap[Key(request[w].of)]

IsDuplicate(w) == Rx(w) # None

SetRx(w, trxn) ==
  outstandingRxSeqNumMap' = [outstandingRxSeqNumMap EXCEPT ![Key(request[w].of)] = trxn]

\* nwGtpv2cTrxnOutstandingRxNew, the insertion into the tree; the upper layer
\* does not answer a request that it does not expect.
Insert(w) ==
  /\ pc[w] = "insert"
  /\ IF IsDuplicate(w)
     THEN Goto(w, "repeat") /\ UNCHANGED <<outstandingRxSeqNumMap, executions, sinceAnswer>>
     ELSE /\ SetRx(w, [pMsg |-> None, hold |-> 0])
          /\ executions' = [executions EXCEPT ![request[w].of] = IF @ < 2 THEN @ + 1 ELSE @]
          /\ sinceAnswer' = [sinceAnswer EXCEPT ![request[w].of] = None]
          /\ Goto(w, IF request[w].op = "other" THEN "session" ELSE "send")
  /\ UNCHANGED <<peers, net, tunnelMap, request>>

Done(w) ==
  /\ Goto(w, "idle")
  /\ request' = [request EXCEPT ![w] = None]

\* The stored answer goes to the peer of the transaction.
Repeated(trxn) ==
  IF trxn.pMsg = None THEN {} ELSE {Rsp(Peer(trxn.pMsg), trxn.pMsg)}

\* What is sent from a transaction and a message in freed memory: nothing, or
\* whatever answer has come to stand there.
Garbage(w) ==
  {{}} \cup {{Rsp(Peer(request[w].of), r)} : r \in {q \in Requests : executions[q] > 0}}

\* ... and, for a duplicate, what follows after the mutex is released.
Repeat(w) ==
  /\ pc[w] = "repeat"
  /\ \E sent \in IF Rx(w) = None THEN Garbage(w) ELSE {Repeated(Rx(w))} :
       net' = net \cup sent
  /\ Done(w)
  /\ UNCHANGED <<peers, outstandingRxSeqNumMap, tunnelMap, executions, sinceAnswer>>

\* nwGtpv2cHandleUlpTriggeredRsp: the answer is sent ...
Send(w) ==
  /\ pc[w] = "send"
  /\ net' = net \cup {Rsp(Peer(request[w].of), request[w].of)}
  /\ sinceAnswer' = [sinceAnswer EXCEPT ![request[w].of] = 0]
  /\ Goto(w, "remember")
  /\ UNCHANGED <<peers, outstandingRxSeqNumMap, tunnelMap, request, executions>>

FaultyHoldTime == Hold - 1   \* too short

HoldTime == Hold

\* ... and remembered, and the hold timer is started.
Remember(w) ==
  /\ pc[w] = "remember"
  /\ SetRx(w, [pMsg |-> request[w].of, hold |-> HoldTime])
  /\ Goto(w, "session")
  /\ UNCHANGED <<peers, net, tunnelMap, request, executions, sinceAnswer>>

\* The control tunnel comes with the session; it goes with it when the session
\* is deleted or has received something unexpected.
Session(w) ==
  /\ pc[w] = "session"
  /\ tunnelMap' = IF request[w].op = "create"
                  THEN tunnelMap \cup {Peer(request[w].of)}
                  ELSE tunnelMap \ {Peer(request[w].of)}
  /\ Done(w)
  /\ UNCHANGED <<peers, net, outstandingRxSeqNumMap, executions, sinceAnswer>>

Answered(k) ==
  outstandingRxSeqNumMap[k] # None /\ outstandingRxSeqNumMap[k].pMsg # None

HoldOver(k) == Answered(k) /\ outstandingRxSeqNumMap[k].hold = 0

AfterHold(k) == None

\* nwGtpv2cTrxnDuplicateRequestWaitTimeout, in the event loop.
Forget(k) ==
  /\ HoldOver(k)
  /\ Prompt => \A w \in Workers : pc[w] = "repeat" => Key(request[w].of) # k
  /\ outstandingRxSeqNumMap' = [outstandingRxSeqNumMap EXCEPT ![k] = AfterHold(k)]
  /\ UNCHANGED <<peers, net, tunnelMap, pc, request, executions, sinceAnswer>>

-----------------------------------------------------------------------------
Work(w) ==
  Insert(w) \/ Repeat(w) \/ Send(w) \/ Remember(w) \/ Session(w)

\* Nothing that is due waits for the next tick.
Tick ==
  /\ \A r \in Requests : ~ Expired(r) /\ ~ HoldOver(r)
  /\ outstandingTxSeqNumMap' = [r \in Requests |->
       IF Outstanding(r) THEN [outstandingTxSeqNumMap[r] EXCEPT !.t3 = @ - 1] ELSE None]
  /\ outstandingRxSeqNumMap' = [k \in Requests |->
       IF Answered(k) THEN [outstandingRxSeqNumMap[k] EXCEPT !.hold = @ - 1]
       ELSE outstandingRxSeqNumMap[k]]
  /\ sinceAnswer' = [r \in Requests |->
       IF sinceAnswer[r] \in 0 .. Hold - 1 THEN sinceAnswer[r] + 1 ELSE sinceAnswer[r]]
  /\ UNCHANGED <<seqNum, status, net, tunnelMap, pc, request, executions>>

Next ==
  \/ \E p \in Peers, op \in Ops : Call(p, op)
  \/ \E r \in Requests : Retransmit(r) \/ GiveUp(r) \/ Forget(r)
  \/ \E m \in net : Lose(m) \/ ReceiveRsp(m)
  \/ \E m \in net, w \in Workers : Discard(w, m) \/ ReceiveReq(w, m)
  \/ \E w \in Workers : Work(w)
  \/ Tick

Spec == Init /\ [][Next]_vars

\* Time goes on, timers are handled and workers work; the network owes nothing.
\* Forget is fair in the strong sense because Prompt lets it wait for workers,
\* again and again while copies keep coming.
FairSpec ==
  /\ Spec
  /\ WF_vars(Tick)
  /\ \A r \in Requests : WF_vars(Retransmit(r) \/ GiveUp(r)) /\ SF_vars(Forget(r))
  /\ \A w \in Workers : WF_vars(Work(w))

-----------------------------------------------------------------------------
(* Properties *)

Executed == {r \in Requests : executions[r] > 0}

RemoteCall == INSTANCE RemoteCall WITH Calls <- Requests, executed <- Executed

\* To the upper layer of the sender a request is a remote call: it ends once,
\* with an answer or with a failure, and an answer means that the PGW has
\* executed this very request (NwGtpv2c.c:1034-1060, NwGtpv2cTrxn.c:87-127).
CallSpec == RemoteCall!Spec

\* A request is not executed again before the hold timer that was started with
\* its answer has run out, whichever worker gets the copies (NwGtpv2cTrxn.c:184).
NotAgainWhileHeld ==
  [][\A r \in Requests :
       executions[r] # 0 /\ executions'[r] # executions[r] =>
         sinceAnswer[r] = Hold]_vars

\* Only a request that the PGW has begun to execute is taken for a duplicate: a
\* peer is not refused because another one uses the same sequence number
\* (NwGtpv2c.c:336-353).
OnlyDuplicatesRepeated ==
  [][\A w \in Workers :
       pc[w] = "insert" /\ pc'[w] = "repeat" => executions[request[w].of] > 0]_vars

\* Every request ends for its sender: the timer of the request is started again
\* until no retries are left (NwGtpv2cTrxn.c:87-127).
EveryCallEnds == \A r \in Requests : Outstanding(r) ~> ~ Outstanding(r)

=============================================================================
