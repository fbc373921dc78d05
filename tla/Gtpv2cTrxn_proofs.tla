-------------------------- MODULE Gtpv2cTrxn_proofs --------------------------
(***************************************************************************)
(* Proofs about the transactions of the GTPv2-C stack, for any number of   *)
(* peers, requests and workers and for any network.                        *)
(***************************************************************************)
EXTENDS Gtpv2cTrxn, TLAPS

\* A busy worker has a request, which its sender has made.
WorkersBusy ==
  \A w \in Workers : pc[w] # "idle" =>
    request[w] # None /\ status[request[w].of] # "none"

\* A worker that is past the insertion has a request that was executed.
WorkersExecuted ==
  \A w \in Workers : pc[w] \notin {"idle", "insert"} => executions[request[w].of] > 0

\* A request whose number has not come yet has not been made.
NumbersFresh ==
  \A p \in Peers, s \in SeqNums : s >= seqNum[p] => status[<<p, s>>] = "none"

\* Only a request whose end is not known is outstanding.
OutstandingCalled == \A r \in Requests : Outstanding(r) => status[r] = "called"

\* Messages under way are copies of what has been sent.
NetHonest ==
  \A m \in net :
    /\ m.type = "req" => status[m.request] # "none"
    /\ m.type = "rsp" =>
         /\ executions[m.request] > 0
         /\ Prompt => m.to = Peer(m.request)

\* A received transaction stands for an execution, and stores its answer.
RxHonest ==
  \A r \in Requests : outstandingRxSeqNumMap[r] # None =>
    executions[r] > 0 /\ outstandingRxSeqNumMap[r].pMsg \in {None, r}

\* A worker that is about to look into a transaction finds it.
RepeatFinds ==
  Prompt => \A w \in Workers : pc[w] = "repeat" => Rx(w) # None

CallFacts ==
  /\ WorkersBusy /\ WorkersExecuted /\ NumbersFresh /\ OutstandingCalled
  /\ NetHonest /\ RxHonest /\ RepeatFinds

CallInv == TypeOK /\ CallFacts

Executing(w) == pc[w] \in {"send", "remember"}

\* While a request is executed, it is remembered and not answered, and no other
\* worker executes it.
OneExecutor ==
  \A w \in Workers : Executing(w) =>
    /\ Rx(w) # None /\ Rx(w).pMsg = None
    /\ pc[w] = "remember" => sinceAnswer[request[w].of] # None
    /\ \A v \in Workers \ {w} : Executing(v) => request[v].of # request[w].of

\* An executed request is forgotten only when Hold has passed since its answer.
HeldForHold ==
  \A r \in Requests :
    /\ executions[r] > 0 /\ outstandingRxSeqNumMap[r] = None => sinceAnswer[r] = Hold
    /\ Answered(r) =>
         /\ sinceAnswer[r] # None
         /\ sinceAnswer[r] + outstandingRxSeqNumMap[r].hold >= Hold

HoldFacts == OneExecutor /\ HeldForHold

HoldInv == CallInv /\ HoldFacts

-----------------------------------------------------------------------------
\* A request is a pair of its sender and its number.
LEMMA RequestIsPair ==
  /\ \A r \in Requests : Peer(r) \in Peers /\ r[2] \in SeqNums /\ r = <<Peer(r), r[2]>>
  /\ \A p \in Peers, s \in SeqNums :
       <<p, s>> \in Requests /\ Peer(<<p, s>>) = p /\ <<p, s>>[2] = s
BY DEF Requests, Peer

\* What is delivered leaves the network as it was, but perhaps for the message.
LEMMA DeliveredSubset ==
  ASSUME NEW m, NEW n \in Delivered(m)
  PROVE  n \subseteq net
BY DEF Delivered

\* The messages are of two kinds.
LEMMA MessageKinds ==
  /\ \A r \in Requests, op \in Ops :
       /\ Req(r, op) \in Message
       /\ Req(r, op).type = "req" /\ Req(r, op).request = r /\ Req(r, op).op = op
  /\ \A p \in Peers, r \in Requests :
       /\ Rsp(p, r) \in Message
       /\ Rsp(p, r).type = "rsp" /\ Rsp(p, r).request = r /\ Rsp(p, r).to = p
  /\ \A m \in Message :
       /\ m.request \in Requests
       /\ m.type \in {"req", "rsp"}
       /\ m.type = "req" => m.op \in Ops
       /\ m.type = "rsp" => m.to \in Peers
BY DEF Message, Req, Rsp

\* The types of the two kinds of transaction.
LEMMA TrxnTypes ==
  /\ Hold = 2 /\ T3 = 1 /\ maxRetries = 2
  /\ \A trxn \in TxTrxn :
       trxn # None /\ trxn.op \in Ops /\ trxn.retries \in 0 .. 2 /\ trxn.t3 \in 0 .. 1
  /\ \A trxn \in RxTrxn :
       trxn # None /\ trxn.hold \in 0 .. 2 /\ trxn.pMsg \in Requests \cup {None}
  /\ \A op \in Ops, n \in 0 .. 2, t \in 0 .. 1 :
       [op |-> op, retries |-> n, t3 |-> t] \in TxTrxn
  /\ \A p \in Requests \cup {None}, h \in 0 .. 2 : [pMsg |-> p, hold |-> h] \in RxTrxn
BY NoneAssumption DEF TxTrxn, RxTrxn, Hold, T3, maxRetries

\* In the initial state everything is well-typed.
LEMMA InitTypeOK == Init => TypeOK
BY TrxnTypes DEF Init, TypeOK

\* What may be sent again is a set of messages.
LEMMA SentAgainTyped ==
  ASSUME TypeOK, NEW w \in Workers, pc[w] = "repeat", request[w] # None,
         NEW sent \in IF Rx(w) = None THEN Garbage(w) ELSE {Repeated(Rx(w))}
  PROVE  sent \subseteq Message
<1>1. request[w].of \in Requests
  BY DEF TypeOK, Job
<1>2. CASE Rx(w) = None
  BY <1>1, <1>2, RequestIsPair, MessageKinds DEF Garbage
<1>3. CASE Rx(w) # None
  <2>1. Rx(w) \in RxTrxn
    BY <1>1, <1>3 DEF TypeOK, Rx, Key
  <2>2. Rx(w).pMsg \in Requests \cup {None}
    BY <2>1, TrxnTypes
  <2>3. sent = Repeated(Rx(w))
    BY <1>3
  <2> QED BY <2>2, <2>3, RequestIsPair, MessageKinds DEF Repeated
<1> QED BY <1>2, <1>3

\* Every step keeps the types.
LEMMA StepTypeOK == TypeOK /\ WorkersBusy /\ [Next]_vars => TypeOK'
<1> SUFFICES ASSUME TypeOK, WorkersBusy, [Next]_vars PROVE TypeOK'
  OBVIOUS
<1>1. ASSUME NEW p \in Peers, NEW op \in Ops, Call(p, op) PROVE TypeOK'
  <2> DEFINE r == <<p, seqNum[p]>>
  <2>1. r \in Requests /\ Req(r, op) \in Message
    BY <1>1, MessageKinds DEF Call
  <2>2. [op |-> op, retries |-> maxRetries, t3 |-> T3] \in TxTrxn
    BY DEF TxTrxn, maxRetries, T3
  <2> QED BY <1>1, <2>1, <2>2 DEF Call, TypeOK, pgw
<1>2. ASSUME NEW r \in Requests, Retransmit(r) PROVE TypeOK'
  <2> DEFINE t == outstandingTxSeqNumMap[r]
  <2>1. t \in TxTrxn
    BY <1>2 DEF Retransmit, Expired, Outstanding, TypeOK
  <2>2. [op |-> t.op, retries |-> RetriesLeft(t.retries), t3 |-> Rearmed] \in TxTrxn
    <3>1. t.op \in Ops /\ t.retries \in 1 .. maxRetries
      BY <1>2, <2>1 DEF Retransmit, TxTrxn, maxRetries
    <3> QED BY <3>1 DEF TxTrxn, RetriesLeft, Rearmed, T3, maxRetries
  <2>3. Req(r, t.op) \in Message
    BY <2>1, TrxnTypes, MessageKinds
  <2>4. outstandingTxSeqNumMap' \in [Requests -> TxTrxn \cup {None}]
    BY <1>2, <2>1, <2>2 DEF Retransmit, TypeOK
  <2> QED BY <1>2, <2>3, <2>4 DEF Retransmit, TypeOK, pgw
<1>3. ASSUME NEW r \in Requests, GiveUp(r) PROVE TypeOK'
  BY <1>3 DEF GiveUp, TypeOK, pgw
<1>4. ASSUME NEW r \in Requests, Forget(r) PROVE TypeOK'
  BY <1>4 DEF Forget, AfterHold, TypeOK, peers
<1>5. ASSUME NEW m \in net, Lose(m) PROVE TypeOK'
  BY <1>5 DEF Lose, TypeOK, peers, pgw
<1>6. ASSUME NEW m \in net, ReceiveRsp(m) PROVE TypeOK'
  <2>1. <<m.to, m.request[2]>> \in Requests
    BY <1>6, MessageKinds, RequestIsPair DEF ReceiveRsp, TypeOK
  <2> QED BY <1>6, <2>1, DeliveredSubset DEF ReceiveRsp, AfterAnswer, TypeOK, pgw
<1>7. ASSUME NEW m \in net, NEW w \in Workers, Discard(w, m) PROVE TypeOK'
  BY <1>7, DeliveredSubset DEF Discard, Takes, TypeOK, peers, pgw
<1>8. ASSUME NEW m \in net, NEW w \in Workers, ReceiveReq(w, m) PROVE TypeOK'
  <2>1. [of |-> m.request, op |-> m.op] \in Job
    BY <1>8, MessageKinds DEF Job, ReceiveReq, Takes, TypeOK
  <2> QED BY <1>8, <2>1, DeliveredSubset DEF ReceiveReq, Takes, Goto, TypeOK, peers
<1>9. ASSUME NEW w \in Workers, Work(w) PROVE TypeOK'
  <2>0. \A job \in Job : job.of \in Requests
    BY DEF Job
  <2>1. request[w].of \in Requests /\ Peer(request[w].of) \in Peers
    BY <1>9, <2>0, RequestIsPair DEF Work, Insert, Repeat, Send, Remember, Session, WorkersBusy, TypeOK
  <2>2. CASE Insert(w)
    <3>1. [pMsg |-> None, hold |-> 0] \in RxTrxn
      BY DEF RxTrxn, Hold, T3, maxRetries
    <3>2. executions[request[w].of] \in 0 .. 2
      BY <2>1 DEF TypeOK
    <3> QED BY <2>1, <2>2, <3>1, <3>2 DEF Insert, SetRx, Key, Goto, TypeOK, peers
  <2>3. CASE Repeat(w)
    BY <2>3, SentAgainTyped DEF Repeat, Done, Goto, WorkersBusy, TypeOK, peers
  <2>4. CASE Send(w)
    <3>1. 0 \in 0 .. Hold
      BY TrxnTypes
    <3> QED BY <2>1, <2>4, <3>1, MessageKinds DEF Send, Goto, TypeOK, peers
  <2>5. CASE Remember(w)
    <3>1. [pMsg |-> request[w].of, hold |-> HoldTime] \in RxTrxn
      BY <2>1 DEF RxTrxn, HoldTime, Hold, T3, maxRetries
    <3> QED BY <2>1, <2>5, <3>1 DEF Remember, SetRx, Key, Goto, TypeOK, peers
  <2>6. CASE Session(w)
    BY <2>1, <2>6 DEF Session, Done, Goto, TypeOK, peers
  <2> QED BY <1>9, <2>2, <2>3, <2>4, <2>5, <2>6 DEF Work
<1>10. CASE Tick
  <2>1. outstandingTxSeqNumMap' \in [Requests -> TxTrxn \cup {None}]
    <3> SUFFICES ASSUME NEW r \in Requests, Outstanding(r)
                 PROVE  [outstandingTxSeqNumMap[r] EXCEPT !.t3 = @ - 1] \in TxTrxn
      BY <1>10 DEF Tick
    <3>1. outstandingTxSeqNumMap[r] \in TxTrxn /\ outstandingTxSeqNumMap[r].t3 # 0
      BY <1>10 DEF Tick, Expired, Outstanding, TypeOK
    <3> QED BY <3>1 DEF TxTrxn, T3
  <2>2. outstandingRxSeqNumMap' \in [Requests -> RxTrxn \cup {None}]
    <3> SUFFICES ASSUME NEW r \in Requests, Answered(r)
                 PROVE  [outstandingRxSeqNumMap[r] EXCEPT !.hold = @ - 1] \in RxTrxn
      BY <1>10 DEF Tick, TypeOK
    <3>1. outstandingRxSeqNumMap[r] \in RxTrxn /\ outstandingRxSeqNumMap[r].hold # 0
      BY <1>10 DEF Tick, HoldOver, Answered, TypeOK
    <3> QED BY <3>1 DEF RxTrxn, Hold, T3, maxRetries
  <2>3. sinceAnswer' \in [Requests -> (0 .. Hold) \cup {None}]
    <3> SUFFICES ASSUME NEW r \in Requests, sinceAnswer[r] \in 0 .. Hold - 1
                 PROVE  sinceAnswer[r] + 1 \in 0 .. Hold
      BY <1>10 DEF Tick, TypeOK
    <3> QED BY TrxnTypes
  <2> QED BY <1>10, <2>1, <2>2, <2>3 DEF Tick, TypeOK
<1>11. CASE UNCHANGED vars
  BY <1>11 DEF vars, peers, pgw, TypeOK
<1> QED
  BY <1>1, <1>2, <1>3, <1>4, <1>5, <1>6, <1>7, <1>8, <1>9, <1>10, <1>11 DEF Next

-----------------------------------------------------------------------------
(* The sender's view *)

\* Nothing has been sent and nobody works.
LEMMA InitCallInv == Init => CallInv
<1> SUFFICES ASSUME Init PROVE CallInv
  OBVIOUS
<1>1. TypeOK
  BY InitTypeOK
<1>2. NumbersFresh
  BY RequestIsPair DEF Init, NumbersFresh
<1>3. WorkersBusy /\ WorkersExecuted /\ OutstandingCalled /\ NetHonest /\ RxHonest
      /\ RepeatFinds
  BY DEF Init, WorkersBusy, WorkersExecuted, OutstandingCalled, Outstanding, NetHonest, RxHonest, RepeatFinds
<1> QED BY <1>1, <1>2, <1>3 DEF CallInv, CallFacts

\* The steps of the peers keep what CallInv says of requests and messages.
LEMMA PeerStepCallInv ==
  ASSUME CallInv,
         \/ \E p \in Peers, op \in Ops : Call(p, op)
         \/ \E r \in Requests : Retransmit(r) \/ GiveUp(r)
         \/ \E m \in net : Lose(m) \/ ReceiveRsp(m)
  PROVE  CallFacts'
<1> USE DEF CallInv, CallFacts
<1>1. ASSUME NEW p \in Peers, NEW op \in Ops, Call(p, op)
      PROVE  CallFacts'
  <2> DEFINE r == <<p, seqNum[p]>>
  <2>1. r \in Requests /\ status[r] = "none" /\ seqNum[p] \in SeqNums /\ seqNum[p] \in Nat
    BY <1>1, RequestIsPair DEF Call, NumbersFresh, TypeOK, Requests
  <2>2. \A q \in Requests : status'[q] = IF q = r THEN "called" ELSE status[q]
    BY <1>1, <2>1 DEF Call, TypeOK
  <2>3. WorkersBusy' /\ WorkersExecuted'
    BY <1>1, <2>2 DEF Call, WorkersBusy, WorkersExecuted, pgw, TypeOK, Job
  <2>4. NumbersFresh'
    <3> SUFFICES ASSUME NEW q \in Peers, NEW s \in SeqNums, s >= seqNum'[q]
                 PROVE  status'[<<q, s>>] = "none"
      BY DEF NumbersFresh
    <3>1. s \in Nat /\ seqNum[q] \in Nat
      BY TrxnAssumption DEF TypeOK
    <3>2. seqNum'[q] = IF q = p THEN seqNum[p] + 1 ELSE seqNum[q]
      BY <1>1 DEF Call, TypeOK
    <3>3. s >= seqNum[q] /\ <<q, s>> # r
      BY <2>1, <3>1, <3>2
    <3>4. <<q, s>> \in Requests /\ status[<<q, s>>] = "none"
      BY <3>3, RequestIsPair DEF NumbersFresh
    <3> QED BY <2>2, <3>3, <3>4
  <2>5. OutstandingCalled'
    BY <1>1, <2>1, <2>2 DEF Call, OutstandingCalled, Outstanding, TypeOK
  <2>6. NetHonest'
    <3> SUFFICES ASSUME NEW m \in net', m \notin net
                 PROVE  m.type = "req" /\ status'[m.request] # "none"
      BY <1>1, <2>1, <2>2, MessageKinds DEF Call, NetHonest, pgw, TypeOK
    <3>1. m = Req(r, op)
      BY <1>1 DEF Call
    <3> QED BY <2>1, <2>2, <3>1, MessageKinds
  <2>7. RxHonest' /\ RepeatFinds'
    BY <1>1 DEF Call, RxHonest, RepeatFinds, Rx, pgw
  <2> QED BY <2>3, <2>4, <2>5, <2>6, <2>7
<1>2. ASSUME NEW r \in Requests, Retransmit(r)
      PROVE  CallFacts'
  <2>1. status[r] = "called" /\ outstandingTxSeqNumMap[r].op \in Ops
    BY <1>2, TrxnTypes DEF Retransmit, Expired, Outstanding, OutstandingCalled, TypeOK
  <2>2. NetHonest'
    <3> SUFFICES ASSUME NEW m \in net', m \notin net
                 PROVE  m.type = "req" /\ status[m.request] # "none"
      BY <1>2 DEF Retransmit, NetHonest, pgw
    <3>1. m = Req(r, outstandingTxSeqNumMap[r].op)
      BY <1>2 DEF Retransmit
    <3> QED BY <2>1, <3>1, MessageKinds
  <2>3. OutstandingCalled'
    BY <1>2, <2>1 DEF Retransmit, OutstandingCalled, Outstanding, TypeOK
  <2> QED
    BY <1>2, <2>2, <2>3 DEF Retransmit, WorkersBusy, WorkersExecuted, NumbersFresh, RxHonest, RepeatFinds, Rx, pgw
<1>3. ASSUME NEW r \in Requests, status[r] = "called",
             NEW end \in {"answered", "failed"},
             status' = [status EXCEPT ![r] = end],
             outstandingTxSeqNumMap' = [outstandingTxSeqNumMap EXCEPT ![r] = None],
             net' \subseteq net, UNCHANGED <<seqNum, pgw>>
      PROVE  CallFacts'
  <2>1. \A q \in Requests : status'[q] = IF q = r THEN end ELSE status[q]
    BY <1>3 DEF TypeOK
  <2>2. WorkersBusy' /\ WorkersExecuted'
    BY <1>3, <2>1 DEF WorkersBusy, WorkersExecuted, pgw, TypeOK, Job
  <2>3. NumbersFresh'
    BY <1>3, <2>1, RequestIsPair DEF NumbersFresh
  <2>4. OutstandingCalled'
    BY <1>3, <2>1 DEF OutstandingCalled, Outstanding, TypeOK
  <2>5. NetHonest'
    BY <1>3, <2>1, MessageKinds DEF NetHonest, pgw, TypeOK
  <2> QED BY <1>3, <2>2, <2>3, <2>4, <2>5 DEF RxHonest, RepeatFinds, Rx, pgw
<1>4. ASSUME NEW r \in Requests, GiveUp(r)
      PROVE  CallFacts'
  BY <1>3, <1>4 DEF GiveUp, Expired, OutstandingCalled
<1>5. ASSUME net' \subseteq net, UNCHANGED <<peers, pgw>>
      PROVE  CallFacts'
  BY <1>5 DEF WorkersBusy, WorkersExecuted, NumbersFresh, OutstandingCalled, Outstanding, NetHonest,
              RxHonest, RepeatFinds, Rx, peers, pgw
<1>6. ASSUME NEW m \in net, Lose(m)
      PROVE  CallFacts'
  BY <1>5, <1>6 DEF Lose
<1>7. ASSUME NEW m \in net, ReceiveRsp(m)
      PROVE  CallFacts'
  <2> DEFINE r == <<m.to, m.request[2]>>
  <2>1. r \in Requests /\ net' \subseteq net
    BY <1>7, MessageKinds, RequestIsPair, DeliveredSubset DEF ReceiveRsp, TypeOK
  <2>2. CASE Outstanding(r)
    BY <1>3, <1>7, <2>1, <2>2 DEF ReceiveRsp, OutstandingCalled, AfterAnswer
  <2>3. CASE ~ Outstanding(r)
    BY <1>5, <1>7, <2>1, <2>3 DEF ReceiveRsp, peers
  <2> QED BY <2>2, <2>3
<1> QED BY <1>1, <1>2, <1>4, <1>6, <1>7

\* The steps of the PGW and of time keep what CallInv says of workers, messages
\* and received transactions.
LEMMA PgwStepCallInv ==
  ASSUME CallInv,
         \/ \E m \in net, w \in Workers : Discard(w, m) \/ ReceiveReq(w, m)
         \/ \E w \in Workers : Work(w)
         \/ \E r \in Requests : Forget(r)
         \/ Tick
  PROVE  CallFacts'
<1> USE DEF CallInv, CallFacts
<1>1. ASSUME NEW m \in net, NEW w \in Workers, Discard(w, m) PROVE CallFacts'
  BY <1>1, DeliveredSubset DEF Discard, Takes, WorkersBusy, WorkersExecuted, NumbersFresh, OutstandingCalled,
     Outstanding, NetHonest, RxHonest, RepeatFinds, Rx, peers, pgw
<1>2. ASSUME NEW m \in net, NEW w \in Workers, ReceiveReq(w, m) PROVE CallFacts'
  <2>1. net' \subseteq net /\ m.type = "req" /\ m.request \in Requests
    BY <1>2, DeliveredSubset, MessageKinds DEF ReceiveReq, Takes, TypeOK
  <2>2. WorkersBusy' /\ WorkersExecuted'
    <3>1. request'[w] # None /\ request'[w].of = m.request /\ status[m.request] # "none"
      <4>1. [of |-> m.request, op |-> m.op] # None
        BY <1>2, <2>1, MessageKinds, NoneAssumption DEF Job, ReceiveReq, Takes, TypeOK
      <4> QED BY <1>2, <2>1, <4>1 DEF ReceiveReq, NetHonest, TypeOK
    <3>2. \A v \in Workers \ {w} : request'[v] = request[v] /\ pc'[v] = pc[v]
      BY <1>2 DEF ReceiveReq, Goto, TypeOK
    <3>3. UNCHANGED <<status, executions>>
      BY <1>2 DEF ReceiveReq, peers
    <3>4. pc'[w] = "insert"
      BY <1>2 DEF ReceiveReq, Goto, TypeOK
    <3> QED BY <3>1, <3>2, <3>3, <3>4 DEF WorkersBusy, WorkersExecuted
  <2>3. RepeatFinds'
    BY <1>2 DEF ReceiveReq, Goto, RepeatFinds, Rx, TypeOK
  <2> QED
    BY <1>2, <2>1, <2>2, <2>3 DEF ReceiveReq, NumbersFresh, OutstandingCalled, Outstanding,
       NetHonest, RxHonest, peers
<1>3. ASSUME NEW w \in Workers, Work(w) PROVE CallFacts'
  <2> DEFINE job == request[w]
  <2>1. job # None /\ job.of \in Requests /\ status[job.of] # "none"
    BY <1>3 DEF Work, Insert, Repeat, Send, Remember, Session, WorkersBusy, TypeOK, Job
  <2>2. UNCHANGED peers
    BY <1>3 DEF Work, Insert, Repeat, Send, Remember, Session
  <2>3. NumbersFresh' /\ OutstandingCalled'
    BY <2>2 DEF peers, NumbersFresh, OutstandingCalled, Outstanding
  <2>4. \A r \in Requests : executions[r] > 0 => executions'[r] > 0
    <3>1. CASE Insert(w)
      BY <2>1, <3>1 DEF Insert, TypeOK
    <3>2. CASE ~ Insert(w)
      BY <1>3, <3>2 DEF Work, Repeat, Send, Remember, Session
    <3> QED BY <3>1, <3>2
  <2>5. \A v \in Workers \ {w} : pc'[v] = pc[v] /\ request'[v] = request[v]
    <3>1. CASE Insert(w)
      BY <3>1 DEF Insert, Goto, TypeOK
    <3>2. CASE Send(w) \/ Remember(w)
      BY <3>2 DEF Send, Remember, Goto, TypeOK
    <3>3. CASE Repeat(w) \/ Session(w)
      BY <3>3 DEF Repeat, Session, Done, Goto, TypeOK
    <3> QED BY <1>3, <3>1, <3>2, <3>3 DEF Work
  <2>6. ASSUME pc'[w] # "idle" => request'[w] = job /\ executions'[job.of] > 0
        PROVE  WorkersBusy' /\ WorkersExecuted'
    <3>1. WorkersBusy'
      BY <2>1, <2>2, <2>5, <2>6 DEF WorkersBusy, peers
    <3>2. \A v \in Workers : pc[v] # "idle" => request[v].of \in Requests
      BY DEF WorkersBusy, TypeOK, Job
    <3> QED BY <2>4, <2>5, <2>6, <3>1, <3>2 DEF WorkersExecuted
  <2>7. CASE Insert(w)
    <3>1. executions'[job.of] > 0 /\ request'[w] = job
      <4>1. CASE IsDuplicate(w)
        BY <2>1, <2>7, <4>1 DEF Insert, IsDuplicate, Rx, Key, RxHonest
      <4>2. CASE ~ IsDuplicate(w)
        <5>1. executions[job.of] \in 0 .. 2
          BY <2>1 DEF TypeOK
        <5>2. executions'[job.of] = IF executions[job.of] < 2 THEN executions[job.of] + 1
                                    ELSE executions[job.of]
          BY <2>1, <2>7, <4>2 DEF Insert, TypeOK
        <5> QED BY <2>7, <5>1, <5>2 DEF Insert
      <4> QED BY <4>1, <4>2
    <3>2. NetHonest'
      BY <2>2, <2>4, <2>7, MessageKinds DEF Insert, NetHonest, peers, TypeOK
    <3>3. [pMsg |-> None, hold |-> 0] # None
      BY NoneAssumption DEF RxTrxn, Hold, T3, maxRetries
    <3>4. \A r \in Requests :
            \/ outstandingRxSeqNumMap'[r] = outstandingRxSeqNumMap[r]
            \/ r = job.of /\ outstandingRxSeqNumMap'[r] = [pMsg |-> None, hold |-> 0]
      BY <2>1, <2>7 DEF Insert, SetRx, Key, TypeOK
    <3>5. RxHonest'
      BY <2>4, <3>1, <3>4 DEF RxHonest
    <3>6. RepeatFinds'
      <4>1. pc'[w] = "repeat" => outstandingRxSeqNumMap'[job.of] # None
        BY <2>7 DEF Insert, IsDuplicate, Rx, Key, Goto, TypeOK
      <4>2. \A v \in Workers : pc[v] # "idle" => request[v].of \in Requests
        BY DEF WorkersBusy, TypeOK, Job
      <4> QED BY <2>5, <3>1, <3>3, <3>4, <4>1, <4>2 DEF RepeatFinds, Rx, Key
    <3> QED BY <2>3, <2>6, <3>1, <3>2, <3>5, <3>6
  <2>8. CASE Repeat(w)
    <3> PICK sent \in IF Rx(w) = None THEN Garbage(w) ELSE {Repeated(Rx(w))} :
          net' = net \cup sent
      BY <2>8 DEF Repeat
    <3>1. \A m \in sent : /\ m.type = "rsp" /\ executions[m.request] > 0
                          /\ Prompt => m.to = Peer(m.request)
      <4>1. CASE Rx(w) = None
        <5>1. ~ Prompt
          BY <2>8, <4>1 DEF Repeat, RepeatFinds
        <5> QED BY <2>1, <4>1, <5>1, MessageKinds, RequestIsPair DEF Garbage
      <4>2. CASE Rx(w) # None
        <5>1. Rx(w).pMsg \in {None, job.of} /\ executions[job.of] > 0
          BY <2>1, <4>2 DEF RxHonest, Rx, Key
        <5> QED BY <2>1, <4>2, <5>1, MessageKinds, RequestIsPair DEF Repeated
      <4> QED BY <4>1, <4>2
    <3>2. NetHonest'
      BY <2>2, <2>8, <3>1 DEF Repeat, NetHonest, peers
    <3>3. pc'[w] = "idle"
      BY <2>8 DEF Repeat, Done, Goto, TypeOK
    <3>4. RxHonest' /\ RepeatFinds'
      BY <2>5, <2>8, <3>3 DEF Repeat, RxHonest, RepeatFinds, Rx
    <3>5. WorkersBusy' /\ WorkersExecuted'
      BY <2>6, <3>3
    <3> QED BY <2>3, <3>2, <3>4, <3>5
  <2>9. CASE Send(w)
    <3>1. executions'[job.of] > 0 /\ request'[w] = job /\ pc'[w] = "remember"
      BY <2>1, <2>9 DEF Send, Goto, WorkersExecuted, TypeOK
    <3>2. NetHonest'
      BY <2>1, <2>2, <2>9, <3>1, MessageKinds, RequestIsPair DEF Send, NetHonest, peers
    <3>3. RxHonest' /\ RepeatFinds'
      BY <2>5, <2>9, <3>1 DEF Send, RxHonest, RepeatFinds, Rx
    <3> QED BY <2>3, <2>6, <3>1, <3>2, <3>3
  <2>10. CASE Remember(w)
    <3>1. executions'[job.of] > 0 /\ request'[w] = job /\ pc'[w] = "session"
      BY <2>1, <2>10 DEF Remember, Goto, WorkersExecuted, TypeOK
    <3> DEFINE trxn == [pMsg |-> job.of, hold |-> HoldTime]
    <3>2. trxn # None
      BY <2>1, NoneAssumption DEF RxTrxn, HoldTime, Hold, T3, maxRetries
    <3>3. \A r \in Requests :
            \/ outstandingRxSeqNumMap'[r] = outstandingRxSeqNumMap[r]
            \/ r = job.of /\ outstandingRxSeqNumMap'[r] = trxn
      BY <2>1, <2>10 DEF Remember, SetRx, Key, TypeOK
    <3>4. RxHonest'
      BY <2>4, <3>1, <3>3 DEF RxHonest
    <3>5. RepeatFinds'
      <4>1. \A v \in Workers : pc[v] # "idle" => request[v].of \in Requests
        BY DEF WorkersBusy, TypeOK, Job
      <4> QED BY <2>5, <3>1, <3>2, <3>3, <4>1 DEF RepeatFinds, Rx, Key
    <3>6. NetHonest'
      BY <2>2, <2>10 DEF Remember, NetHonest, peers
    <3> QED BY <2>3, <2>6, <3>1, <3>4, <3>5, <3>6
  <2>11. CASE Session(w)
    <3>1. pc'[w] = "idle"
      BY <2>11 DEF Session, Done, Goto, TypeOK
    <3>2. NetHonest' /\ RxHonest' /\ RepeatFinds'
      BY <2>2, <2>5, <2>11, <3>1 DEF Session, NetHonest, RxHonest, RepeatFinds, Rx, peers
    <3>3. WorkersBusy' /\ WorkersExecuted'
      BY <2>6, <3>1
    <3> QED BY <2>3, <3>2, <3>3
  <2> QED BY <1>3, <2>7, <2>8, <2>9, <2>10, <2>11 DEF Work
<1>4. ASSUME NEW r \in Requests, Forget(r) PROVE CallFacts'
  <2>1. RepeatFinds'
    BY <1>4 DEF Forget, RepeatFinds, Rx, TypeOK
  <2>2. RxHonest'
    BY <1>4 DEF Forget, AfterHold, RxHonest, TypeOK
  <2> QED
    BY <1>4, <2>1, <2>2 DEF Forget, WorkersBusy, WorkersExecuted, NumbersFresh,
       OutstandingCalled, Outstanding, NetHonest, peers
<1>5. CASE Tick
  <2>1. ASSUME NEW r \in Requests, outstandingRxSeqNumMap'[r] # None
        PROVE  /\ outstandingRxSeqNumMap[r] # None
               /\ outstandingRxSeqNumMap'[r].pMsg = outstandingRxSeqNumMap[r].pMsg
    <3>1. outstandingRxSeqNumMap[r] # None
      BY <1>5, <2>1 DEF Tick, Answered
    <3>2. outstandingRxSeqNumMap[r] \in RxTrxn
      BY <3>1 DEF TypeOK
    <3> QED BY <1>5, <3>1, <3>2 DEF Tick, RxTrxn
  <2>2. ASSUME NEW r \in Requests, outstandingRxSeqNumMap[r] # None
        PROVE  outstandingRxSeqNumMap'[r] # None
    <3>1. outstandingRxSeqNumMap[r] \in RxTrxn
      BY <2>2 DEF TypeOK
    <3>2. CASE Answered(r)
      <4> DEFINE trxn == [outstandingRxSeqNumMap[r] EXCEPT !.hold = @ - 1]
      <4>1. trxn \in RxTrxn
        BY <1>5, <3>1, <3>2 DEF Tick, HoldOver, RxTrxn, Hold, T3, maxRetries
      <4>2. outstandingRxSeqNumMap'[r] = trxn
        BY <1>5, <3>2 DEF Tick
      <4> QED BY <4>1, <4>2, NoneAssumption
    <3>3. CASE ~ Answered(r)
      BY <1>5, <2>2, <3>3 DEF Tick
    <3> QED BY <3>2, <3>3
  <2>3. RxHonest'
    BY <1>5, <2>1 DEF Tick, RxHonest
  <2>4. RepeatFinds'
    <3>1. \A v \in Workers : pc[v] # "idle" => request[v].of \in Requests
      BY DEF WorkersBusy, TypeOK, Job
    <3> QED BY <1>5, <2>2, <3>1 DEF Tick, RepeatFinds, Rx, Key
  <2>5. OutstandingCalled'
    BY <1>5 DEF Tick, OutstandingCalled, Outstanding
  <2> QED
    BY <1>5, <2>3, <2>4, <2>5 DEF Tick, WorkersBusy, WorkersExecuted, NumbersFresh, NetHonest
<1> QED BY <1>1, <1>2, <1>3, <1>4, <1>5

\* CallInv is inductive.
LEMMA StepCallInv == CallInv /\ [Next]_vars => CallInv'
<1> SUFFICES ASSUME CallInv, [Next]_vars PROVE CallInv'
  OBVIOUS
<1>1. TypeOK'
  BY StepTypeOK DEF CallInv, CallFacts
<1>2. CASE Next
  <2>1. CallFacts'
    BY <1>2, PeerStepCallInv, PgwStepCallInv DEF Next
  <2> QED BY <1>1, <2>1 DEF CallInv
<1>3. CASE UNCHANGED vars
  BY <1>1, <1>3 DEF vars, peers, pgw, CallInv, CallFacts, WorkersBusy, WorkersExecuted, NumbersFresh,
     OutstandingCalled, Outstanding, NetHonest, RxHonest, RepeatFinds, Rx
<1> QED BY <1>2, <1>3

\* What the PGW knows of its requests stays true.
LEMMA CallInvariant == Spec => []CallInv
<1>1. Init => CallInv
  BY InitCallInv
<1>2. CallInv /\ [Next]_vars => CallInv'
  BY StepCallInv
<1> QED BY <1>1, <1>2, PTL DEF Spec

\* The transactions, the messages and the workers keep their types: no timer
\* runs below zero, no retry counter wraps.
THEOREM TypeCorrect == Spec => []TypeOK
<1>1. CallInv => TypeOK
  BY DEF CallInv
<1> QED BY CallInvariant, <1>1, PTL

\* Every step is a step of a remote call, or none that the sender or the history
\* of executions shows.
LEMMA StepImplementsRemoteCall ==
  ASSUME Prompt = TRUE, CallInv, [Next]_vars
  PROVE  [RemoteCall!Next]_(RemoteCall!vars)
<1> USE DEF CallInv, CallFacts
<1>1. ASSUME UNCHANGED <<status, executions>> PROVE UNCHANGED RemoteCall!vars
  BY <1>1 DEF RemoteCall!vars, Executed
<1>2. ASSUME NEW p \in Peers, NEW op \in Ops, Call(p, op) PROVE RemoteCall!Next
  <2> DEFINE r == <<p, seqNum[p]>>
  <2>1. r \in Requests /\ status[r] = "none"
    BY <1>2, RequestIsPair DEF Call, NumbersFresh, TypeOK, Requests
  <2>2. RemoteCall!Call(r)
    BY <1>2, <2>1 DEF Call, RemoteCall!Call, Executed, pgw
  <2> QED BY <2>1, <2>2 DEF RemoteCall!Next
<1>3. ASSUME NEW r \in Requests, Retransmit(r) PROVE UNCHANGED <<status, executions>>
  BY <1>3 DEF Retransmit, pgw
<1>4. ASSUME NEW r \in Requests, GiveUp(r) PROVE RemoteCall!Next
  <2>1. RemoteCall!Fail(r)
    BY <1>4 DEF GiveUp, Expired, OutstandingCalled, RemoteCall!Fail, Executed, pgw
  <2> QED BY <2>1 DEF RemoteCall!Next
<1>5. ASSUME NEW r \in Requests, Forget(r) PROVE UNCHANGED <<status, executions>>
  BY <1>5 DEF Forget, peers
<1>6. ASSUME NEW m \in net, Lose(m) PROVE UNCHANGED <<status, executions>>
  BY <1>6 DEF Lose, peers, pgw
<1>7. ASSUME NEW m \in net, ReceiveRsp(m) PROVE [RemoteCall!Next]_(RemoteCall!vars)
  <2> DEFINE r == <<m.to, m.request[2]>>
  <2>1. m \in Message /\ m.type = "rsp"
    BY <1>7 DEF ReceiveRsp, TypeOK
  <2>2. r = m.request /\ r \in Requests /\ executions[r] > 0
    BY <2>1, MessageKinds, RequestIsPair DEF NetHonest
  <2>3. CASE Outstanding(r)
    <3>1. RemoteCall!Answer(r)
      BY <1>7, <2>2, <2>3 DEF ReceiveRsp, OutstandingCalled, RemoteCall!Answer, Executed, pgw
    <3> QED BY <2>2, <3>1 DEF RemoteCall!Next
  <2>4. CASE ~ Outstanding(r)
    BY <1>1, <1>7, <2>4 DEF ReceiveRsp, pgw
  <2> QED BY <2>3, <2>4
<1>8. ASSUME NEW m \in net, NEW w \in Workers, Discard(w, m) \/ ReceiveReq(w, m)
      PROVE  UNCHANGED <<status, executions>>
  BY <1>8 DEF Discard, ReceiveReq, peers, pgw
<1>9. ASSUME NEW w \in Workers, Insert(w) PROVE [RemoteCall!Next]_(RemoteCall!vars)
  <2>1. request[w].of \in Requests /\ status[request[w].of] # "none"
    BY <1>9 DEF Insert, WorkersBusy, TypeOK, Job
  <2>2. CASE IsDuplicate(w)
    BY <1>1, <1>9, <2>2 DEF Insert, peers
  <2>3. CASE ~ IsDuplicate(w)
    <3>1. executions'[request[w].of] > 0
      BY <1>9, <2>1, <2>3 DEF Insert, TypeOK
    <3>2. \A r \in Requests : r # request[w].of => executions'[r] = executions[r]
      BY <1>9, <2>1, <2>3 DEF Insert, TypeOK
    <3>3. Executed' = Executed \cup {request[w].of}
      BY <2>1, <3>1, <3>2 DEF Executed
    <3>4. RemoteCall!Execute(request[w].of)
      BY <1>9, <2>1, <3>3 DEF Insert, RemoteCall!Execute, peers
    <3> QED BY <2>1, <3>4 DEF RemoteCall!Next
  <2> QED BY <2>2, <2>3
<1>10. ASSUME NEW w \in Workers, Repeat(w) \/ Send(w) \/ Remember(w) \/ Session(w)
       PROVE  UNCHANGED <<status, executions>>
  BY <1>10 DEF Repeat, Send, Remember, Session, peers
<1>11. ASSUME Tick PROVE UNCHANGED <<status, executions>>
  BY <1>11 DEF Tick
<1>12. ASSUME UNCHANGED vars PROVE UNCHANGED <<status, executions>>
  BY <1>12 DEF vars, peers, pgw
<1> QED
  BY <1>1, <1>2, <1>3, <1>4, <1>5, <1>6, <1>7, <1>8, <1>9, <1>10, <1>11, <1>12 DEF Next, Work

\* If a worker that has found a transaction looks into it before the event loop
\* deletes that transaction, a request is a remote call: whatever the network
\* does, its sender is told once how it ended, and an answer means that the PGW
\* has executed this very request.
THEOREM ImplementsRemoteCall ==
  ASSUME Prompt = TRUE
  PROVE  Spec => CallSpec
<1>1. Init => RemoteCall!Init
  BY DEF Init, RemoteCall!Init, Executed
<1>2. CallInv /\ [Next]_vars => [RemoteCall!Next]_(RemoteCall!vars)
  BY StepImplementsRemoteCall
<1> QED BY CallInvariant, <1>1, <1>2, PTL DEF Spec, CallSpec, RemoteCall!Spec

\* Whoever is answered as a duplicate has been executed: the transactions of
\* requests with the same sequence number from different peers are kept apart.
THEOREM OnlyExecutedRepeated == Spec => OnlyDuplicatesRepeated
<1>1. CallInv /\ [Next]_vars =>
        [\A w \in Workers : pc[w] = "insert" /\ pc'[w] = "repeat" =>
           executions[request[w].of] > 0]_vars
  <2> SUFFICES ASSUME CallInv, Next, NEW w \in Workers,
                      pc[w] = "insert", pc'[w] = "repeat"
               PROVE  executions[request[w].of] > 0
    OBVIOUS
  <2> USE DEF CallInv, CallFacts
  <2>1. PICK v \in Workers : Insert(v)
    <3>1. ASSUME UNCHANGED pc PROVE FALSE
      BY <3>1
    <3>2. ASSUME NEW v \in Workers, NEW m \in net, ReceiveReq(v, m) PROVE FALSE
      BY <3>2 DEF ReceiveReq, Takes, Goto, TypeOK
    <3>3. ASSUME NEW v \in Workers, Repeat(v) \/ Send(v) \/ Remember(v) \/ Session(v)
          PROVE  FALSE
      BY <3>3 DEF Repeat, Send, Remember, Session, Done, Goto, TypeOK
    <3> QED
      BY <3>1, <3>2, <3>3
      DEF Next, Call, Retransmit, GiveUp, Forget, Lose, ReceiveRsp, Discard, Work, Tick, pgw
  <2>2. v = w /\ IsDuplicate(w)
    BY <2>1 DEF Insert, Goto, TypeOK
  <2>3. request[w].of \in Requests
    BY DEF WorkersBusy, TypeOK, Job
  <2> QED BY <2>2, <2>3 DEF IsDuplicate, Rx, Key, RxHonest
<1> QED BY CallInvariant, <1>1, PTL DEF Spec, OnlyDuplicatesRepeated
-----------------------------------------------------------------------------
(* The duplicate request wait timer *)

\* Nothing has been executed.
LEMMA InitHoldInv == Init => HoldInv
<1> SUFFICES ASSUME Init PROVE HoldFacts
  BY InitCallInv DEF HoldInv
<1> QED BY DEF Init, HoldFacts, OneExecutor, HeldForHold, Executing, Answered

\* A step that touches neither the received transactions nor the history keeps
\* HoldFacts, if no worker comes to execute a request.
LEMMA QuietStepHold ==
  ASSUME HoldInv, UNCHANGED <<outstandingRxSeqNumMap, executions, sinceAnswer>>,
         \A w \in Workers :
            Executing(w)' => pc'[w] = pc[w] /\ request'[w] = request[w]
  PROVE  HoldFacts'
BY DEF HoldInv, HoldFacts, OneExecutor, HeldForHold, Executing, Rx, Answered, Key

\* HoldInv is inductive: Insert makes an executor of one worker, Send and Remember
\* bring the transaction to where the timer runs, and time takes from the timer
\* what it adds to the history.
LEMMA StepHoldFacts ==
  ASSUME HoldInv, [Next]_vars
  PROVE  HoldFacts'
<1> USE DEF HoldInv, HoldFacts, CallInv, CallFacts
<1> DEFINE rx == outstandingRxSeqNumMap
<1>0. \A w \in Workers : pc[w] # "idle" => request[w].of \in Requests
  BY DEF WorkersBusy, TypeOK, Job
<1>1. ASSUME UNCHANGED <<pgw, sinceAnswer>> PROVE HoldFacts'
  BY <1>1, QuietStepHold DEF pgw
<1>2. ASSUME NEW p \in Peers, NEW op \in Ops, Call(p, op) PROVE HoldFacts'
  BY <1>1, <1>2 DEF Call
<1>3. ASSUME NEW r \in Requests, Retransmit(r) \/ GiveUp(r) PROVE HoldFacts'
  BY <1>1, <1>3 DEF Retransmit, GiveUp
<1>4. ASSUME NEW m \in net, Lose(m) \/ ReceiveRsp(m) PROVE HoldFacts'
  BY <1>1, <1>4 DEF Lose, ReceiveRsp
<1>5. ASSUME NEW m \in net, NEW w \in Workers, Discard(w, m) PROVE HoldFacts'
  BY <1>1, <1>5 DEF Discard
<1>6. ASSUME NEW m \in net, NEW w \in Workers, ReceiveReq(w, m) PROVE HoldFacts'
  <2>1. \A v \in Workers : Executing(v)' => pc'[v] = pc[v] /\ request'[v] = request[v]
    BY <1>6 DEF ReceiveReq, Goto, Executing, TypeOK
  <2> QED BY <1>6, <2>1, QuietStepHold DEF ReceiveReq
<1>7. ASSUME NEW w \in Workers, Repeat(w) \/ Session(w) PROVE HoldFacts'
  <2>1. \A v \in Workers : Executing(v)' => pc'[v] = pc[v] /\ request'[v] = request[v]
    BY <1>7 DEF Repeat, Session, Done, Goto, Executing, TypeOK
  <2>2. UNCHANGED <<outstandingRxSeqNumMap, executions, sinceAnswer>>
    BY <1>7 DEF Repeat, Session
  <2> QED BY <2>1, <2>2, QuietStepHold
<1>8. ASSUME NEW w \in Workers, Insert(w), IsDuplicate(w) PROVE HoldFacts'
  <2>1. \A v \in Workers : Executing(v)' => pc'[v] = pc[v] /\ request'[v] = request[v]
    BY <1>8 DEF Insert, Goto, Executing, TypeOK
  <2> QED BY <1>8, <2>1, QuietStepHold DEF Insert
<1>9. ASSUME NEW w \in Workers, Insert(w), ~ IsDuplicate(w) PROVE HoldFacts'
  <2> DEFINE job == request[w]
             trxn == [pMsg |-> None, hold |-> 0]
  <2>1. job.of \in Requests /\ rx[job.of] = None
    BY <1>0, <1>9 DEF Insert, IsDuplicate, Rx, Key
  <2>2. trxn # None
    BY NoneAssumption DEF RxTrxn, Hold, T3, maxRetries
  <2>3. rx'[job.of] = trxn
    BY <1>9, <2>1 DEF Insert, SetRx, Key, TypeOK
  <2>4. \A r \in Requests : r # job.of =>
          rx'[r] = rx[r] /\ executions'[r] = executions[r] /\ sinceAnswer'[r] = sinceAnswer[r]
    BY <1>9, <2>1 DEF Insert, SetRx, Key, TypeOK
  <2>5. /\ request' = request /\ pc'[w] # "remember"
        /\ \A v \in Workers \ {w} : pc'[v] = pc[v]
    BY <1>9 DEF Insert, Goto, TypeOK
  <2>6. \A v \in Workers \ {w} : Executing(v) => request[v].of # job.of
    BY <2>1 DEF OneExecutor, Rx, Key
  <2>7. OneExecutor'
    <3> SUFFICES ASSUME NEW v \in Workers, Executing(v)'
                 PROVE  /\ rx'[request[v].of] # None /\ rx'[request[v].of].pMsg = None
                        /\ pc'[v] = "remember" => sinceAnswer'[request[v].of] # None
                        /\ \A u \in Workers \ {v} : Executing(u)' => request[u].of # request[v].of
      BY <2>5 DEF OneExecutor, Rx, Key
    <3>1. CASE v = w
      BY <2>2, <2>3, <2>5, <2>6, <3>1 DEF Executing
    <3>2. CASE v # w
      <4>1. Executing(v) /\ request[v].of \in Requests /\ request[v].of # job.of
        BY <1>0, <2>5, <2>6, <3>2 DEF Executing
      <4>2. rx'[request[v].of] # None /\ rx'[request[v].of].pMsg = None
        BY <2>4, <4>1 DEF OneExecutor, Rx, Key
      <4>3. pc'[v] = "remember" => sinceAnswer'[request[v].of] # None
        BY <2>4, <2>5, <3>2, <4>1 DEF OneExecutor
      <4>4. \A u \in Workers \ {v} : Executing(u)' => request[u].of # request[v].of
        BY <2>5, <3>2, <4>1 DEF OneExecutor, Executing
      <4> QED BY <4>2, <4>3, <4>4
    <3> QED BY <3>1, <3>2
  <2>8. HeldForHold'
    BY <2>2, <2>3, <2>4 DEF HeldForHold, Answered
  <2> QED BY <2>7, <2>8
<1>10. ASSUME NEW w \in Workers, Send(w) PROVE HoldFacts'
  <2> DEFINE job == request[w]
  <2>1. job.of \in Requests /\ rx[job.of] # None /\ rx[job.of].pMsg = None
    BY <1>0, <1>10 DEF Send, OneExecutor, Executing, Rx, Key
  <2>2. sinceAnswer'[job.of] = 0
        /\ \A r \in Requests : r # job.of => sinceAnswer'[r] = sinceAnswer[r]
    BY <1>10, <2>1 DEF Send, TypeOK
  <2>3. UNCHANGED <<outstandingRxSeqNumMap, executions, request>>
    BY <1>10 DEF Send
  <2>4. \A v \in Workers : Executing(v)' => Executing(v) /\ (v # w => pc'[v] = pc[v])
    BY <1>10 DEF Send, Goto, Executing, TypeOK
  <2>5. 0 # None
    BY NoneAssumption DEF Hold, T3, maxRetries
  <2>6. OneExecutor'
    <3> SUFFICES ASSUME NEW v \in Workers, Executing(v)'
                 PROVE  /\ rx[request[v].of] # None /\ rx[request[v].of].pMsg = None
                        /\ pc'[v] = "remember" => sinceAnswer'[request[v].of] # None
                        /\ \A u \in Workers \ {v} : Executing(u)' => request[u].of # request[v].of
      BY <2>3 DEF OneExecutor, Rx, Key
    <3>1. request[v].of \in Requests /\ Executing(v)
      BY <1>0, <2>4 DEF Executing
    <3>2. pc'[v] = "remember" => sinceAnswer'[request[v].of] # None
      <4>1. CASE request[v].of = job.of
        BY <2>2, <2>5, <4>1
      <4>2. CASE request[v].of # job.of
        BY <2>2, <2>4, <3>1, <4>2 DEF OneExecutor
      <4> QED BY <4>1, <4>2
    <3> QED BY <2>4, <3>1, <3>2 DEF OneExecutor, Rx, Key
  <2>7. HeldForHold'
    BY <2>1, <2>2, <2>3 DEF HeldForHold, Answered
  <2> QED BY <2>6, <2>7
<1>11. ASSUME NEW w \in Workers, Remember(w) PROVE HoldFacts'
  <2> DEFINE job == request[w]
             trxn == [pMsg |-> job.of, hold |-> HoldTime]
  <2>1. /\ job.of \in Requests /\ sinceAnswer[job.of] # None
        /\ \A v \in Workers \ {w} : Executing(v) => request[v].of # job.of
    BY <1>0, <1>11 DEF Remember, OneExecutor, Executing
  <2>2. trxn # None /\ trxn.hold = Hold
    BY <2>1, NoneAssumption DEF RxTrxn, HoldTime, Hold, T3, maxRetries
  <2>3. rx'[job.of] = trxn /\ \A r \in Requests : r # job.of => rx'[r] = rx[r]
    BY <1>11, <2>1 DEF Remember, SetRx, Key, TypeOK
  <2>4. UNCHANGED <<executions, sinceAnswer, request>>
    BY <1>11 DEF Remember
  <2>5. \A v \in Workers : Executing(v)' => v # w /\ Executing(v) /\ pc'[v] = pc[v]
    BY <1>11 DEF Remember, Goto, Executing, TypeOK
  <2>6. OneExecutor'
    <3> SUFFICES ASSUME NEW v \in Workers, Executing(v)'
                 PROVE  /\ rx'[request[v].of] # None /\ rx'[request[v].of].pMsg = None
                        /\ pc'[v] = "remember" => sinceAnswer[request[v].of] # None
                        /\ \A u \in Workers \ {v} : Executing(u)' => request[u].of # request[v].of
      BY <2>4 DEF OneExecutor, Rx, Key
    <3>1. request[v].of \in Requests /\ request[v].of # job.of /\ Executing(v)
      BY <1>0, <2>1, <2>5 DEF Executing
    <3> QED BY <2>3, <2>5, <3>1 DEF OneExecutor, Rx, Key
  <2>7. HeldForHold'
    <3>1. sinceAnswer[job.of] \in 0 .. Hold
      BY <2>1 DEF TypeOK
    <3>2. sinceAnswer[job.of] + Hold >= Hold
      BY <3>1, TrxnTypes
    <3> QED BY <2>1, <2>2, <2>3, <2>4, <3>2 DEF HeldForHold, Answered
  <2> QED BY <2>6, <2>7
<1>12. ASSUME NEW r \in Requests, Forget(r) PROVE HoldFacts'
  <2>1. rx[r] \in RxTrxn /\ rx[r].pMsg # None /\ rx[r].hold = 0
    BY <1>12 DEF Forget, HoldOver, Answered, TypeOK
  <2>2. sinceAnswer[r] = Hold
    <3>1. sinceAnswer[r] \in 0 .. Hold /\ sinceAnswer[r] + 0 >= Hold
      BY <1>12, <2>1 DEF Forget, HoldOver, HeldForHold, TypeOK
    <3> QED BY <3>1, TrxnTypes
  <2>3. rx'[r] = None /\ \A q \in Requests : q # r => rx'[q] = rx[q]
    BY <1>12 DEF Forget, AfterHold, TypeOK
  <2>4. UNCHANGED <<executions, sinceAnswer, request, pc>>
    BY <1>12 DEF Forget
  <2>5. OneExecutor'
    BY <1>0, <2>1, <2>3, <2>4 DEF OneExecutor, Executing, Rx, Key
  <2>6. HeldForHold'
    BY <2>2, <2>3, <2>4 DEF HeldForHold, Answered
  <2> QED BY <2>5, <2>6
<1>13. CASE Tick
  <2>1. UNCHANGED <<executions, request, pc>>
    BY <1>13 DEF Tick
  <2>2. ASSUME NEW r \in Requests, ~ Answered(r) PROVE rx'[r] = rx[r]
    BY <1>13, <2>2 DEF Tick
  <2>3. ASSUME NEW r \in Requests, Answered(r)
        PROVE  /\ rx'[r] # None /\ rx'[r].hold = rx[r].hold - 1
               /\ rx[r].hold \in 1 .. Hold /\ rx'[r].pMsg = rx[r].pMsg
    <3>1. rx[r] \in RxTrxn /\ rx[r].hold # 0
      BY <1>13, <2>3 DEF Tick, HoldOver, Answered, TypeOK
    <3>2. rx'[r] = [rx[r] EXCEPT !.hold = @ - 1]
      BY <1>13, <2>3 DEF Tick
    <3>3. rx[r].hold \in 1 .. Hold
      BY <3>1 DEF RxTrxn, Hold, T3, maxRetries
    <3>4. [rx[r] EXCEPT !.hold = @ - 1] \in RxTrxn
      BY <3>1 DEF RxTrxn, Hold, T3, maxRetries
    <3>5. rx'[r].hold = rx[r].hold - 1 /\ rx'[r].pMsg = rx[r].pMsg
      BY <3>1, <3>2 DEF RxTrxn
    <3> QED BY <3>2, <3>3, <3>4, <3>5, NoneAssumption
  <2>4. ASSUME NEW r \in Requests
        PROVE  /\ sinceAnswer[r] # None => sinceAnswer'[r] # None
               /\ sinceAnswer[r] \in 0 .. Hold - 1 => sinceAnswer'[r] = sinceAnswer[r] + 1
               /\ sinceAnswer[r] \notin 0 .. Hold - 1 => sinceAnswer'[r] = sinceAnswer[r]
    <3>1. \A n \in 0 .. Hold - 1 : n + 1 # None
      BY NoneAssumption DEF Hold, T3, maxRetries
    <3> QED BY <1>13, <3>1 DEF Tick
  <2>5. OneExecutor'
    <3> SUFFICES ASSUME NEW v \in Workers, Executing(v)
                 PROVE  /\ rx'[request[v].of] # None /\ rx'[request[v].of].pMsg = None
                        /\ pc[v] = "remember" => sinceAnswer'[request[v].of] # None
      BY <2>1 DEF OneExecutor, Executing, Rx, Key
    <3>1. request[v].of \in Requests /\ ~ Answered(request[v].of)
      BY <1>0 DEF Executing, OneExecutor, Rx, Key, Answered
    <3> QED BY <2>2, <2>4, <3>1 DEF OneExecutor, Rx, Key
  <2>6. HeldForHold'
    <3> SUFFICES ASSUME NEW r \in Requests
                 PROVE  /\ executions[r] > 0 /\ rx'[r] = None => sinceAnswer'[r] = Hold
                        /\ rx'[r] # None /\ rx'[r].pMsg # None =>
                             sinceAnswer'[r] # None /\ sinceAnswer'[r] + rx'[r].hold >= Hold
      BY <2>1 DEF HeldForHold, Answered
    <3>1. CASE Answered(r)
      <4>1. sinceAnswer[r] \in 0 .. Hold /\ sinceAnswer[r] + rx[r].hold >= Hold
        BY <3>1 DEF HeldForHold, TypeOK
      <4>2. sinceAnswer'[r] + rx'[r].hold >= Hold
        BY <2>3, <2>4, <3>1, <4>1, TrxnTypes
      <4> QED BY <2>3, <2>4, <3>1, <4>1, <4>2 DEF HeldForHold
    <3>2. CASE ~ Answered(r)
      <4>1. Hold \notin 0 .. Hold - 1
        BY TrxnTypes
      <4> QED BY <2>2, <2>4, <3>2, <4>1 DEF HeldForHold, Answered
    <3> QED BY <3>1, <3>2
  <2> QED BY <2>5, <2>6
<1>14. CASE UNCHANGED vars
  BY <1>1, <1>14 DEF vars
<1> QED
  BY <1>2, <1>3, <1>4, <1>5, <1>6, <1>7, <1>8, <1>9, <1>10, <1>11, <1>12, <1>13, <1>14
  DEF Next, Work

\* A request is executed again only when Hold has passed since its last answer:
\* however its copies are lost, repeated or delayed, and whichever worker
\* receives them.
THEOREM NeverAgainWhileHeld == Spec => NotAgainWhileHeld
<1>1. Init => HoldInv
  BY InitHoldInv
<1>2. HoldInv /\ [Next]_vars => HoldInv'
  BY StepCallInv, StepHoldFacts DEF HoldInv
<1>3. HoldInv /\ [Next]_vars =>
        [\A r \in Requests :
           executions[r] # 0 /\ executions'[r] # executions[r] => sinceAnswer[r] = Hold]_vars
  <2> SUFFICES ASSUME HoldInv, Next, NEW r \in Requests,
                      executions[r] # 0, executions'[r] # executions[r]
               PROVE  sinceAnswer[r] = Hold
    OBVIOUS
  <2> USE DEF HoldInv, CallInv, CallFacts
  <2>1. PICK w \in Workers : Insert(w)
    BY DEF Next, Call, Retransmit, GiveUp, Forget, Lose, ReceiveRsp, Discard, ReceiveReq, Work,
       Repeat, Send, Remember, Session, Tick, pgw
  <2>2. r = request[w].of /\ outstandingRxSeqNumMap[r] = None
    BY <2>1 DEF Insert, IsDuplicate, Rx, Key, TypeOK
  <2>3. executions[r] > 0
    BY DEF TypeOK
  <2> QED BY <2>2, <2>3 DEF HoldFacts, HeldForHold
<1> QED BY <1>1, <1>2, <1>3, PTL DEF Spec, NotAgainWhileHeld
=============================================================================
