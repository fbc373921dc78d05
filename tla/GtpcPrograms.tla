---------------------------- MODULE GtpcPrograms ----------------------------
(***************************************************************************)
(* The two test programs of the GTPv2-C stack after start-up, in libevent's*)
(* loop: egtping, which sends echo requests one after the other, and the   *)
(* hello program, which sends one and answers session requests.  A program *)
(* and its stack run in one thread, a step is what one event leads to.     *)
(* The host it talks to runs the same stack and answers echo requests; it  *)
(* also sends requests of its own, and messages of GTP version 1.  The     *)
(* network loses, duplicates and reorders.                                 *)
(***************************************************************************)
EXTENDS Naturals, FiniteSets

CONSTANTS
  SeqNumWrap,  \* the stack's sequence numbers wrap here, at 0x800000 in the code
  PingCounts,  \* values of egtping's option -c
  Endless,     \* the default of that option, 0xffffffff
  MaxNet,      \* bound: messages under way, what is sent beyond it is lost
  None

ASSUME GtpcProgramsAssumption ==
  /\ SeqNumWrap \in Nat \ {0} /\ MaxNet \in Nat \ {0}
  /\ PingCounts \subseteq Nat
  /\ Endless \notin PingCounts
  /\ None \notin 0 .. 2

GtpcProgram == {"egtping", "gtpcHello"}

\* Session requests of the other host: number n has n Recovery IEs.
SessionReqs == 0 .. 2

maxRetries == 2

VARIABLES
  seqNum,                  \* the sequence number of the next request
  outstandingTxSeqNumMap,  \* per sequence number: retries left, or None
  outstandingRxSeqNumMap,  \* per session request: "unanswered", the cause sent, or None
  pingCount,               \* pPeer->pingCount
  net                      \* messages under way, either way

testVars == <<seqNum, outstandingTxSeqNumMap, outstandingRxSeqNumMap, pingCount, net>>

Message(to, type, seq, cause) == [to |-> to, type |-> type, seq |-> seq, cause |-> cause]
ToPeer(type, seq) == Message("peer", type, seq, None)
ToUs(type, seq) == Message("us", type, seq, None)

TestInit(program) ==
  /\ seqNum = 0
  /\ outstandingTxSeqNumMap = [s \in 0 .. SeqNumWrap - 1 |-> None]
  /\ outstandingRxSeqNumMap = [s \in SessionReqs |-> None]
  /\ pingCount \in IF program = "egtping" THEN PingCounts \cup {Endless} ELSE {0}
  /\ net = {}

-----------------------------------------------------------------------------
(* The UDP entity and the network. *)

\* nwGtpv2cUdpDataReq.  egtping takes a datagram that cannot be sent for sent.
Sends(rest, messages) ==
  net' = IF Cardinality(rest \cup messages) <= MaxNet THEN rest \cup messages ELSE rest

Lose(m) ==
  /\ m \in net
  /\ net' = net \ {m}
  /\ UNCHANGED <<seqNum, outstandingTxSeqNumMap, outstandingRxSeqNumMap, pingCount>>

\* Where egtping reads the error of an earlier datagram instead of a message, it
\* closes its socket, with all that waits in it, and opens a new one.
UdpReset(program) ==
  /\ program = "egtping"
  /\ net' = {m \in net : m.to = "peer"}
  /\ UNCHANGED <<seqNum, outstandingTxSeqNumMap, outstandingRxSeqNumMap, pingCount>>

\* A message to us is read from the socket; it may come again.
Reads(m, rest) == m \in net /\ m.to = "us" /\ rest \in {net, net \ {m}}

-----------------------------------------------------------------------------
(* Requests of the program. *)

\* nwGtpv2cTrxnNew
NextSeqNum == (seqNum + 1) % SeqNumWrap

\* nwGtpv2cUlpSendEchoRequestToPeer: the message, through nwGtpv2cProcessUlpReq
\* and nwGtpv2cHandleUlpInitialReq, with the answered request taken out first.
SendEcho(transactions, rest) ==
  /\ outstandingTxSeqNumMap' = [transactions EXCEPT ![seqNum] = maxRetries]
  /\ seqNum' = NextSeqNum
  /\ Sends(rest, {ToPeer("echoReq", seqNum)})

\* main sends the first request just before the loop.
FirstEcho == SendEcho(outstandingTxSeqNumMap, net) /\ UNCHANGED <<outstandingRxSeqNumMap, pingCount>>

FaultyWithout(s) == outstandingTxSeqNumMap   \* the answered request stays in the tree

Without(s) == [outstandingTxSeqNumMap EXCEPT ![s] = None]

\* What an upper layer does that sends nothing more.
NoEcho(s, rest) ==
  outstandingTxSeqNumMap' = Without(s) /\ net' = rest /\ UNCHANGED seqNum

\* egtping, NW_GTPV2C_ULP_API_TRIGGERED_RSP_IND: sleeps, sends the next request,
\* and counts.
PingAnswered(s, rest) ==
  IF pingCount # 0
  THEN /\ SendEcho(Without(s), rest)
       /\ pingCount' = IF pingCount = Endless THEN pingCount ELSE pingCount - 1
  ELSE NoEcho(s, rest) /\ UNCHANGED pingCount

\* nwGtpv2cHandleTriggeredRsp; the hello program throws an echo response away.
EchoRsp(program, m) ==
  /\ m.type = "echoRsp"
  /\ \E rest \in SUBSET net :
       /\ Reads(m, rest)
       /\ CASE outstandingTxSeqNumMap[m.seq] = None ->
                 net' = rest /\ UNCHANGED <<seqNum, outstandingTxSeqNumMap, pingCount>>
            [] outstandingTxSeqNumMap[m.seq] # None /\ program = "egtping" ->
                 PingAnswered(m.seq, rest)
            [] outstandingTxSeqNumMap[m.seq] # None /\ program # "egtping" ->
                 NoEcho(m.seq, rest) /\ UNCHANGED pingCount
  /\ UNCHANGED outstandingRxSeqNumMap

\* nwGtpv2cTrxnPeerRspWaitTimeout, called from the timer that the mini timer
\* manager has started.  egtping tries again as often as it fails.
RspTimeout(program, s) ==
  /\ outstandingTxSeqNumMap[s] # None
  /\ IF outstandingTxSeqNumMap[s] > 0
     THEN /\ outstandingTxSeqNumMap' = [outstandingTxSeqNumMap EXCEPT ![s] = @ - 1]
          /\ Sends(net, {ToPeer("echoReq", s)}) /\ UNCHANGED seqNum
     ELSE IF program = "egtping" THEN SendEcho(Without(s), net) ELSE NoEcho(s, net)
  /\ UNCHANGED <<outstandingRxSeqNumMap, pingCount>>

-----------------------------------------------------------------------------
(* Requests of the other host. *)

\* nwGtpv2cHandleEchoReq: by the stack, whichever the program.
EchoReq(m) ==
  /\ m.type = "echoReq"
  /\ \E rest \in SUBSET net : Reads(m, rest) /\ Sends(rest, {ToPeer("echoRsp", m.seq)})
  /\ UNCHANGED <<seqNum, outstandingTxSeqNumMap, outstandingRxSeqNumMap, pingCount>>

\* nwGtpv2cSendVersionNotSupportedInd
OtherVersion(m) ==
  /\ m.type = "version1"
  /\ \E rest \in SUBSET net :
       Reads(m, rest) /\ Sends(rest, {ToPeer("versionNotSupported", m.seq)})
  /\ UNCHANGED <<seqNum, outstandingTxSeqNumMap, outstandingRxSeqNumMap, pingCount>>

\* nwGtpv2cMsgParserRun of the hello program, whose parser has one mandatory IE.
\* It counts the mandatory IEs it meets: one that is repeated is missing, too.
ParserRun(recoveries) == IF recoveries # 1 THEN "mandatoryIeMissing" ELSE "accepted"

\* nwGtpv2cHandleInitialReq, the upper layer's callback and, for a request that
\* is not new, the answer that is remembered.  egtping answers none.
CreateSessionReq(program, m) ==
  LET known == outstandingRxSeqNumMap[m.seq]
      cause == CASE known # None -> known
                 [] known = None /\ program = "gtpcHello" -> ParserRun(m.seq)
                 [] known = None /\ program # "gtpcHello" -> "unanswered"
  IN  /\ m.type = "createSessionReq"
      /\ \E rest \in SUBSET net :
           /\ Reads(m, rest)
           /\ Sends(rest, IF cause = "unanswered" THEN {}
                          ELSE {Message("peer", "createSessionRsp", m.seq, cause)})
      /\ outstandingRxSeqNumMap' = [outstandingRxSeqNumMap EXCEPT ![m.seq] = cause]
      /\ UNCHANGED <<seqNum, outstandingTxSeqNumMap, pingCount>>

\* nwGtpv2cTrxnDuplicateRequestWaitTimeout: of a request that was answered.
Forget(s) ==
  /\ outstandingRxSeqNumMap[s] \notin {None, "unanswered"}
  /\ outstandingRxSeqNumMap' = [outstandingRxSeqNumMap EXCEPT ![s] = None]
  /\ UNCHANGED <<seqNum, outstandingTxSeqNumMap, pingCount, net>>

-----------------------------------------------------------------------------
(* The other host. *)

PeerAnswers(m) ==
  /\ m \in net /\ m.to = "peer" /\ m.type = "echoReq"
  /\ \E rest \in {net, net \ {m}} : Sends(rest, {ToUs("echoRsp", m.seq)})
  /\ UNCHANGED <<seqNum, outstandingTxSeqNumMap, outstandingRxSeqNumMap, pingCount>>

PeerSends ==
  /\ \E m \in {ToUs("echoReq", 0), ToUs("version1", 0)}
              \cup {ToUs("createSessionReq", s) : s \in SessionReqs} :
       Sends(net, {m})
  /\ UNCHANGED <<seqNum, outstandingTxSeqNumMap, outstandingRxSeqNumMap, pingCount>>

-----------------------------------------------------------------------------
\* nwGtpv2cProcessUdpReq
ProcessUdpReq(program, m) ==
  EchoReq(m) \/ EchoRsp(program, m) \/ CreateSessionReq(program, m) \/ OtherVersion(m)

\* Where the hello program cannot send, its assertion fails.
SendFails(program) ==
  /\ program = "gtpcHello"
  /\ \/ \E m \in net : m.to = "us" /\ m.type # "echoRsp"
     \/ \E s \in DOMAIN outstandingTxSeqNumMap : outstandingTxSeqNumMap[s] \notin {None, 0}
  /\ UNCHANGED testVars

TestRuns(program) ==
  \/ \E m \in net : ProcessUdpReq(program, m) \/ Lose(m) \/ PeerAnswers(m)
  \/ \E s \in 0 .. SeqNumWrap - 1 : RspTimeout(program, s)
  \/ \E s \in SessionReqs : Forget(s)
  \/ UdpReset(program)
  \/ PeerSends
=============================================================================
