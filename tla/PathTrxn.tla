------------------------------ MODULE PathTrxn ------------------------------
(***************************************************************************)
(* The requests that a GTP-U stack sends on a path, outside of any tunnel  *)
(* (NwGtpv1uTrxn.c, and nwGtpv1uInitialReq in NwGtpv1u.c).  The GRE stack  *)
(* has the same code in NwGreTrxn.c; module Gre uses this one.             *)
(*                                                                         *)
(* A request is a message from the pool.  Its transaction sends it, keeps  *)
(* it, and sends it again each time its timer expires.  The stack ignores  *)
(* echo responses (NwGtpv1u.c, NW_GTP_ECHO_RSP in nwGtpv1uProcessUdpReq)   *)
(* and looks up no transaction, so that nothing but the timer ends one:    *)
(* the user is told of a failure after the last retransmission.            *)
(*                                                                         *)
(* A stack is used by one thread.  Its UDP entity always reports success.  *)
(* All requests go to one peer.                                            *)
(***************************************************************************)
EXTENDS Naturals, Sequences, FiniteSets

CONSTANTS
  Requests,   \* that the user makes; bound: each is made again when it has failed
  Trxns,      \* memory for transactions; bound: one for each request
  Messages,   \* memory for messages; bound: one for each request, and one more
  SeqLimit,   \* numbers of requests wrap here, 0x800000 in the code
  None,
  Old         \* octets of a message that was given back: nobody shall read them

ASSUME PathTrxnAssumption == SeqLimit \in Nat \ {0} /\ None \notin Trxns \cup Messages

MaxRetries == 2

VARIABLES
  trxnPool,   \* gpGtpv1uTrxnPool, used last first
  trxn,       \* content of every transaction, None if it was never used
  timers,     \* transactions whose timer runs
  msgPool,    \* gpGtpv1uMsgPool, used last first
  buf,        \* octets of every message, None if it was never used
  seq,        \* the number of the next request
  outstandingTxSeqNumMap, \* transactions in the tree of the stack
  asked,      \* requests of the user that have not failed yet
  sends       \* history: what each transaction has sent since it was started

messages == <<msgPool, buf>>
pathVars == <<trxnPool, trxn, timers, seq, outstandingTxSeqNumMap, asked, sends>>

PathInit ==
  /\ trxnPool = <<>>
  /\ trxn = [t \in Trxns |-> None]
  /\ timers = {}
  /\ msgPool = <<>>
  /\ buf = [m \in Messages |-> None]
  /\ seq = 0
  /\ outstandingTxSeqNumMap = {}
  /\ asked = {}
  /\ sends = [t \in Trxns |-> <<>>]

\* What a pool gives out: the block returned last, or a block never used, if any.
Given(pool, content) ==
  IF pool # <<>> THEN {Head(pool)}
  ELSE LET fresh == {b \in DOMAIN content : content[b] = None}
       IN IF fresh = {} THEN {} ELSE {CHOOSE b \in fresh : TRUE}

Rest(pool) == IF pool = <<>> THEN pool ELSE Tail(pool)

\* The header of a request: no flag that a GRE stack would see, TEID zero, and
\* the number of the transaction, not that of the message.
RequestOctets(r, n) == [flags |-> {}, words |-> <<0, n, r>>]

FaultyNewTrxn(t, m, r) ==    \* the retries of the last request are left
  [maxRetries |-> IF trxn[t] = None THEN MaxRetries ELSE trxn[t].maxRetries,
   seqNum |-> seq, msg |-> m, req |-> r]

\* req is the user's request, which the code has no record of: it leaves
\* hUlpTrxn as it is.
NewTrxn(t, m, r) ==
  [maxRetries |-> MaxRetries, seqNum |-> seq, msg |-> m, req |-> r]

\* Start of a transaction that sends message m.
CreateAndSend(t, m, r) ==
  /\ trxn' = [trxn EXCEPT ![t] = NewTrxn(t, m, r)]
  /\ buf' = [buf EXCEPT ![m] = RequestOctets(r, seq)]
  /\ sends' = [sends EXCEPT ![t] = <<RequestOctets(r, seq)>>]
  /\ timers' = timers \cup {t}

\* RB_INSERT: a tree that has the number already stays as it is.  A transaction
\* that was given back is still in it; inserted again it is given a new place,
\* which with two transactions leaves both in the tree.
Outstanding(t) ==
  IF \E x \in outstandingTxSeqNumMap \ {t} : trxn[x].seqNum = seq
  THEN outstandingTxSeqNumMap
  ELSE outstandingTxSeqNumMap \cup {t}

\* nwGtpv1uMsgNew, then nwGtpv1uInitialReq.
InitialReq(r) ==
  /\ r \notin asked
  /\ \E t \in Given(trxnPool, trxn), m \in Given(msgPool, buf) :
       /\ CreateAndSend(t, m, r)
       /\ outstandingTxSeqNumMap' = Outstanding(t)
  /\ trxnPool' = Rest(trxnPool)
  /\ msgPool' = Rest(msgPool)
  /\ seq' = (seq + 1) % SeqLimit
  /\ asked' = asked \cup {r}

\* nwGtpv1uTrxnSendMsgRetransmission
Sends(t) == Append(sends[t], buf[trxn[t].msg])

FaultyRetry(t) ==    \* the timer is not started again
  /\ trxn' = [trxn EXCEPT ![t].maxRetries = @ - 1]
  /\ sends' = [sends EXCEPT ![t] = Sends(t)]
  /\ timers' = timers \ {t}

\* The timer is started again.
Retry(t) ==
  /\ trxn' = [trxn EXCEPT ![t].maxRetries = @ - 1]
  /\ sends' = [sends EXCEPT ![t] = Sends(t)]
  /\ UNCHANGED timers

\* The tree is left alone (nothing looks a transaction up in it).  The message
\* and the request of a free transaction are not read again: forgetting them only
\* makes states equal.
DeleteTrxn(t) ==
  /\ trxn' = [trxn EXCEPT ![t].msg = None, ![t].req = None]
  /\ trxnPool' = <<t>> \o trxnPool
  /\ msgPool' = <<trxn[t].msg>> \o msgPool
  /\ buf' = [buf EXCEPT ![trxn[t].msg] = Old]
  /\ sends' = [sends EXCEPT ![t] = <<>>]
  /\ timers' = timers \ {t}

PeerRspTimeout(t) ==
  /\ t \in timers
  /\ \/ /\ trxn[t].maxRetries > 0
        /\ Retry(t)
        /\ UNCHANGED <<messages, trxnPool, asked>>
     \/ /\ trxn[t].maxRetries = 0
        /\ DeleteTrxn(t)
        /\ asked' = asked \ {trxn[t].req}    \* RSP_FAILURE
  /\ UNCHANGED <<seq, outstandingTxSeqNumMap>>

-----------------------------------------------------------------------------
(* Properties *)

\* The user is told that a request has failed after it was sent four times with
\* the same octets, also when its transaction and its message had been used for
\* other things before (NwGtpv1uTrxn.c:80-119, 172-219).
FailsAfterFourTries ==
  [][\A r \in asked \ asked' : \E t \in timers \ timers' :
       /\ trxn[t].req = r
       /\ \E n \in 0 .. SeqLimit - 1 :
            Sends(t) = [i \in 1 .. MaxRetries + 2 |-> RequestOctets(r, n)]
    ]_<<messages, pathVars>>

\* Every request fails some time: no response is ever awaited, and the user never
\* waits forever (NwGtpv1uTrxn.c:94-117).
EveryRequestFails == \A r \in Requests : r \in asked ~> r \notin asked
=============================================================================
