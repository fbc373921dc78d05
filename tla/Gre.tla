-------------------------------- MODULE Gre ---------------------------------
(***************************************************************************)
(* The GRE stack (nw-gre): tunnel end points by key, packets through them, *)
(* and the requests of module PathTrxn, whose messages come from the same  *)
(* pool.  The data plane creates such a stack only for a GRE service, and  *)
(* the SAE gateway asks for none; it is used by its test program, whose    *)
(* user gives back a message that it has received.  The stack has no mutex *)
(* and is used by one thread.                                              *)
(*                                                                         *)
(* Packets go to a peer that runs the same code: what this node sends is   *)
(* what it may receive, in any order, any number of times or not at all.   *)
(* Octets are 32-bit words; the first is the flags, here a set.            *)
(***************************************************************************)
EXTENDS PathTrxn

CONSTANTS
  Sessions,    \* of the user
  Keys,        \* GRE keys; bound: those that other words of a header may look like
  Ends,        \* memory for end points; bound: one for each session
  Payloads,
  InFlight     \* bound: packets on the wire

ASSUME GreAssumption == InFlight \in Nat /\ None \notin Ends

VARIABLES
  endPool,     \* gpGreTunnelEndPointPool
  end,         \* content of every end point
  teidMap,     \* end points that packets can find
  handle,      \* the end point of each session, as the user knows it
  wire,        \* packets, with the key and the payload that they were sent for
  given        \* history: the last payload given to the user, or None

greVars == <<endPool, end, teidMap, handle, wire, given>>
vars    == <<messages, pathVars, greVars>>

Init ==
  /\ PathInit
  /\ endPool = <<>>
  /\ end = [e \in Ends |-> None]
  /\ teidMap = {}
  /\ handle = [s \in Sessions |-> None]
  /\ wire = {}
  /\ given = None

-----------------------------------------------------------------------------
(* End points *)

NewEndPoint(s, k) == [key |-> k, session |-> s]

\* nwGreCompareGreKey: an end point with this key.
EndPointOf(k) == {e \in teidMap : end[e].key = k}

\* With a key that exists already the new end point is given back, and the user
\* is told of a failure.
CreateTunnelEndPoint(s, k) ==
  /\ handle[s] = None
  /\ \E e \in Given(endPool, end) :
       /\ end' = [end EXCEPT ![e] = NewEndPoint(s, k)]
       /\ \/ /\ EndPointOf(k) = {}
             /\ teidMap' = teidMap \cup {e}
             /\ handle' = [handle EXCEPT ![s] = e]
             /\ endPool' = Rest(endPool)
          \/ /\ EndPointOf(k) # {}
             /\ endPool' = <<e>> \o Rest(endPool)
             /\ UNCHANGED <<teidMap, handle>>
  /\ given' = None
  /\ UNCHANGED <<messages, pathVars, wire>>

DestroyTunnelEndPoint(s) ==
  /\ handle[s] # None
  /\ teidMap' = teidMap \ {handle[s]}
  /\ endPool' = <<handle[s]>> \o endPool
  /\ handle' = [handle EXCEPT ![s] = None]
  /\ given' = None
  /\ UNCHANGED <<messages, pathVars, end, wire>>

-----------------------------------------------------------------------------
(* Packets *)

Flags == {"csum", "key", "seq"}

Word(flag, flags, w) == IF flag \in flags THEN <<w>> ELSE <<>>

\* nwGreGpduMsgNew puts the payload where the header will end.
HeaderLength(flags) == Cardinality(flags)

\* nwGreSendto: the checksum is zero, and the number is the flag for a number.
PacketOctets(flags, k, p) ==
  [flags |-> flags,
   words |-> Word("csum", flags, 0) \o Word("key", flags, k) \o Word("seq", flags, 1) \o <<p>>]

\* A message is taken, sent and given back.
Sendto(flags, k, p) ==
  /\ Cardinality(wire) < InFlight
  /\ \E m \in Given(msgPool, buf) :
       /\ buf' = [buf EXCEPT ![m] = Old]
       /\ msgPool' = <<m>> \o Rest(msgPool)
  /\ wire' = wire \cup {[octets |-> PacketOctets(flags, k, p), key |-> k, payload |-> p]}
  /\ given' = None
  /\ UNCHANGED <<pathVars, endPool, end, teidMap, handle>>

\* nwGreTrxnCreateAndSendMsg lays its header out like that of GTP: none of its
\* flags is where a GRE stack looks for it.
GreRequest(r) == [octets |-> RequestOctets(r, seq), key |-> None, payload |-> None]

SendRequest(r) ==
  /\ Cardinality(wire) < InFlight
  /\ InitialReq(r)
  /\ wire' = wire \cup {GreRequest(r)}
  /\ given' = None
  /\ UNCHANGED <<endPool, end, teidMap, handle>>

\* What the timer sends is lost, or was on the wire already.
Timeout(t) ==
  /\ PeerRspTimeout(t)
  /\ given' = None
  /\ UNCHANGED <<endPool, end, teidMap, handle, wire>>

Lose(w) ==
  /\ wire' = wire \ {w}
  /\ given' = None
  /\ UNCHANGED <<messages, pathVars, endPool, end, teidMap, handle>>

FaultyKeyOf(octets) == octets.words[1]    \* wherever the checksum is

\* nwGreProcessGpdu looks behind the checksum for the key.  (The greKey of the
\* message, which nwGreMsgFromBufferNew reads elsewhere, is not used.)
KeyOf(octets) == IF "csum" \in octets.flags THEN octets.words[2] ELSE octets.words[1]

\* nwGreMsgGetTpdu
Tpdu(octets) == octets.words[HeaderLength(octets.flags) + 1]

\* nwGreSessionSendMsgApiToUlpEntity, and the user's nwGreMsgDelete.
SendToUser(e, octets) ==
  /\ given' = [session |-> end[e].session, key |-> end[e].key, payload |-> Tpdu(octets)]
  /\ \E m \in Given(msgPool, buf) :
       /\ buf' = [buf EXCEPT ![m] = Old]
       /\ msgPool' = <<m>> \o Rest(msgPool)

\* A packet without a key, or with the key of no end point, is dropped.
ProcessGpdu(w) ==
  /\ \/ /\ "key" \in w.octets.flags
        /\ \E e \in EndPointOf(KeyOf(w.octets)) : SendToUser(e, w.octets)
     \/ /\ "key" \in w.octets.flags => EndPointOf(KeyOf(w.octets)) = {}
        /\ given' = None
        /\ UNCHANGED messages
  /\ UNCHANGED <<pathVars, endPool, end, teidMap, handle, wire>>

UlpReq ==
  \/ \E s \in Sessions, k \in Keys : CreateTunnelEndPoint(s, k)
  \/ \E s \in Sessions : DestroyTunnelEndPoint(s)
  \/ \E r \in Requests : SendRequest(r)
  \/ \E flags \in SUBSET Flags, k \in Keys, p \in Payloads : Sendto(flags, k, p)

UdpReq == \E w \in wire : ProcessGpdu(w)

ProcessTimeout == \E t \in Trxns : Timeout(t)

Next == UlpReq \/ UdpReq \/ ProcessTimeout \/ \E w \in wire : Lose(w)

Spec == Init /\ [][Next]_vars

\* The timers of the event engine expire: module TimerHeap and Gtpv2cTimer.
FairSpec == Spec /\ \A t \in Trxns : WF_vars(Timeout(t))

-----------------------------------------------------------------------------
(* Properties *)

\* The user gets a payload only for the session that has the key it was sent
\* with, whole and without header, whichever flags the header has; a request
\* never reaches a session (NwGre.c:346-467, NwGreMsg.c:161-219, 304-318).
PayloadsArrive ==
  given # None =>
    /\ handle[given.session] # None /\ end[handle[given.session]].key = given.key
    /\ given.payload \in Payloads
    /\ \E w \in wire : w.key = given.key /\ w.payload = given.payload
=============================================================================
