---------------------------- MODULE DatagramFifo ----------------------------
(***************************************************************************)
(* What the GTP-C receive path of the gateway promises to the GTPv2-C      *)
(* stack, without saying how: datagrams are numbered in the order in which *)
(* they leave the socket; each is accepted into exactly one of a few       *)
(* bounded channels; each channel is served by one worker that takes the   *)
(* datagrams one at a time, oldest first, and finishes one before it takes *)
(* the next.                                                               *)
(*                                                                         *)
(* GtpcRxQueue (ring buffers, unlocked reads, per-queue mutexes) is shown  *)
(* to implement this module.                                               *)
(***************************************************************************)
EXTENDS Naturals, Sequences

CONSTANTS
  Channels,     \* one channel per worker
  Capacity,     \* the most datagrams a channel holds
  None          \* what an idle worker holds

VARIABLES
  accepted,     \* how many datagrams have been accepted
  chan,         \* chan[c]: the datagrams waiting in channel c, oldest first
  serving       \* serving[c]: the datagram the worker of c works on, or None

vars == <<accepted, chan, serving>>

Init ==
  /\ accepted = 0
  /\ chan = [c \in Channels |-> <<>>]
  /\ serving = [c \in Channels |-> None]

Accept(c) ==
  /\ Len(chan[c]) < Capacity
  /\ accepted' = accepted + 1
  /\ chan' = [chan EXCEPT ![c] = Append(@, accepted + 1)]
  /\ UNCHANGED serving

Take(c) ==
  /\ chan[c] # <<>>
  /\ serving[c] = None
  /\ serving' = [serving EXCEPT ![c] = Head(chan[c])]
  /\ chan' = [chan EXCEPT ![c] = Tail(@)]
  /\ UNCHANGED accepted

Finish(c) ==
  /\ serving[c] # None
  /\ serving' = [serving EXCEPT ![c] = None]
  /\ UNCHANGED <<accepted, chan>>

Next == \E c \in Channels : Accept(c) \/ Take(c) \/ Finish(c)

Spec == Init /\ [][Next]_vars
=============================================================================
