----------------------------- MODULE RemoteCall -----------------------------
(***************************************************************************)
(* What the GTPv2-C stack promises to the upper layer that sends a         *)
(* request: it is told once how the request ended, and an answer means     *)
(* that the peer has executed it.  A failure means nothing: the peer may   *)
(* or may not have executed the request, and may still do so.              *)
(***************************************************************************)
CONSTANT Calls

VARIABLES
  status,    \* what the caller knows of each call
  executed   \* the calls that the peer has executed, once or more often

vars == <<status, executed>>

Init ==
  /\ status = [c \in Calls |-> "none"]
  /\ executed = {}

Call(c) ==
  /\ status[c] = "none"
  /\ status' = [status EXCEPT ![c] = "called"]
  /\ UNCHANGED executed

Execute(c) ==
  /\ status[c] # "none"
  /\ executed' = executed \cup {c}
  /\ UNCHANGED status

Answer(c) ==
  /\ status[c] = "called"
  /\ c \in executed
  /\ status' = [status EXCEPT ![c] = "answered"]
  /\ UNCHANGED executed

Fail(c) ==
  /\ status[c] = "called"
  /\ status' = [status EXCEPT ![c] = "failed"]
  /\ UNCHANGED executed

Next == \E c \in Calls : Call(c) \/ Execute(c) \/ Answer(c) \/ Fail(c)

Spec == Init /\ [][Next]_vars
=============================================================================
