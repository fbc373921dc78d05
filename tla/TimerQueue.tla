----------------------------- MODULE TimerQueue -----------------------------
(***************************************************************************)
(* What a timer heap promises to the code that starts and stops timers: it *)
(* is a set of pending timers, any of which can be taken out, and a look   *)
(* at it yields one that is due first.                                     *)
(***************************************************************************)
CONSTANTS
  Timers,
  Times,          \* the times at which timers are due, ordered by <=
  None,
  NotLater(_, _)  \* NotLater(t, u): time t is not after time u

VARIABLES
  pending,        \* the timers in the queue
  due,            \* due[t]: the time for which t was last set
  first           \* what the last look has yielded, None if there was nothing

vars == <<pending, due, first>>

Init ==
  /\ pending = {}
  /\ due \in [Timers -> Times]
  /\ first = None

Add(t, time) ==
  /\ t \notin pending
  /\ pending' = pending \cup {t}
  /\ due' = [due EXCEPT ![t] = time]
  /\ UNCHANGED first

TakeOut(t) ==
  /\ pending' = pending \ {t}
  /\ UNCHANGED <<due, first>>

Earliest == {t \in pending : \A u \in pending : NotLater(due[t], due[u])}

Look ==
  /\ first' \in IF pending = {} THEN {None} ELSE Earliest
  /\ UNCHANGED <<pending, due>>

Next ==
  \/ \E t \in Timers : TakeOut(t) \/ \E time \in Times : Add(t, time)
  \/ Look

Spec == Init /\ [][Next]_vars
=============================================================================
