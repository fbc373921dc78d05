---------------------------- MODULE MCTimerHeap -----------------------------
(***************************************************************************)
(* TimerHeap for model checking with symmetry: nothing distinguishes the   *)
(* timers.  Only for runs without liveness properties.                     *)
(***************************************************************************)
EXTENDS TimerHeap, TLC

Symmetry == Permutations(Timers)
=============================================================================
