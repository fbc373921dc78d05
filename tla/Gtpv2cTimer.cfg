\* Two transactions, the event loop alone.  T3 is two units of time and Hold four,
\* so that a timer can be overtaken by a later one, be due with another one, or be
\* started again by a callback while the other one is pending.
SPECIFICATION FairSpec
CONSTANTS
  Workers = {}
  Trxns = {x1, x2}
  Blocks = {b1, b2, b3}
  Events = {e1, e2}
  T3 = 2
  Hold = 4
  None = None
INVARIANTS
  TimersBelong
  NeverEarly
  LateByOneTimer
PROPERTIES
  EveryTimerExpires
