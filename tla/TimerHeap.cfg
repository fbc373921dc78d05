\* Seven timers in a heap that takes six: the last place lies in the other half
\* of the tree than the first place of the last row, so that a removal can let a
\* timer rise; the seventh timer finds the heap full.
SPECIFICATION Spec
CONSTANTS
  Timers = {t1, t2, t3, t4, t5, t6, t7}
  MaxSize = 7
  Times = {0, 1}
  NULL = NULL
INVARIANTS
  HeapOrder
  IndexesAgree
PROPERTIES
  QueueSpec
SYMMETRY Symmetry
