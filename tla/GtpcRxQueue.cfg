\* Two queues of one slot, as linker_queue.h computes them (3/2 = 1).
SPECIFICATION FairSpec
CONSTANTS
  NumQueues = 2
  NodeMax = 1
  MaxDatagrams = 5
  Empty = Empty
INVARIANTS
  NoOverwrite
PROPERTIES
  FifoSpec
  AllProcessed
CHECK_DEADLOCK FALSE
