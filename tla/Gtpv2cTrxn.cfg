\* Two peers that use the same sequence number, one worker, any network, fair
\* threads.
SPECIFICATION FairSpec
CONSTANTS
  Peers = {p1, p2}
  SeqNums = {0}
  Ops = {"create", "delete"}
  Workers = {w1}
  Prompt = TRUE
  None = None
PROPERTIES
  CallSpec
  NotAgainWhileHeld
  OnlyDuplicatesRepeated
  EveryCallEnds
CHECK_DEADLOCK FALSE
