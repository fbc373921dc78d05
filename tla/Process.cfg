SPECIFICATION FairSpec
CONSTANTS
  Fds = {11, 12}
  MaxTimers = 2
  GtpcFd = 11
  SeqNumWrap = 3
  PingCounts = {0, 1, 2}
  Endless = Endless
  MaxNet = 3
  None = None
INVARIANTS
  NothingElseUnset
  EventsHaveOwners
  PingGoesOn
PROPERTIES
  EveryEventServed
