\* One worker: the pool as it was written to be used.
SPECIFICATION Spec
CONSTANTS
  Workers = {w1}
  Chunks = {c1, c2, c3}
  Teids = {t1, t2, t3}
  None = None
INVARIANTS
  OneOwner
  NothingLeaks
  TunnelsLeadHome
