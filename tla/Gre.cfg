SPECIFICATION FairSpec
CONSTANTS
  Requests = {r1, r2}
  Trxns = {t1, t2}
  Messages = {m1, m2, m3}
  SeqLimit = 2
  None = None
  Old = Old
  Sessions = {s1, s2}
  Keys = {0, 1}
  Ends = {e1, e2}
  Payloads = {p1}
  InFlight = 1
INVARIANTS
  PayloadsArrive
PROPERTIES
  FailsAfterFourTries
  EveryRequestFails
