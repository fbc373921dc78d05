\* One worker; packets arrive.
SPECIFICATION Spec
CONSTANTS
  Workers = {w1}
  Contexts = {c1, c2}
  Blocks = {b1, b2}
  Teids = {t1}
  Addrs = {a1, a2}
  Peers = {p1, p2}
  Packets = TRUE
  Null = Null
  Garbage = Garbage
SYMMETRY Symmetry
INVARIANTS
  EndPointsLeadToFlows
  NothingLeaks
  PacketsFollowFlows
