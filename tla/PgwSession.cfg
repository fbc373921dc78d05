\* Two workers and peers that behave, or any request while the PGW is idle.
SPECIFICATION Spec
CONSTANTS
  Workers = {w1, w2}
  Blocks = {b1, b2, b3, b4}
  Imsis = {i1, i2}
  Peers = {p1, p2}
  Ebis = {4, 5, 6}
  StartIp = 254
  EndIp = 257
  Inputs = {"create", "create_unparsable", "create_malformed", "delete", "delete_malformed", "other"}
  None = None
INVARIANTS
  SessionsComplete
  AddressesConserved
  FlowsBelongToSessions
  PeersViewIsTrue
  NoAssertionFails
PROPERTIES
  RejectedForAReason
CHECK_DEADLOCK FALSE
SYMMETRY Symmetry
