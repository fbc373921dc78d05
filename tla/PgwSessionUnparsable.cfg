\* A Create Session Request without a conditional IE.
SPECIFICATION Spec
CONSTANTS
  Workers = {w1}
  Blocks = {b1, b2, b3}
  Imsis = {i1, i2}
  Peers = {p1}
  Ebis = {5}
  StartIp = 254
  EndIp = 257
  Inputs = {"create", "create_unparsable", "delete"}
  None = None
INVARIANTS
  ErrorsAreAnswered
CHECK_DEADLOCK FALSE
