\* An MME that behaves or not, PGWs that answer, are silent or misbehave.
SPECIFICATION Spec
CONSTANTS
  Blocks = {b1, b2}
  Chunks = {c1, c2, c3, c4, c5}
  Trxns = {t1, t2}
  Imsis = {i1, i2}
  ENodeBs = {e1, e2}
  Ebis = {3, 5}
  LocalPool = {a1}
  None = None
  Garbage = Garbage
  MaxFaults = 1
INVARIANTS
  RegistryAgrees
  OneSessionPerImsi
  MmeViewIsTrue
  NoRequestForgotten
CHECK_DEADLOCK FALSE
SYMMETRY Symmetry
