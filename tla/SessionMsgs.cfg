\* Every message of the gateway, well-formed and odd requests of an MME.
SPECIFICATION Spec
CONSTANTS
  Blocks = {b1}
  MaxWire = 1
  MaxCuts = 1
  None = None
  Teids = {1, 2}
  Ebis = {5, 6}
INVARIANTS
  ParseIsReference
  MessagesUnderstood
  FieldsArrive
CHECK_DEADLOCK FALSE
