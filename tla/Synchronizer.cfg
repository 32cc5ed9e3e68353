SPECIFICATION Spec
CONSTANTS
  Nodes = {1, 2, 3}
  Ids = {2, 4, 6}
  Owner <- OwnerDef
  Scenarios <- ScenariosDef
  Buffer = 1
INVARIANTS
  CatchUp
  JoinHandOver
  HandlersReturn
  
CHECK_DEADLOCK FALSE
