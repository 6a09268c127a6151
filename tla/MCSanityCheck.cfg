CONSTANTS
  Structs <- MCStructs
  Enums <- MCEnums
  Callees <- MCCallees
  Bodies <- MCBodies
SPECIFICATION Spec
INVARIANTS
  AcceptedBodiesStayTyped
  TypedBodiesAreAccepted
CHECK_DEADLOCK FALSE
