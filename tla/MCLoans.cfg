SPECIFICATION Spec
CONSTANTS
  b1 = b1
  b2 = b2
  b3 = b3
  Blocks <- MCBlocks
  Locals <- MCLocals
  CopyLocals <- MCCopyLocals
  Bodies <- MCBodies
  CellPaths <- MCCellPaths
  MaxNesting = 1
INVARIANTS
  AcceptedBodiesReadNoStaleReference
  DeadLocalsAreNotRead
  HeldLoansAreReplayed
CHECK_DEADLOCK FALSE
