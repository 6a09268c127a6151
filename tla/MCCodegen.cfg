SPECIFICATION Spec
CONSTANTS
  PtrBytes = 2
  BitsPerByte = 2
  Locals <- MCLocals
  TyOf <- MCTyOf
  Layouts <- MCLayouts
  HeapTy <- MCHeapTy
  Params <- MCParams
  Stmts <- MCStmts
  Conds <- MCConds
  Switches <- MCSwitches
  Calls <- MCCalls
  Returns <- MCReturns
  MaxSteps = 3
INVARIANTS
  MemoryHoldsTheStore
  RunsTheSameWay
CHECK_DEADLOCK FALSE
