SPECIFICATION EngineSpec
CONSTANTS
  b1 = b1
  b2 = b2
  b3 = b3
  b4 = b4
  f = f
  Blocks <- MCBlocks
  Facts <- MCFacts
  Problems <- MCProblems
INVARIANTS
  SettledOffWorklist
  ComputesLeastSolution
PROPERTIES
  ImplementsFixedPoint
  Terminates
CHECK_DEADLOCK FALSE
