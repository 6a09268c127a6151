SPECIFICATION Spec
CONSTANTS
  Declared <- MCDeclared
  Unifications <- MCUnifications
  Offered <- MCOffered
  Exprs = {"e1"}
  MaxVars = 3
  MaxConstraints = 2
  MaxDepth = 2
  MaxCalls = 4
INVARIANTS
  RollbackRestores
  NothingDangles
  SolvedConstraintsHold
  TableSolvesEquations
  RefusesOnlyTheUnsolvable
PROPERTIES
  SolvingProgresses
CHECK_DEADLOCK FALSE
