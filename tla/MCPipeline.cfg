SPECIFICATION CompilationSpec
CONSTANTS
  Programs <- MCPrograms
  Bodies <- MCBodies
  SyntheticLabels = {"b"}
INVARIANTS
  CompilerNeverPanics
  LoweredBodiesAreWellFormed
  SameBehaviour
  CompilationPreservesExecution
  ParametersComeFirst
  AcceptedFunctionsReturnButForMatches
  ReportedFunctionsFallThrough
  UnreachableStatementsDoNotRun
CHECK_DEADLOCK FALSE
