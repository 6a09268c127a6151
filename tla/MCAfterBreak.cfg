SPECIFICATION CompilationSpec
CONSTANTS
  Programs <- MCJumpedOver
  Bodies <- NoBodies
  SyntheticLabels = {"b"}
INVARIANTS
  CompilerNeverPanics
CHECK_DEADLOCK FALSE
