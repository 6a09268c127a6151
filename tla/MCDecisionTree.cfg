SPECIFICATION Spec
CONSTANTS
  Scrutinee <- MCScrutinee
  Matches <- MCMatches
  Values <- MCValues
  FieldOrders <- MCFieldOrders
INVARIANTS
  TakesTheFirstCoveringBranch
  BindsWhatThePatternSays
  ReadsOnlyWhatIsThere
CHECK_DEADLOCK FALSE
